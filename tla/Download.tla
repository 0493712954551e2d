------------------------------ MODULE Download ------------------------------
(***************************************************************************)
(* Downloader.Download of transfer/downloader.go, with the encoding of its *)
(* request, UploadGetFile.Encode of tl/generated/core.go.                  *)
(*                                                                         *)
(* One goroutine asks for the file piece by piece and writes each piece.   *)
(* The server may redirect a request that says the client can read from a  *)
(* CDN; the downloader then asks once more, without saying so.  The server *)
(* reads a request as it was encoded: Encode keeps the flags in the        *)
(* request itself.                                                         *)
(***************************************************************************)
EXTENDS Naturals, Sequences

CONSTANTS
  FileSizes,  \* how long a file on the server may be
  Limit       \* the chunk size

ASSUME FileAssumption == FileSizes \subseteq Nat /\ Limit \in Nat \ {0}

VARIABLES
  fileSize,   \* the length of the file the caller asks for
  pc,         \* "loop", "sent", "returned"
  offset,     \* the offset of the next request, also the bytes downloaded
  req,        \* the request: its flag fields and its Flags word
  sent,       \* the flags of the request as the server got it
  fallback,   \* the request in hand is the second one, after a redirect
  written,    \* what the writer got: the offset of every byte
  live,       \* ctx is live
  stubborn,   \* history: the server redirected the second request as well
  outcome     \* "none", "ok" or "error"

downVars == <<fileSize, pc, offset, req, sent, fallback, written, live, stubborn, outcome>>

Flags == {"precise", "cdn"}

DownInit ==
  /\ fileSize \in FileSizes
  /\ pc = "loop" /\ offset = 0
  /\ req = [precise |-> FALSE, cdn |-> FALSE, flags |-> {}]
  /\ sent = {} /\ fallback = FALSE /\ written = << >>
  /\ live = TRUE /\ stubborn = FALSE /\ outcome = "none"

-----------------------------------------------------------------------------
\* UploadGetFile.Encode sets bits in the request's own Flags and clears none.
Encode(r) ==
  [r EXCEPT !.flags = @ \cup {f \in Flags : \/ f = "precise" /\ r.precise
                                            \/ f = "cdn" /\ r.cdn}]

\* Invoke encodes the request and sends it.
Ask(r) ==
  /\ req' = Encode(r)
  /\ sent' = Encode(r).flags

Finish(how) ==
  /\ pc' = "returned"
  /\ outcome' = how

CancelDownload ==
  /\ live
  /\ live' = FALSE
  /\ UNCHANGED <<fileSize, pc, offset, req, sent, fallback, written, stubborn, outcome>>

CtxDone ==
  /\ pc = "loop"
  /\ ~live
  /\ Finish("error")
  /\ UNCHANGED <<fileSize, offset, req, sent, fallback, written, live, stubborn>>

\* A new request, for the piece at offset.
GetFile ==
  /\ pc = "loop"
  /\ live
  /\ Ask([precise |-> TRUE, cdn |-> TRUE, flags |-> {}])
  /\ fallback' = FALSE
  /\ pc' = "sent"
  /\ UNCHANGED <<fileSize, offset, written, live, stubborn, outcome>>

\* Invoke fails, the answer does not decode or is of another type.
AnswerBad ==
  /\ pc = "sent"
  /\ Finish("error")
  /\ UNCHANGED <<fileSize, offset, req, sent, fallback, written, live, stubborn>>

\* The bytes the server has for the request.
Piece == LET n == IF fileSize - offset < Limit THEN fileSize - offset ELSE Limit
         IN  [i \in 1 .. n |-> offset + i - 1]

\* Mutant: the writer gets the piece, the offset stays.
TakeWithoutAdvance(piece) ==
  /\ written' = written \o piece
  /\ UNCHANGED offset

Take(piece) ==
  /\ written' = written \o piece
  /\ offset' = offset + Len(piece)

\* Mutant: a full piece ends the download, too.
IsLastAlways(piece) == Len(piece) <= Limit

\* A piece shorter than the limit is the last one.
IsLast(piece) == Len(piece) < Limit

\* upload.file: write the piece and go on, or fail to write all of it.
AnswerFile ==
  /\ pc = "sent"
  /\ \/ /\ Take(Piece)
        /\ \/ IsLast(Piece) /\ Finish("ok")
           \/ ~IsLast(Piece) /\ pc' = "loop" /\ UNCHANGED outcome
     \/ /\ \E n \in 0 .. Len(Piece) - 1 : written' = written \o SubSeq(Piece, 1, n)
        /\ Finish("error")
        /\ UNCHANGED offset
  /\ UNCHANGED <<fileSize, req, sent, fallback, live, stubborn>>

\* Mutant: a redirect starts the piece over.
AnswerRedirectRetries ==
  /\ pc = "sent"
  /\ "cdn" \in sent
  /\ pc' = "loop"
  /\ UNCHANGED <<fileSize, offset, req, sent, fallback, written, live, stubborn, outcome>>

\* upload.fileCdnRedirect, to a request that allows it: ask again without.
AnswerRedirect ==
  /\ pc = "sent"
  /\ "cdn" \in sent
  /\ ~fallback
  /\ Ask([req EXCEPT !.cdn = FALSE])
  /\ fallback' = TRUE
  /\ UNCHANGED <<fileSize, pc, offset, written, live, stubborn, outcome>>

\* The second answer is a redirect again: Download returns nil.
AnswerRedirectAgain ==
  /\ pc = "sent"
  /\ "cdn" \in sent
  /\ fallback
  /\ stubborn' = TRUE
  /\ Finish("ok")
  /\ UNCHANGED <<fileSize, offset, req, sent, fallback, written, live>>

Answer == AnswerBad \/ AnswerFile \/ AnswerRedirect \/ AnswerRedirectAgain

DownNext == CancelDownload \/ CtxDone \/ GetFile \/ Answer

DownSpec == DownInit /\ [][DownNext]_downVars

\* The goroutine moves, and Invoke returns within its timeout of 60 s.
DownFairSpec == DownSpec /\ WF_downVars(CtxDone \/ GetFile \/ Answer)

-----------------------------------------------------------------------------
(***************************************************************************)
(* Properties                                                              *)
(***************************************************************************)

DownTypeOK ==
  /\ fileSize \in FileSizes
  /\ pc \in {"loop", "sent", "returned"}
  /\ offset \in 0 .. fileSize
  /\ req \in [precise : BOOLEAN, cdn : BOOLEAN, flags : SUBSET Flags]
  /\ sent \in SUBSET Flags
  /\ fallback \in BOOLEAN /\ live \in BOOLEAN /\ stubborn \in BOOLEAN
  /\ written \in Seq(Nat)
  /\ outcome \in {"none", "ok", "error"}

(***************************************************************************)
(* The writer gets the bytes of the file in order, none twice and none     *)
(* left out, up to the offset of the next request, also across redirects;  *)
(* more than that only if the last write failed half-way.                  *)
(***************************************************************************)
WrittenIsPrefix ==
  /\ Len(written) = offset \/ (outcome = "error" /\ Len(written) > offset)
  /\ \A i \in DOMAIN written : written[i] = i - 1

(***************************************************************************)
(* A download that reports success has written the whole file, unless the  *)
(* server redirected the fallback request, which Download takes for the    *)
(* end of the file.                                                        *)
(***************************************************************************)
OkMeansWhole == outcome = "ok" /\ ~stubborn => offset = fileSize

(***************************************************************************)
(* Download returns: the pieces add up to the file after finitely many     *)
(* requests, and the last one is recognised also when the file ends at a   *)
(* multiple of the chunk size.                                             *)
(***************************************************************************)
DownloadEnds == <>(pc = "returned")

=============================================================================
