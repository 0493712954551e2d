----------------------------- MODULE MCTransfer -----------------------------
(***************************************************************************)
(* One transfer: an upload or a download.  The two share no state, and so  *)
(* each behaviour has one of them only.                                    *)
(***************************************************************************)
EXTENDS Upload, Download

CONSTANTS w1, w2

VARIABLE doing

vars == <<uploadVars, downVars, doing>>

Init ==
  /\ UploadInit /\ DownInit
  /\ doing \in {"upload", "download"}
  /\ doing = "upload" => fileSize = CHOOSE n \in FileSizes : TRUE

Uploading(step)   == doing = "upload" /\ step /\ UNCHANGED <<downVars, doing>>
Downloading(step) == doing = "download" /\ step /\ UNCHANGED <<uploadVars, doing>>

Next == Uploading(UploadNext) \/ Downloading(DownNext)

\* The fairness of UploadFairSpec and of DownFairSpec.
Spec ==
  /\ Init /\ [][Next]_vars
  /\ WF_vars(Uploading(Producer))
  /\ \A w \in Workers : WF_vars(Uploading(Worker(w)))
  /\ WF_vars(Downloading(CtxDone \/ GetFile \/ Answer))

\* Upload returns, whoever fails and in whatever order, unless it is left with
\* no worker (UploadEnds).
UploadReturns == doing = "upload" => UploadEnds

\* Download returns, also after redirects and at the end of the file
\* (DownloadEnds).
DownloadReturns == doing = "download" => DownloadEnds

=============================================================================
