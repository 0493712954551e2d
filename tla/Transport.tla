------------------------------ MODULE Transport ------------------------------
(***************************************************************************)
(* A stream between two ends that use the package mtproto/transport: Conn  *)
(* of transport.go and the four framing codecs, abridged.go,               *)
(* intermediate.go, padded.go and full.go.                                 *)
(*                                                                         *)
(* Goroutines Send packets on one end, one at a time under writeMu; each   *)
(* Write of a codec may fail after any part of its bytes, because of a     *)
(* deadline or of Close.  The other end reads frame after frame and stops  *)
(* at the first error, as readLoop does.                                   *)
(*                                                                         *)
(* A byte is a pair: its value, and what it is a checksum of.  Ordinary    *)
(* bytes are a checksum of nothing; CRC-32 is taken to be perfect.         *)
(***************************************************************************)
EXTENDS Integers, Sequences, FiniteSets

CONSTANTS
  Senders,    \* goroutines, named by the value of the bytes they send
  Codecs,     \* a subset of {"abridged", "intermediate", "padded", "full"}
  Lens,       \* the lengths of the packets they send
  Radix,      \* 256, the number of byte values
  Word,       \* 4, the bytes of a uint32
  Escape,     \* 0x7f, the first byte of a long abridged header
  Unit,       \* 4, abridged lengths are counted in units
  MaxLen,     \* 16 MiB
  MaxPad,     \* 15
  MaxSends    \* bound: how many packets are sent in all

ASSUME WireAssumption ==
  /\ Senders \subseteq 0 .. Radix - 1 /\ Lens \subseteq Nat
  /\ Codecs \subseteq {"abridged", "intermediate", "padded", "full"}
  /\ Radix \in Nat /\ Escape \in 1 .. Radix - 1 /\ Word \in Nat \ {0}
  /\ Unit \in Nat \ {0} /\ MaxLen \in Nat /\ MaxPad \in Nat /\ MaxSends \in Nat

VARIABLES
  codec,     \* Conn.codec
  writeMu,   \* the sender that holds Conn.writeMu, or Nobody
  closed,    \* Conn.closed
  sendSeq,   \* Full.sendSeq
  at,        \* where each sender is in Send
  packet,    \* the packet each sender sends
  pieces,    \* the Writes of the codec that are still to be made
  stream,    \* the bytes written and not yet read
  reader,    \* the other end: "reading", or why it stopped
  sends,     \* how many packets have been begun
  whole,     \* history: the packets written to the end, in order
  seqs,      \* history: the sequence numbers of their frames
  torn,      \* history: a Write failed
  got        \* history: what the other end has read

sendVars == <<writeMu, sendSeq, at, packet, pieces, sends, whole, seqs, torn>>
wireVars == <<codec, sendVars, closed, stream, reader, got>>

Nobody == -1

-----------------------------------------------------------------------------
(* Bytes and words                                                         *)

Byte(v) == <<v, << >> >>

Power(i) == Radix^i

Digit(v, i) == (v \div Power(i)) % Radix

\* PutUint32 and the like: n bytes, the least significant first.
PutUint(v, n) == [i \in 1 .. n |-> Byte(Digit(v, i - 1))]

GetUint(bs) ==
  LET sum[i \in 0 .. Len(bs)] ==
        IF i = 0 THEN 0 ELSE sum[i - 1] + bs[i][1] * Power(i - 1)
  IN  sum[Len(bs)]

\* A law of arithmetic.
ASSUME PowerAssumption ==
  Power(0) = 1 /\ \A i \in 0 .. Word - 1 : Power(i + 1) = Radix * Power(i)

(***************************************************************************)
(* Every length fits into its header: below 2^32, or 2^24 units in the     *)
(* long abridged form.  So does the number of a frame.                     *)
(***************************************************************************)
ASSUME HeadersAssumption ==
  /\ \A n \in Lens :
       /\ n + MaxPad < Power(Word) /\ n + 3 * Word < Power(Word)
       /\ n \div Unit >= Escape => n \div Unit < Power(Word - 1)
  /\ MaxSends < Power(Word)

Checksum(bs) == [i \in 1 .. Word |-> <<0, bs>>]

Payload(s, n) == [i \in 1 .. n |-> Byte(s)]

Take(bs, n) == SubSeq(bs, 1, n)
Drop(bs, n) == SubSeq(bs, n + 1, Len(bs))

-----------------------------------------------------------------------------
(* WritePacket: the Writes a codec makes for a packet                      *)

AbridgedHeader(n) ==
  IF n < Escape THEN <<Byte(n)>> ELSE <<Byte(Escape)>> \o PutUint(n, Word - 1)

FullFrame(p, seq) ==
  LET front == PutUint(Len(p) + 3 * Word, Word) \o PutUint(seq, Word) \o p
  IN  front \o Checksum(front)

WritePacket(p, pad) ==
  CASE codec = "abridged"     -> <<AbridgedHeader(Len(p) \div Unit), p>>
    [] codec = "intermediate" -> <<PutUint(Len(p), Word), p>>
    [] codec = "padded"       ->
         LET length == PutUint(Len(p) + pad, Word)
         IN  IF pad > 0 THEN <<length, p, [i \in 1 .. pad |-> Byte(0)]>> ELSE <<length, p>>
    [] codec = "full"         -> <<FullFrame(p, sendSeq)>>

-----------------------------------------------------------------------------
(* ReadPacket: what a codec makes of the bytes it finds                    *)

\* More bytes are needed, the frame is refused, or it is read.
NeedMore      == [is |-> "more", packet |-> << >>, rest |-> << >>]
Refused(why)  == [is |-> why, packet |-> << >>, rest |-> << >>]
Accepted(p, r) == [is |-> "ok", packet |-> p, rest |-> r]

\* Mutant: the longest packet is refused.
ReadBodyOffByOne(length, rest) ==
  IF length <= 0 \/ length >= MaxLen THEN Refused("length")
  ELSE IF Len(rest) < length THEN NeedMore
  ELSE Accepted(Take(rest, length), Drop(rest, length))

\* The end that three codecs share.
ReadBody(length, rest) ==
  IF length <= 0 \/ length > MaxLen THEN Refused("length")
  ELSE IF Len(rest) < length THEN NeedMore
  ELSE Accepted(Take(rest, length), Drop(rest, length))

ReadAbridged(bs) ==
  IF Len(bs) < 1 THEN NeedMore
  ELSE IF bs[1][1] < Escape THEN ReadBody(bs[1][1] * Unit, Drop(bs, 1))
  ELSE IF Len(bs) < Word THEN NeedMore
  ELSE ReadBody(GetUint(SubSeq(bs, 2, Word)) * Unit, Drop(bs, Word))

ReadPrefixed(bs) ==
  IF Len(bs) < Word THEN NeedMore ELSE ReadBody(GetUint(Take(bs, Word)), Drop(bs, Word))

\* Mutant: the checksum is not compared.
ReadFullUnchecked(bs) ==
  LET total == GetUint(Take(bs, Word))
  IN  IF Len(bs) < Word THEN NeedMore
      ELSE IF total < 3 * Word \/ total > MaxLen THEN Refused("length")
      ELSE IF Len(bs) < total THEN NeedMore
      ELSE Accepted(SubSeq(bs, 2 * Word + 1, total - Word), Drop(bs, total))

ReadFull(bs) ==
  LET total == GetUint(Take(bs, Word))
  IN  IF Len(bs) < Word THEN NeedMore
      ELSE IF total < 3 * Word \/ total > MaxLen THEN Refused("length")
      ELSE IF Len(bs) < total THEN NeedMore
      ELSE IF SubSeq(bs, total - Word + 1, total) # Checksum(Take(bs, total - Word))
        THEN Refused("crc")
      ELSE Accepted(SubSeq(bs, 2 * Word + 1, total - Word), Drop(bs, total))

ReadPacket(bs) ==
  CASE codec = "abridged" -> ReadAbridged(bs)
    [] codec = "full"     -> ReadFull(bs)
    [] OTHER              -> ReadPrefixed(bs)

-----------------------------------------------------------------------------
\* WrapConn has returned; the tag of its handshake has been read.
WireInit ==
  /\ codec \in Codecs
  /\ writeMu = Nobody /\ closed = FALSE /\ sendSeq = 0
  /\ at = [s \in Senders |-> "idle"]
  /\ packet = [s \in Senders |-> << >>]
  /\ pieces = [s \in Senders |-> << >>]
  /\ stream = << >> /\ reader = "reading"
  /\ sends = 0 /\ whole = << >> /\ seqs = << >> /\ torn = FALSE /\ got = << >>

\* Send finds the connection open and its context live.
Send(s, n) ==
  /\ at[s] = "idle"
  /\ ~closed
  /\ sends < MaxSends
  /\ sends' = sends + 1
  /\ packet' = [packet EXCEPT ![s] = Payload(s, n)]
  /\ at' = [at EXCEPT ![s] = "locking"]
  /\ UNCHANGED <<codec, writeMu, closed, sendSeq, pieces, stream, reader, whole, seqs, torn, got>>

\* A number is taken for every frame that is begun.
NextSeq == IF codec = "full" THEN sendSeq + 1 ELSE sendSeq

\* The codec takes the packet; abridged refuses one of a broken unit.
BeginWrite(s) ==
  /\ \/ /\ codec = "abridged" /\ Len(packet[s]) % Unit # 0
        /\ at' = [at EXCEPT ![s] = "idle"]
        /\ packet' = [packet EXCEPT ![s] = << >>]
        /\ UNCHANGED <<writeMu, pieces>>
     \/ /\ codec = "abridged" => Len(packet[s]) % Unit = 0
        /\ \E pad \in 0 .. (IF codec = "padded" THEN MaxPad ELSE 0) :
             pieces' = [pieces EXCEPT ![s] = WritePacket(packet[s], pad)]
        /\ writeMu' = s
        /\ at' = [at EXCEPT ![s] = "writing"]
        /\ UNCHANGED packet
  /\ sendSeq' = NextSeq
  /\ UNCHANGED <<codec, closed, stream, reader, sends, whole, seqs, torn, got>>

\* Mutant: nobody waits for writeMu.
LockIgnored(s) == at[s] = "locking" /\ BeginWrite(s)

Lock(s) == at[s] = "locking" /\ writeMu = Nobody /\ BeginWrite(s)

\* The deferred Unlock, and the return of Send.
Unlock(s) ==
  /\ writeMu' = Nobody
  /\ at' = [at EXCEPT ![s] = "idle"]
  /\ pieces' = [pieces EXCEPT ![s] = << >>]
  /\ packet' = [packet EXCEPT ![s] = << >>]

\* One Write of the codec; after the last one Send returns nil.
Write(s) ==
  /\ at[s] = "writing"
  /\ ~closed
  /\ stream' = stream \o Head(pieces[s])
  /\ \/ /\ Len(pieces[s]) > 1
        /\ pieces' = [pieces EXCEPT ![s] = Tail(@)]
        /\ UNCHANGED <<writeMu, at, packet, whole, seqs>>
     \/ /\ Len(pieces[s]) = 1
        /\ whole' = Append(whole, packet[s])
        /\ seqs' = Append(seqs, IF codec = "full"
                                THEN GetUint(SubSeq(pieces[s][1], Word + 1, 2 * Word)) ELSE 0)
        /\ Unlock(s)
  /\ UNCHANGED <<codec, closed, sendSeq, reader, sends, torn, got>>

\* Mutant: the mutex is kept.
WriteFailsLocked(s) ==
  /\ at[s] = "writing"
  /\ torn' = TRUE
  /\ at' = [at EXCEPT ![s] = "idle"]
  /\ pieces' = [pieces EXCEPT ![s] = << >>]
  /\ packet' = [packet EXCEPT ![s] = << >>]
  /\ UNCHANGED <<codec, writeMu, closed, sendSeq, stream, reader, sends, whole, seqs, got>>

\* It fails after some of its bytes; Send returns the error.
WriteFails(s) ==
  /\ at[s] = "writing"
  /\ \E n \in {0} \cup 0 .. Len(Head(pieces[s])) - 1 :
       stream' = stream \o Take(Head(pieces[s]), n)
  /\ torn' = TRUE
  /\ Unlock(s)
  /\ UNCHANGED <<codec, closed, sendSeq, reader, sends, whole, seqs, got>>

Close ==
  /\ ~closed
  /\ closed' = TRUE
  /\ UNCHANGED <<codec, sendVars, stream, reader, got>>

\* Recv at the other end, on the bytes that have arrived so far.
Recv ==
  /\ reader = "reading"
  /\ LET r == ReadPacket(stream)
     IN  /\ r.is # "more"
         /\ IF r.is = "ok"
              THEN /\ got' = Append(got, r.packet)
                   /\ stream' = r.rest
                   /\ UNCHANGED reader
              ELSE /\ reader' = r.is
                   /\ UNCHANGED <<got, stream>>
  /\ UNCHANGED <<codec, sendVars, closed>>

\* The read deadline passes, or the stream ends.
RecvFails ==
  /\ reader = "reading"
  /\ reader' = "failed"
  /\ UNCHANGED <<codec, sendVars, closed, stream, got>>

SendStep(s) == Lock(s) \/ Write(s) \/ WriteFails(s)

WireNext ==
  \/ \E s \in Senders, n \in Lens : Send(s, n)
  \/ \E s \in Senders : SendStep(s)
  \/ Close \/ Recv \/ RecvFails

WireSpec == WireInit /\ [][WireNext]_wireVars

(***************************************************************************)
(* Every Write ends, by its deadline of 30 s at the latest, and a          *)
(* sync.Mutex starves nobody.  Nothing is assumed of the reader.           *)
(***************************************************************************)
WireFairSpec ==
  /\ WireSpec
  /\ \A s \in Senders : WF_wireVars(Write(s) \/ WriteFails(s)) /\ SF_wireVars(Lock(s))

-----------------------------------------------------------------------------
(***************************************************************************)
(* Properties                                                              *)
(***************************************************************************)

WireTypeOK ==
  /\ codec \in Codecs
  /\ writeMu \in Senders \cup {Nobody}
  /\ \A s \in Senders :
       /\ at[s] \in {"idle", "locking", "writing"}
       /\ at[s] = "writing" <=> pieces[s] # << >>
  /\ closed \in BOOLEAN /\ torn \in BOOLEAN
  /\ sendSeq \in 0 .. sends /\ sends \in 0 .. MaxSends
  /\ \A i \in DOMAIN stream : stream[i][1] \in 0 .. Radix - 1
  /\ reader \in {"reading", "length", "crc", "failed"}
  /\ Len(seqs) = Len(whole)

\* What may follow a packet: nothing, but for the padding of one codec.
IsPadded(p, q) ==
  /\ Len(p) <= Len(q) /\ Take(q, Len(p)) = p
  /\ Len(q) - Len(p) <= (IF codec = "padded" THEN MaxPad ELSE 0)

(***************************************************************************)
(* As long as no Write has failed the other end reads the packets that     *)
(* were sent, in the order in which writeMu was held: frames of concurrent *)
(* senders do not mix, headers say how long they are.                      *)
(***************************************************************************)
FramesIntact ==
  ~torn =>
    /\ Len(got) <= Len(whole)
    /\ \A i \in DOMAIN got : IsPadded(whole[i], got[i])

\* The longest packet the reader takes from each codec.
Fits(p) ==
  CASE codec = "full"   -> Len(p) + 3 * Word <= MaxLen
    [] codec = "padded" -> Len(p) > 0 /\ Len(p) + MaxPad <= MaxLen
    [] OTHER            -> Len(p) > 0 /\ Len(p) <= MaxLen

(***************************************************************************)
(* The reader refuses none of these frames if their packets are within the *)
(* limits: a reader that stops has met its deadline, or a packet that is   *)
(* empty or too long, which the writer lets through.                       *)
(***************************************************************************)
NoFrameRefused ==
  ~torn /\ (\A s \in Senders : at[s] # "idle" => Fits(packet[s]))
        /\ (\A i \in DOMAIN whole : Fits(whole[i]))
    => reader \in {"reading", "failed"}

(***************************************************************************)
(* After a Write that failed half-way the connection stays open, and the   *)
(* next frame follows the broken one.  With the checksums of the full      *)
(* codec the other end still reads only packets that were sent, in order;  *)
(* its frames are numbered in the order in which they are on the wire, and *)
(* without a gap as long as no Write has failed.                           *)
(***************************************************************************)
ChecksumsProtect ==
  codec = "full" =>
    /\ Len(got) <= Len(whole)
    /\ \A i \in DOMAIN got : got[i] = whole[i]
    /\ \A i, j \in DOMAIN seqs : i < j => seqs[i] < seqs[j]
    /\ ~torn => \A i \in DOMAIN seqs : seqs[i] = i - 1

(***************************************************************************)
(* Every Send returns, also after a failed one of another goroutine.       *)
(***************************************************************************)
SendsReturn == \A s \in Senders : (at[s] # "idle") ~> (at[s] = "idle")

=============================================================================
