------------------------------ MODULE Numbering ------------------------------
(***************************************************************************)
(* How outgoing messages get their message ID and sequence number:         *)
(* protocol/message_id.go and protocol/sequence.go, used by Invoke and by  *)
(* flushAcksAndPing of connection/connection.go.                           *)
(*                                                                         *)
(* The two generators have a mutex each.  A goroutine calls one, then the  *)
(* other, then sends: between these steps other goroutines number and send *)
(* messages of their own.                                                  *)
(*                                                                         *)
(* Time is what time.Now reports, plus the offset: nothing is known of two *)
(* readings, a clock may be set back.                                      *)
(***************************************************************************)
EXTENDS Integers, Sequences, FiniteSets

CONSTANTS
  Senders,       \* goroutines that send messages, one after the other
  KeepAlive,     \* the senders whose messages are not content related
  Times,         \* readings of the clock, in nanoseconds
  Offsets,       \* server time offsets
  NanosPerSec,   \* 10^9
  Quarter,       \* 2^30, a quarter of the weight of a second in a message ID
  Top,           \* 2^63: message IDs are of type int64, from -Top to Top - 1
  SeqTop,        \* 2^31: sequence numbers are of type int32
  MaxNumbered    \* bound: no message is begun once so many have been numbered

ASSUME SendersAssumption == KeepAlive \subseteq Senders
ASSUME ClockAssumption ==
  /\ Times \subseteq Nat
  /\ Offsets \subseteq Int /\ 0 \in Offsets
  /\ NanosPerSec \in Nat \ {0}
  /\ Quarter \in Nat
  /\ NanosPerSec <= 4 * Quarter
  /\ Top \in Nat \ {0} /\ Top % 4 = 0
ASSUME SeqAssumption == SeqTop \in Nat \ {0} /\ SeqTop % 2 = 0
ASSUME NumBoundAssumption == MaxNumbered \in Nat

VARIABLES
  lastID,        \* MessageIDGenerator.lastID
  offset,        \* MessageIDGenerator.offset
  contentCount,  \* SequenceGenerator.contentCount
  at,            \* where each sender is
  out,           \* the message each sender is preparing
  numbered,      \* history: messages that have both numbers
  before,        \* history: what was numbered when each message was begun
  wire           \* what was sent, in order

numVars == <<lastID, offset, contentCount, at, out, numbered, before, wire>>

SecUnit == 4 * Quarter

None == [from |-> "nobody", id |-> 0, seq |-> 0]

Content(s) == s \notin KeepAlive

NumInit ==
  /\ lastID = 0
  /\ offset = 0
  /\ contentCount = 0
  /\ at = [s \in Senders |-> "idle"]
  /\ out = [s \in Senders |-> None]
  /\ numbered = {}
  /\ before = [s \in Senders |-> {}]
  /\ wire = << >>

-----------------------------------------------------------------------------
\* Arithmetic of int64 wraps around.
Int64(x) == ((x + Top) % (2 * Top)) - Top

\* Seconds in the upper half, nanoseconds rounded down to a multiple of four
\* in the lower half.  Unix and Nanosecond of time.Time split an instant
\* with a nanosecond part that is never negative.  From 2^31 seconds on, in
\* the year 2038, the stamp is negative.
Stamp(now) ==
  Int64((now \div NanosPerSec) * SecUnit + ((now % NanosPerSec) \div 4) * 4)

SetServerTimeOffset(o) ==
  /\ offset' = o
  /\ UNCHANGED <<lastID, contentCount, at, out, numbered, before, wire>>

\* Mutant: only an equal ID is moved on, not one of a clock set back.
FreshEqualOnly(id) == IF id = lastID THEN lastID + 4 ELSE id

\* Mutant: an equal ID is let through.
FreshOffByOne(id) == IF id < lastID THEN lastID + 4 ELSE id

\* Strictly above the last ID, whatever the clock says.  (lastID + 4 wraps
\* only from Top - 4 on, further from any stamp than messages can be counted.)
Fresh(id) == IF id <= lastID THEN lastID + 4 ELSE id

\* msgIDs.Next
NextMsgID(s) ==
  /\ at[s] = "idle"
  /\ Cardinality(numbered) < MaxNumbered
  /\ \E now \in Times :
       /\ lastID' = Fresh(Stamp(now + offset))
       /\ out' = [out EXCEPT ![s] = [from |-> s, id |-> lastID', seq |-> 0]]
  /\ before' = [before EXCEPT ![s] = numbered]
  /\ at' = [at EXCEPT ![s] = "hasID"]
  /\ UNCHANGED <<offset, contentCount, numbered, wire>>

\* Mutant: the counter is raised for service messages as well.
CountAll(s) == contentCount + 1

CountNext(s) == IF Content(s) THEN contentCount + 1 ELSE contentCount

\* Mutant: the sum saturates at the largest number.
SeqNoSaturates(m) == IF m.seq < SeqTop THEN m.seq ELSE SeqTop - 1

\* The sequence number of a message.  contentCount is an int32 as well; here it
\* and seq count on, and the number is what twice the count leaves in 32 bits.
SeqNo(m) == ((m.seq + SeqTop) % (2 * SeqTop)) - SeqTop

\* seqNos.Next
NextSeqNo(s) ==
  /\ at[s] = "hasID"
  /\ out' = [out EXCEPT ![s].seq = IF Content(s) THEN contentCount * 2 + 1
                                                 ELSE contentCount * 2]
  /\ contentCount' = CountNext(s)
  /\ numbered' = numbered \cup {out'[s]}
  /\ at' = [at EXCEPT ![s] = "numbered"]
  /\ UNCHANGED <<lastID, offset, before, wire>>

\* transport.Send of the encrypted message, or its failure.
Send(s) ==
  /\ at[s] = "numbered"
  /\ \/ wire' = Append(wire, out[s])
     \/ UNCHANGED wire
  /\ out' = [out EXCEPT ![s] = None]
  /\ before' = [before EXCEPT ![s] = {}]
  /\ at' = [at EXCEPT ![s] = "idle"]
  /\ UNCHANGED <<lastID, offset, contentCount, numbered>>

NumNext ==
  \/ \E s \in Senders : NextMsgID(s) \/ NextSeqNo(s) \/ Send(s)
  \/ \E o \in Offsets : SetServerTimeOffset(o)

NumSpec == NumInit /\ [][NumNext]_numVars

-----------------------------------------------------------------------------
(***************************************************************************)
(* Properties                                                              *)
(***************************************************************************)

\* A message, with or without its second number.
Message == [from : Senders, id : Int, seq : Nat]

NumTypeOK ==
  /\ lastID \in Nat
  /\ offset \in Offsets
  /\ contentCount \in Nat
  /\ at \in [Senders -> {"idle", "hasID", "numbered"}]
  /\ out \in [Senders -> Message \cup {None}]
  /\ numbered \in SUBSET Message
  /\ before \in [Senders -> SUBSET Message]
  /\ wire \in Seq(Message)

(***************************************************************************)
(* "Every message ID must be strictly greater than any previously          *)
(* generated message ID" and "msg_id % 4 must equal 0" (message_id.go):    *)
(* so no two messages share an ID, whatever the clock does, and the RPC    *)
(* engine can name a call by it.                                           *)
(***************************************************************************)
MessageIDs ==
  /\ lastID % 4 = 0
  /\ \A m \in numbered : m.id <= lastID /\ m.id % 4 = 0
  /\ \A s \in Senders :
       at[s] # "idle" =>
         /\ out[s].id <= lastID /\ out[s].id % 4 = 0
         /\ \A m \in numbered : m.id = out[s].id => m = out[s]
         /\ \A t \in Senders : at[t] # "idle" /\ out[t].id = out[s].id => t = s
  /\ \A m, n \in numbered : m.id = n.id => m = n

\* Fewer than 2^30 content-related messages so far.
NoneWrapped == 2 * contentCount < SeqTop

(***************************************************************************)
(* Content-related messages carry the odd numbers 1, 3, 5 ... each exactly *)
(* once and without a gap, service messages an even number.  From the      *)
(* message 2^30 on the numbers are negative: they stay odd and even, and   *)
(* none is repeated before there have been 2^31 of them.                   *)
(***************************************************************************)
SequenceNumbers ==
  /\ \A m \in numbered : SeqNo(m) % 2 = IF Content(m.from) THEN 1 ELSE 0
  /\ contentCount <= SeqTop =>
       \A m, n \in numbered :
         Content(m.from) /\ Content(n.from) /\ SeqNo(m) = SeqNo(n) => m = n
  /\ NoneWrapped =>
       /\ \A m \in numbered : 0 <= SeqNo(m) /\ SeqNo(m) <= 2 * contentCount
       /\ \A i \in 0 .. contentCount - 1 :
            \E m \in numbered : Content(m.from) /\ SeqNo(m) = 2 * i + 1

(***************************************************************************)
(* The generators are called one after the other without a common lock, so *)
(* the order of IDs and the order of sequence numbers of two concurrent    *)
(* messages may disagree.  Of a message that was numbered before another   *)
(* was begun, both numbers are smaller, until sequence numbers wrap.       *)
(***************************************************************************)
RealTimeOrder ==
  \A s \in Senders :
    /\ at[s] # "idle" => \A m \in before[s] : m.id < out[s].id
    /\ at[s] = "numbered" /\ NoneWrapped =>
         \A m \in before[s] :
           IF Content(m.from) THEN SeqNo(m) < SeqNo(out[s]) ELSE SeqNo(m) <= SeqNo(out[s])

(***************************************************************************)
(* The messages of one goroutine reach the wire in the order of their      *)
(* numbers: the server never sees a ping before the msgs_ack of its flush. *)
(***************************************************************************)
SenderOrder ==
  \A i, j \in DOMAIN wire :
    i < j /\ wire[i].from = wire[j].from =>
      /\ wire[i].id < wire[j].id
      /\ NoneWrapped => SeqNo(wire[i]) <= SeqNo(wire[j])

=============================================================================
