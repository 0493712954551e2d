------------------------------ MODULE RpcEngine ------------------------------
(***************************************************************************)
(* The RPC engine of mtproto/rpc/engine.go: it correlates the results the  *)
(* server sends with the calls that wait for them.                         *)
(*                                                                         *)
(* Three kinds of goroutines meet in it.  A caller registers its request,  *)
(* waits in Await and leaves with a result, on a timeout or on the         *)
(* cancellation of its context.  The reader (readLoop of the connection)   *)
(* runs Dispatch on one incoming message at a time.  Anyone may Close.     *)
(* Every section of code under a mutex, and every channel operation, is    *)
(* one step; the steps of different goroutines interleave.                 *)
(*                                                                         *)
(* A call is named by its request's message ID (the module Numbering shows *)
(* that two requests never share one), and so is the buffered channel of   *)
(* capacity one that Register makes for it.                                *)
(*                                                                         *)
(* Dispatch and handleContainer call each other recursively.  Here the     *)
(* messages still to be dispatched are kept in work, the next one first:   *)
(* an error in any of them makes every enclosing Dispatch and              *)
(* handleContainer return, which is work' = << >>.                         *)
(***************************************************************************)
EXTENDS Naturals, Sequences, RpcErrors

CONSTANTS
  Calls,    \* the request message IDs
  NoCall,   \* a request ID no call of this engine ever had
  MsgIds,   \* the message IDs the server uses
  Bodies,   \* the payloads the server may send, closed under unpacking
  MaxAcks   \* bound: no new message is read while more than MaxAcks wait

(***************************************************************************)
(* What a payload decodes to.                                              *)
(*   container  msg_container, items holds its messages in order           *)
(*   cut        not a message: the place where the framing of a container  *)
(*              cannot be decoded any further                              *)
(*   gzip       gzip_packed around the payload inner                       *)
(*   result     rpc_result for the request req                             *)
(*   other      pong, updates and service notices                          *)
(*   bad        shorter than a constructor ID, or gzip_packed that does    *)
(*              not decompress, or rpc_result cut before the result        *)
(***************************************************************************)
Messages == [id : MsgIds, body : Bodies]
Kinds    == {"container", "cut", "gzip", "result", "other", "bad"}

Answers   == {"raw", "unzipped"} \cup ErrorTypes   \* the result decodes
Malformed == {"badError", "badGzip"}               \* it does not: the call fails
Replies   == Answers \cup Malformed
GiveUps   == {"timeout", "ctx", "sendFailed"}      \* the caller stopped waiting
Outcomes  == Replies \cup GiveUps \cup {"closed"}

\* What the caller will see of a result: an rpc_error becomes a typed error.
Reply(b) == IF b.reply = "rpcError" THEN ParseError(b.code, b.msg) ELSE b.reply

ASSUME CallsAssumption == NoCall \notin Calls
ASSUME BoundAssumption == MaxAcks \in Nat
ASSUME BodiesAssumption ==
  \A b \in Bodies :
    /\ b.kind \in Kinds
    /\ b.kind = "container" => b.items \in Seq(Messages)
    /\ b.kind = "gzip"      => b.inner \in Bodies
    /\ b.kind = "result"    =>
         /\ b.req \in Calls \cup {NoCall}
         /\ IF b.reply = "rpcError" THEN b.msg \in Seq(STRING) \ {<<>>} ELSE b.reply \in Replies

VARIABLES
  pending,  \* Engine.pending: the registered calls
  done,     \* the channel of each call, empty or holding one rpcResult
  closed,   \* Engine.closed
  ackIDs,   \* Engine.ackIDs: received, not yet acknowledged
  call,     \* where each caller is
  ret,      \* what each caller returned
  work,     \* messages the running Dispatch has still to process
  disp,     \* where the reader is inside Dispatch
  found     \* the rpc_result the reader is routing

engineVars == <<pending, done, closed, ackIDs>>
callVars   == <<call, ret>>
readVars   == <<work, disp, found>>
vars       == <<engineVars, callVars, readVars>>

Empty        == [req |-> NoCall, val |-> "none"]
Result(c, v) == [req |-> c, val |-> v]
Results      == [req : Calls, val : Outcomes]
Stages       == {"new", "registered", "awaiting", "cancelling", "returned"}
Active       == {"registered", "awaiting", "cancelling"}

TypeOK ==
  /\ pending \in SUBSET Calls
  /\ done \in [Calls -> Results \cup {Empty}]
  /\ closed \in BOOLEAN
  /\ ackIDs \in Seq(MsgIds)
  /\ call \in [Calls -> Stages]
  /\ ret \in [Calls -> Results \cup {Empty}]
  /\ work \in Seq(Messages)
  /\ disp \in {"idle", "dispatch", "take", "deliver"}
  /\ found \in [req : Calls \cup {NoCall}, val : Replies] \cup {Empty}

Init ==
  /\ pending = {}
  /\ done = [c \in Calls |-> Empty]
  /\ closed = FALSE
  /\ ackIDs = << >>
  /\ call = [c \in Calls |-> "new"]
  /\ ret = [c \in Calls |-> Empty]
  /\ work = << >>
  /\ disp = "idle"
  /\ found = Empty

-----------------------------------------------------------------------------
(* The caller: Register, then Await or, when sending failed, Cancel.       *)

Fill(c, v) == done' = [done EXCEPT ![c] = Result(c, v)]

Goto(c, stage) == call' = [call EXCEPT ![c] = stage]

\* Mutant: the closed flag is not looked at.
RegisterIgnoringClosed(c) ==
  /\ call[c] = "new"
  /\ pending' = pending \cup {c}
  /\ Goto(c, "registered")
  /\ UNCHANGED <<done, closed, ackIDs, ret, readVars>>

Register(c) ==
  /\ call[c] = "new"
  /\ \/ /\ closed
        /\ Fill(c, "closed")
        /\ UNCHANGED pending
     \/ /\ ~closed
        /\ pending' = pending \cup {c}
        /\ UNCHANGED done
  /\ Goto(c, "registered")
  /\ UNCHANGED <<closed, ackIDs, ret, readVars>>

\* Packing or sending the request failed: Cancel, then return the error.
Abandon(c) ==
  /\ call[c] = "registered"
  /\ pending' = pending \ {c}
  /\ Goto(c, "returned")
  /\ ret' = [ret EXCEPT ![c] = Result(c, "sendFailed")]
  /\ UNCHANGED <<done, closed, ackIDs, readVars>>

\* The select of Await, entered with the timer running ...
Await(c) ==
  /\ call[c] = "registered"
  /\ Goto(c, "awaiting")
  /\ UNCHANGED <<engineVars, ret, readVars>>

\* ... chooses the result, if there is one ...
AwaitResult(c) ==
  /\ call[c] = "awaiting"
  /\ done[c] # Empty
  /\ ret' = [ret EXCEPT ![c] = done[c]]
  /\ done' = [done EXCEPT ![c] = Empty]
  /\ Goto(c, "returned")
  /\ UNCHANGED <<pending, closed, ackIDs, readVars>>

\* ... or the timer or the context, even if there is a result too.
AwaitGiveUp(c, why) ==
  /\ call[c] = "awaiting"
  /\ ret' = [ret EXCEPT ![c] = Result(c, why)]
  /\ Goto(c, "cancelling")
  /\ UNCHANGED <<engineVars, readVars>>

\* Mutant: the entry of the map is left behind.
CancelLeavesEntry(c) ==
  /\ call[c] = "cancelling"
  /\ Goto(c, "returned")
  /\ UNCHANGED <<engineVars, ret, readVars>>

\* Cancel, once it has the mutex; then Await returns.
Cancel(c) ==
  /\ call[c] = "cancelling"
  /\ pending' = pending \ {c}
  /\ Goto(c, "returned")
  /\ UNCHANGED <<done, closed, ackIDs, ret, readVars>>

-----------------------------------------------------------------------------
(* The reader: Dispatch of one message and of all it contains.             *)

DispatchReturns == work' = << >> /\ disp' = "idle"

GoOn(rest) ==
  /\ work' = rest
  /\ disp' = IF rest = << >> THEN "idle" ELSE "dispatch"

QueueAck(id) == ackIDs' = Append(ackIDs, id)

\* readLoop calls Dispatch on a decrypted message.
Dispatch(m) ==
  /\ disp = "idle"
  /\ m.body.kind # "cut"
  /\ Len(ackIDs) <= MaxAcks
  /\ work' = <<m>>
  /\ disp' = "dispatch"
  /\ UNCHANGED <<engineVars, callVars, found>>

\* The next message to dispatch has a payload of this kind.
NextIs(kind) ==
  /\ disp = "dispatch"
  /\ work # << >>
  /\ Head(work).body.kind = kind

handleContainer ==
  /\ NextIs("container")
  /\ QueueAck(Head(work).id)
  /\ GoOn(Head(work).body.items \o Tail(work))
  /\ UNCHANGED <<pending, done, closed, callVars, found>>

ContainerCut ==
  /\ NextIs("cut")
  /\ DispatchReturns
  /\ UNCHANGED <<engineVars, callVars, found>>

\* Dispatch(msgID, decompressed): the same message ID is queued once more.
DispatchGzip ==
  /\ NextIs("gzip")
  /\ QueueAck(Head(work).id)
  /\ GoOn(<<[id |-> Head(work).id, body |-> Head(work).body.inner]>> \o Tail(work))
  /\ UNCHANGED <<pending, done, closed, callVars, found>>

DispatchOther ==
  /\ NextIs("other")
  /\ QueueAck(Head(work).id)
  /\ GoOn(Tail(work))
  /\ UNCHANGED <<pending, done, closed, callVars, found>>

DispatchBad ==
  /\ NextIs("bad")
  /\ QueueAck(Head(work).id)
  /\ DispatchReturns
  /\ UNCHANGED <<pending, done, closed, callVars, found>>

\* handleRPCResult in three steps: decode up to the result, ...
handleRPCResult ==
  /\ NextIs("result")
  /\ QueueAck(Head(work).id)
  /\ found' = Result(Head(work).body.req, Reply(Head(work).body))
  /\ work' = Tail(work)
  /\ disp' = "take"
  /\ UNCHANGED <<pending, done, closed, callVars>>

\* Mutant: the call stays registered.
TakePendingKeepsEntry ==
  /\ disp = "take"
  /\ \/ /\ found.req \in pending
        /\ disp' = "deliver"
        /\ UNCHANGED <<work, found>>
     \/ /\ found.req \notin pending
        /\ found' = Empty
        /\ GoOn(work)
  /\ UNCHANGED <<engineVars, callVars>>

\* ... look the call up and unregister it under the mutex, ...
TakePending ==
  /\ disp = "take"
  /\ \/ /\ found.req \in pending
        /\ pending' = pending \ {found.req}
        /\ disp' = "deliver"
        /\ UNCHANGED <<work, found>>
     \/ /\ found.req \notin pending
        /\ found' = Empty
        /\ GoOn(work)
        /\ UNCHANGED pending
  /\ UNCHANGED <<done, closed, ackIDs, callVars>>

\* Mutant: answers go to whoever waits, not to the call they answer.
DeliverInOrder ==
  /\ disp = "deliver"
  /\ \E c \in Calls :
       /\ call[c] = "awaiting" /\ done[c] = Empty
       /\ done' = [done EXCEPT ![c] = found]
  /\ found' = Empty
  /\ GoOn(work)
  /\ UNCHANGED <<pending, closed, ackIDs, callVars>>

\* Mutant: a result that does not decode is an error of Dispatch only.
DeliverDropsMalformed ==
  /\ disp = "deliver"
  /\ done[found.req] = Empty
  /\ found' = Empty
  /\ IF found.val \in Malformed THEN DispatchReturns /\ UNCHANGED done
                                ELSE GoOn(work) /\ Fill(found.req, found.val)
  /\ UNCHANGED <<pending, closed, ackIDs, callVars>>

\* ... and, the mutex released, send on its channel (which may block).  The
\* call gets an error for a result that does not decode, and so does the
\* enclosing Dispatch.
Deliver ==
  /\ disp = "deliver"
  /\ done[found.req] = Empty
  /\ Fill(found.req, found.val)
  /\ found' = Empty
  /\ IF found.val \in Malformed THEN DispatchReturns ELSE GoOn(work)
  /\ UNCHANGED <<pending, closed, ackIDs, callVars>>

-----------------------------------------------------------------------------
(* Acknowledgements and Close.                                             *)

PopAcks ==
  /\ ackIDs # << >>
  /\ ackIDs' = << >>
  /\ UNCHANGED <<pending, done, closed, callVars, readVars>>

\* Mutant: the calls are dropped without a result.
CloseForgetsCallers ==
  /\ closed' = TRUE
  /\ pending' = {}
  /\ UNCHANGED <<done, ackIDs, callVars, readVars>>

\* Close holds the mutex while it sends to every registered call, so it can
\* finish only if every one of their channels has room.
Close ==
  /\ \A c \in pending : done[c] = Empty
  /\ closed' = TRUE
  /\ done' = [c \in Calls |->
                IF c \in pending THEN Result(c, "closed") ELSE done[c]]
  /\ pending' = {}
  /\ UNCHANGED <<ackIDs, callVars, readVars>>

-----------------------------------------------------------------------------
CallerStep(c) ==
  \/ Register(c) \/ Abandon(c) \/ Await(c) \/ AwaitResult(c) \/ Cancel(c)
  \/ \E why \in {"timeout", "ctx"} : AwaitGiveUp(c, why)

ReaderStep ==
  \/ handleContainer \/ ContainerCut \/ DispatchGzip \/ DispatchOther
  \/ DispatchBad \/ handleRPCResult \/ TakePending \/ Deliver

Next ==
  \/ \E c \in Calls : CallerStep(c)
  \/ \E m \in Messages : Dispatch(m)
  \/ ReaderStep
  \/ PopAcks
  \/ Close

Spec == Init /\ [][Next]_vars

(***************************************************************************)
(* Goroutines that can move do move.  Nothing is assumed of the server, of *)
(* the timer, of contexts or of Close: a caller has to come back without   *)
(* its timer whenever the engine owes it an answer.                        *)
(***************************************************************************)
FairSpec ==
  /\ Spec
  /\ WF_vars(ReaderStep)
  /\ \A c \in Calls : /\ WF_vars(Await(c) \/ Abandon(c))
                      /\ WF_vars(AwaitResult(c) \/ Cancel(c))

-----------------------------------------------------------------------------
(***************************************************************************)
(* Properties                                                              *)
(***************************************************************************)

\* The reader holds the answer to c and is about to send it.
InHand(c) == disp = "deliver" /\ found.req = c

(***************************************************************************)
(* No send ever blocks.  Close sends while it holds the engine's mutex and *)
(* the reader sends between two packets: if a channel of capacity one were *)
(* still full, the whole connection would stop.  A registered call has not *)
(* been answered, and an answer in the reader's hand is the only one.      *)
(***************************************************************************)
SendsNeverBlock ==
  /\ \A c \in pending : done[c] = Empty /\ ~InHand(c)
  /\ disp = "deliver" => found.req \in Calls /\ done[found.req] = Empty

(***************************************************************************)
(* No wake-up is lost.  As long as a caller is inside Register .. Await it *)
(* is registered, or its result is in its channel, or the reader is about  *)
(* to put it there, whatever interleaving of answers, duplicates, errors   *)
(* in a container and Close happened before.                               *)
(***************************************************************************)
NoLostWakeup ==
  \A c \in Calls :
    call[c] \in Active => c \in pending \/ done[c] # Empty \/ InHand(c)

(***************************************************************************)
(* The map does not leak: every way out of Invoke unregisters the call,    *)
(* and a closed engine has no registered call (Register after Close).      *)
(***************************************************************************)
NoLeak ==
  /\ \A c \in pending : call[c] \in Active
  /\ closed => pending = {}

\* The server may answer request c in this way.
Says(c, v) ==
  \E b \in Bodies :
    /\ b.kind = "result" /\ b.req = c
    /\ IF b.reply = "rpcError" THEN v \in ErrorTypes /\ HasType(b.code, b.msg, v)
                               ELSE v = b.reply

(***************************************************************************)
(* A caller only ever sees an answer of the server to its own request, and *)
(* only once it has made the request; an error has the type that its code  *)
(* and its message announce.                                               *)
(***************************************************************************)
OwnAnswer ==
  /\ \A c \in Calls : \A r \in {done[c], ret[c]} :
       r # Empty => /\ r.req = c /\ call[c] # "new"
                    /\ r.val \in Replies => Says(c, r.val)
  /\ \A c \in Calls : InHand(c) => call[c] # "new"
  /\ found # Empty => Says(found.req, found.val)

(***************************************************************************)
(* After Close every caller comes back, without the help of its timer.     *)
(***************************************************************************)
CloseReleasesCallers ==
  \A c \in Calls : (closed /\ call[c] \in Active) ~> (call[c] = "returned")

(***************************************************************************)
(* A result that reaches a registered call ends the call, whatever stands  *)
(* behind it in the same container.                                        *)
(***************************************************************************)
AnswerEndsCall ==
  \A c \in Calls :
    (disp = "take" /\ found.req = c /\ c \in pending)
      ~> (call[c] = "returned")

(***************************************************************************)
(* The engine implements RpcPromise: an answer is made when the reader     *)
(* takes the call out of the map, or by Close, or by Register on a closed  *)
(* engine, and stays the call's answer from then on.                       *)
(***************************************************************************)
AnswerOf(c) ==
  IF done[c] # Empty THEN done[c].val
  ELSE IF InHand(c) THEN found.val
  ELSE IF ret[c].val \in Replies \cup {"closed"} THEN ret[c].val
  ELSE "none"

Promise == INSTANCE RpcPromise WITH
  phase   <- [c \in Calls |-> IF call[c] \in Active THEN "open" ELSE call[c]],
  answer  <- [c \in Calls |-> AnswerOf(c)],
  outcome <- [c \in Calls |-> IF call[c] = "returned" THEN ret[c].val ELSE "none"],
  shut    <- closed

PromiseKept == Promise!Spec

=============================================================================
