-------------------------- MODULE ConnectionProofs --------------------------
(***************************************************************************)
(* First the engine alone: its safety for any number of calls, any         *)
(* payloads and any nesting of containers, and that it implements          *)
(* RpcPromise.  Then, for any number of goroutines that close: a           *)
(* connection uses its engine as RpcEngine allows, and Close is complete   *)
(* when it returns.  Last, message IDs and sequence numbers, which are     *)
(* right for any number of senders, any clock and any interleaving.        *)
(***************************************************************************)
EXTENDS Connection, Numbering, TLAPS

-----------------------------------------------------------------------------
(***************************************************************************)
(* The engine                                                              *)
(***************************************************************************)

\* The four safety invariants support each other; together they are inductive.
IInv == TypeOK /\ SendsNeverBlock /\ NoLostWakeup /\ NoLeak /\ OwnAnswer

-----------------------------------------------------------------------------
\* Searching the words, as ParseError does, finds the type that the message has.
LEMMA ParsedType ==
  ASSUME NEW code, NEW msg \in Seq(STRING) \ {<<>>}
  PROVE  /\ ParseError(code, msg) \in ErrorTypes
         /\ HasType(code, msg, ParseError(code, msg))
<1>1. Len(msg) \in Nat /\ MigrateAt(msg) \subseteq 2 .. Len(msg) - 1
  BY DEF MigrateAt
<1>2. parseMigrate(msg) = "MigrateError" <=>
        MigrateAt(msg) = {Len(msg) - 1} /\ Last(msg) \in Numerals
  <2> DEFINE At == MigrateAt(msg)
  <2>1. ASSUME At = {Len(msg) - 1}, Last(msg) \in Numerals
        PROVE  parseMigrate(msg) = "MigrateError"
    <3>1. Len(msg) - 1 \in At /\ msg[(Len(msg) - 1) + 1] \in Numerals
      BY <1>1, <2>1 DEF Last
    <3>2. \A j \in At : Len(msg) - 1 <= j
      BY <1>1, <2>1
    <3>. QED
      BY <1>1, <3>1, <3>2 DEF parseMigrate
  <2>2. ASSUME parseMigrate(msg) = "MigrateError"
        PROVE  At = {Len(msg) - 1} /\ Last(msg) \in Numerals
    <3>1. PICK i \in At : /\ \A j \in At : i <= j
                          /\ Len(msg) = i + 1 /\ msg[i + 1] \in Numerals
      BY <2>2 DEF parseMigrate
    <3>2. i = Len(msg) - 1 /\ \A j \in At : j = i
      BY <1>1, <3>1
    <3>. QED
      BY <3>1, <3>2 DEF Last
  <2>. QED
    BY <2>1, <2>2
<1>3. parseMigrate(msg) \in {"MigrateError", "RPCError"}
  BY DEF parseMigrate
<1>4. CASE code = 303
  BY <1>2, <1>3, <1>4 DEF ParseError, HasType, IsMigration, IsWait, IsExpiry, ErrorTypes
<1>5. CASE code = 420
  BY <1>1, <1>5
     DEF ParseError, parseFloodWait, HasType, IsMigration, IsWait, IsExpiry, ErrorTypes
<1>6. CASE code \notin {303, 420}
  BY <1>6 DEF ParseError, HasType, IsMigration, IsWait, IsExpiry, ErrorTypes
<1>. QED
  BY <1>4, <1>5, <1>6

\* What handleRPCResult takes out of a result is an answer to its request.
LEMMA ReplySays ==
  ASSUME NEW b \in Bodies, b.kind = "result"
  PROVE  Reply(b) \in Replies /\ Says(b.req, Reply(b))
<1>1. CASE b.reply = "rpcError"
  <2>1. b.msg \in Seq(STRING) \ {<<>>}
    BY <1>1, BodiesAssumption
  <2>2. Reply(b) \in ErrorTypes /\ HasType(b.code, b.msg, Reply(b))
    BY <1>1, <2>1, ParsedType DEF Reply
  <2>. QED
    BY <1>1, <2>2 DEF Says, Replies, Answers
<1>2. CASE b.reply # "rpcError"
  BY <1>2, BodiesAssumption DEF Reply, Says
<1>. QED
  BY <1>1, <1>2

-----------------------------------------------------------------------------
\* The message at the head of work is a message, and what is behind it is a
\* sequence of messages: unpacking never leaves the payloads of Bodies.
LEMMA UnpackType ==
  ASSUME TypeOK, work # << >>
  PROVE  /\ Head(work) \in Messages
         /\ Tail(work) \in Seq(Messages)
         /\ Head(work).body.kind = "container" =>
              Head(work).body.items \o Tail(work) \in Seq(Messages)
         /\ Head(work).body.kind = "gzip" =>
              <<[id |-> Head(work).id, body |-> Head(work).body.inner]>> \o Tail(work)
                \in Seq(Messages)
         /\ Head(work).body.kind = "result" =>
              Result(Head(work).body.req, Reply(Head(work).body))
                \in [req : Calls \cup {NoCall}, val : Replies]
<1>1. /\ Head(work) \in Messages
      /\ Tail(work) \in Seq(Messages)
  BY DEF TypeOK
<1>2. Head(work).id \in MsgIds /\ Head(work).body \in Bodies
  BY <1>1 DEF Messages
<1>3. ASSUME Head(work).body.kind = "container"
      PROVE  Head(work).body.items \o Tail(work) \in Seq(Messages)
  BY <1>1, <1>2, <1>3, BodiesAssumption
<1>4. ASSUME Head(work).body.kind = "gzip"
      PROVE  <<[id |-> Head(work).id, body |-> Head(work).body.inner]>> \o Tail(work)
               \in Seq(Messages)
  <2>1. [id |-> Head(work).id, body |-> Head(work).body.inner] \in Messages
    BY <1>2, <1>4, BodiesAssumption DEF Messages
  <2>. QED
    BY <1>1, <2>1
<1>5. ASSUME Head(work).body.kind = "result"
      PROVE  Result(Head(work).body.req, Reply(Head(work).body))
               \in [req : Calls \cup {NoCall}, val : Replies]
  BY <1>2, <1>5, ReplySays, BodiesAssumption DEF Result
<1>. QED
  BY <1>1, <1>3, <1>4, <1>5

-----------------------------------------------------------------------------
\* What a caller can be handed is never mistaken for an empty channel.
LEMMA ResultsAreNotEmpty ==
  ASSUME NEW c \in Calls, NEW v
  PROVE  Result(c, v) # Empty
BY CallsAssumption DEF Result, Empty

\* What the client says to itself is none of the server's answers.
LEMMA OwnWords == ({"closed"} \cup GiveUps) \cap Replies = {}
BY DEF GiveUps, Replies, Answers, Malformed, ErrorTypes

\* A channel holds results of calls, and the reader's work list stays a list of
\* messages.  The delivery step needs SendsNeverBlock: the call it sends to
\* was looked up in the map before.
LEMMA TypeStep ==
  ASSUME TypeOK, SendsNeverBlock, [Next]_vars
  PROVE  TypeOK'
<1> USE DEF engineVars, callVars, readVars, Goto, Stages
<1>1. ASSUME NEW c \in Calls, Register(c) PROVE TypeOK'
  BY <1>1 DEF TypeOK, Register, Fill, Result, Results, Outcomes
<1>2. ASSUME NEW c \in Calls, Abandon(c) PROVE TypeOK'
  BY <1>2 DEF TypeOK, Abandon, Result, Results, Outcomes, GiveUps
<1>3. ASSUME NEW c \in Calls, Await(c) PROVE TypeOK'
  BY <1>3 DEF TypeOK, Await
<1>4. ASSUME NEW c \in Calls, AwaitResult(c) PROVE TypeOK'
  BY <1>4 DEF TypeOK, AwaitResult
<1>5. ASSUME NEW c \in Calls, NEW why \in {"timeout", "ctx"}, AwaitGiveUp(c, why)
      PROVE TypeOK'
  BY <1>5 DEF TypeOK, AwaitGiveUp, Result, Results, Outcomes, GiveUps
<1>6. ASSUME NEW c \in Calls, Cancel(c) PROVE TypeOK'
  BY <1>6 DEF TypeOK, Cancel
<1>7. ASSUME NEW m \in Messages, Dispatch(m) PROVE TypeOK'
  BY <1>7 DEF TypeOK, Dispatch
<1>8. CASE handleContainer
  BY <1>8, UnpackType DEF TypeOK, handleContainer, NextIs, QueueAck, GoOn, Messages
<1>9. CASE ContainerCut
  BY <1>9 DEF TypeOK, ContainerCut, NextIs, DispatchReturns
<1>10. CASE DispatchGzip
  BY <1>10, UnpackType DEF TypeOK, DispatchGzip, NextIs, QueueAck, GoOn, Messages
<1>11. CASE DispatchOther
  BY <1>11, UnpackType DEF TypeOK, DispatchOther, NextIs, QueueAck, GoOn, Messages
<1>12. CASE DispatchBad
  BY <1>12, UnpackType DEF TypeOK, DispatchBad, NextIs, QueueAck, DispatchReturns, Messages
<1>13. CASE handleRPCResult
  BY <1>13, UnpackType DEF TypeOK, handleRPCResult, NextIs, QueueAck, Messages
<1>14. CASE TakePending
  BY <1>14 DEF TypeOK, TakePending, GoOn
<1>15. CASE Deliver
  <2>1. found.req \in Calls /\ found.val \in Replies
    BY <1>15, CallsAssumption DEF TypeOK, SendsNeverBlock, Deliver, Empty
  <2>2. done' \in [Calls -> Results \cup {Empty}]
    BY <1>15, <2>1 DEF TypeOK, Deliver, Fill, Result, Results, Outcomes
  <2>3. work' \in Seq(Messages) /\ disp' \in {"idle", "dispatch"}
    <3>1. CASE DispatchReturns
      BY <3>1 DEF DispatchReturns
    <3>2. CASE GoOn(work)
      BY <3>2 DEF GoOn, TypeOK
    <3>. QED
      BY <1>15, <3>1, <3>2 DEF Deliver
  <2>. QED
    BY <1>15, <2>2, <2>3 DEF TypeOK, Deliver
<1>16. CASE PopAcks
  BY <1>16 DEF TypeOK, PopAcks
<1>17. CASE Close
  BY <1>17 DEF TypeOK, Close, Result, Results, Outcomes
<1>18. CASE UNCHANGED vars
  BY <1>18 DEF TypeOK, vars
<1>. QED
  BY <1>1, <1>2, <1>3, <1>4, <1>5, <1>6, <1>7, <1>8, <1>9, <1>10, <1>11, <1>12,
     <1>13, <1>14, <1>15, <1>16, <1>17, <1>18 DEF Next, CallerStep, ReaderStep

-----------------------------------------------------------------------------
\* What the four safety invariants say, read together.
Safe == SendsNeverBlock /\ NoLostWakeup /\ NoLeak /\ OwnAnswer

\* Every step of the engine preserves the four safety invariants.
LEMMA SafetyStep ==
  ASSUME IInv, [Next]_vars
  PROVE  Safe'
<1> USE ResultsAreNotEmpty
    DEF engineVars, callVars, readVars, Goto, Stages, IInv, Safe, TypeOK, Active,
        SendsNeverBlock, NoLostWakeup, NoLeak, OwnAnswer, InHand
<1>1. ASSUME NEW c \in Calls, Register(c) PROVE Safe'
  BY <1>1, OwnWords DEF Register, Fill, Result
<1>2. ASSUME NEW c \in Calls, Abandon(c) PROVE Safe'
  BY <1>2, OwnWords DEF Abandon, Result, GiveUps
<1>3. ASSUME NEW c \in Calls, Await(c) PROVE Safe'
  BY <1>3 DEF Await
<1>4. ASSUME NEW c \in Calls, AwaitResult(c) PROVE Safe'
  BY <1>4 DEF AwaitResult
<1>5. ASSUME NEW c \in Calls, NEW why \in {"timeout", "ctx"}, AwaitGiveUp(c, why)
      PROVE Safe'
  BY <1>5, OwnWords DEF AwaitGiveUp, Result, GiveUps
<1>6. ASSUME NEW c \in Calls, Cancel(c) PROVE Safe'
  BY <1>6 DEF Cancel
<1>7. ASSUME NEW m \in Messages, Dispatch(m) PROVE Safe'
  BY <1>7 DEF Dispatch
<1>8. CASE handleContainer
  BY <1>8 DEF handleContainer, NextIs, GoOn
<1>9. CASE ContainerCut
  BY <1>9 DEF ContainerCut, NextIs, DispatchReturns
<1>10. CASE DispatchGzip
  BY <1>10 DEF DispatchGzip, NextIs, GoOn
<1>11. CASE DispatchOther
  BY <1>11 DEF DispatchOther, NextIs, GoOn
<1>12. CASE DispatchBad
  BY <1>12 DEF DispatchBad, NextIs, DispatchReturns
<1>13. CASE handleRPCResult
  <2>1. Head(work).body \in Bodies /\ Head(work).body.kind = "result"
    BY <1>13, UnpackType DEF handleRPCResult, NextIs, Messages
  <2>2. Says(found'.req, found'.val)
    BY <1>13, <2>1, ReplySays DEF handleRPCResult, Result
  <2>. QED
    BY <1>13, <2>2 DEF handleRPCResult, NextIs
<1>14. CASE TakePending
  BY <1>14, CallsAssumption DEF TakePending, GoOn
<1>15. CASE Deliver
  <2>1. found.req \in Calls /\ found # Empty
    BY <1>15, CallsAssumption DEF Deliver, Empty
  <2>. QED
    BY <1>15, <2>1 DEF Deliver, Fill, Result, DispatchReturns, GoOn
<1>16. CASE PopAcks
  BY <1>16 DEF PopAcks
<1>17. CASE Close
  <2>1. SendsNeverBlock'
    BY <1>17 DEF Close
  <2>2. NoLostWakeup'
    BY <1>17 DEF Close, Result
  <2>3. NoLeak'
    BY <1>17 DEF Close
  <2>4. OwnAnswer'
    BY <1>17, OwnWords DEF Close, Result
  <2>. QED
    BY <2>1, <2>2, <2>3, <2>4
<1>18. CASE UNCHANGED vars
  BY <1>18 DEF vars
<1> HIDE DEF engineVars, callVars, readVars, Goto, Stages, IInv, Safe, TypeOK, Active,
             SendsNeverBlock, NoLostWakeup, NoLeak, OwnAnswer, InHand
<1>. QED
  BY <1>1, <1>2, <1>3, <1>4, <1>5, <1>6, <1>7, <1>8, <1>9, <1>10, <1>11, <1>12,
     <1>13, <1>14, <1>15, <1>16, <1>17, <1>18 DEF Next, CallerStep, ReaderStep

-----------------------------------------------------------------------------
\* The conjunction of the invariants is inductive.
LEMMA Inductive == Spec => []IInv
<1>1. Init => IInv
  <2> SUFFICES ASSUME Init PROVE IInv
    OBVIOUS
  <2>1. TypeOK
    <3>1. ackIDs \in Seq(MsgIds) /\ work \in Seq(Messages)
      BY DEF Init
    <3>2. /\ done \in [Calls -> Results \cup {Empty}]
          /\ ret \in [Calls -> Results \cup {Empty}]
          /\ found \in [req : Calls \cup {NoCall}, val : Replies] \cup {Empty}
      BY DEF Init
    <3>3. /\ pending \in SUBSET Calls
          /\ call \in [Calls -> Stages]
          /\ closed \in BOOLEAN
          /\ disp \in {"idle", "dispatch", "take", "deliver"}
      BY DEF Init, Stages
    <3>. QED
      BY <3>1, <3>2, <3>3 DEF TypeOK
  <2>2. Safe
    BY DEF Init, Safe, SendsNeverBlock, NoLostWakeup, NoLeak, OwnAnswer, InHand, Active
  <2>. QED
    BY <2>1, <2>2 DEF IInv, Safe
<1>2. IInv /\ [Next]_vars => IInv'
  <2> SUFFICES ASSUME IInv, [Next]_vars PROVE IInv'
    OBVIOUS
  <2>1. TypeOK'
    BY TypeStep DEF IInv
  <2>2. Safe'
    BY SafetyStep
  <2>. QED
    BY <2>1, <2>2 DEF IInv, Safe
<1>. QED
  BY <1>1, <1>2, PTL DEF Spec

\* Channels, map, acknowledgement queue and work list keep their types,
\* whatever the server nests in what.
THEOREM TypeCorrect == Spec => []TypeOK
<1>1. IInv => TypeOK
  BY DEF IInv
<1>. QED
  BY <1>1, Inductive, PTL

\* Neither Close (which holds the mutex) nor the reader ever blocks on the
\* channel of a call.
THEOREM NoSendBlocks == Spec => []SendsNeverBlock
<1>1. IInv => SendsNeverBlock
  BY DEF IInv
<1>. QED
  BY <1>1, Inductive, PTL

\* A caller between Register and the end of Await is registered, answered, or
\* about to be answered.
THEOREM NoWakeupIsLost == Spec => []NoLostWakeup
<1>1. IInv => NoLostWakeup
  BY DEF IInv
<1>. QED
  BY <1>1, Inductive, PTL

\* The map of pending calls holds active calls only, and none once closed.
THEOREM MapDoesNotLeak == Spec => []NoLeak
<1>1. IInv => NoLeak
  BY DEF IInv
<1>. QED
  BY <1>1, Inductive, PTL

\* No caller is ever handed another call's answer.
THEOREM AnswersAreOwn == Spec => []OwnAnswer
<1>1. IInv => OwnAnswer
  BY DEF IInv
<1>. QED
  BY <1>1, Inductive, PTL

-----------------------------------------------------------------------------
(***************************************************************************)
(* The engine implements RpcPromise.                                       *)
(***************************************************************************)

\* What a caller has in hand before it returns, and what its channel may hold.
RetInv ==
  \A c \in Calls :
    /\ done[c] # Empty => done[c].val \in Replies \cup {"closed"}
    /\ call[c] \in {"new", "registered", "awaiting"} => ret[c] = Empty
    /\ call[c] = "cancelling" => ret[c].val \in GiveUps

\* A step of the engine keeps what the callers have in hand.
LEMMA RetStep ==
  ASSUME IInv, RetInv, [Next]_vars
  PROVE  RetInv'
<1> USE DEF IInv, RetInv, TypeOK, Stages, engineVars, callVars, readVars, Goto, Result
<1>1. ASSUME NEW c \in Calls, CallerStep(c) PROVE RetInv'
  BY <1>1 DEF CallerStep, Register, Abandon, Await, AwaitResult, AwaitGiveUp, Cancel, Fill,
              GiveUps
<1>2. CASE Deliver
  BY <1>2, CallsAssumption DEF Deliver, Fill, SendsNeverBlock, Empty
<1>3. CASE Close
  BY <1>3 DEF Close
<1>4. ASSUME UNCHANGED <<done, callVars>> PROVE RetInv'
  BY <1>4
<1>. QED
  BY <1>1, <1>2, <1>3, <1>4 DEF Next, ReaderStep, Dispatch, handleContainer, ContainerCut,
     DispatchGzip, DispatchOther, DispatchBad, handleRPCResult, TakePending, PopAcks, vars

\* The words of a caller that gives up, of the server and of Close are told apart.
LEMMA WordsDiffer ==
  /\ GiveUps \cap (Replies \cup {"closed"}) = {}
  /\ "none" \notin Replies \cup GiveUps \cup {"closed"}
BY DEF GiveUps, Replies, Answers, Malformed, ErrorTypes

\* An open call has no answer exactly as long as it is registered.
LEMMA OpenUnanswered ==
  ASSUME IInv, RetInv, NEW c \in Calls, call[c] \in Active
  PROVE  AnswerOf(c) = "none" <=> c \in pending
<1>1. ret[c].val \notin Replies \cup {"closed"}
  BY WordsDiffer DEF RetInv, Active, Empty
<1>2. ASSUME c \in pending PROVE AnswerOf(c) = "none"
  BY <1>1, <1>2 DEF AnswerOf, IInv, SendsNeverBlock
<1>3. ASSUME c \notin pending PROVE AnswerOf(c) # "none"
  <2>1. done[c] # Empty \/ InHand(c)
    BY <1>3 DEF IInv, NoLostWakeup
  <2>2. InHand(c) => found.val \in Replies
    BY CallsAssumption DEF IInv, TypeOK, InHand, Empty
  <2>. QED
    BY <2>1, <2>2, WordsDiffer DEF AnswerOf, RetInv
<1>. QED
  BY <1>2, <1>3

\* A call that has not been made has no answer.
LEMMA NewUnanswered ==
  ASSUME IInv, RetInv, NEW c \in Calls, call[c] = "new"
  PROVE  AnswerOf(c) = "none"
<1>1. done[c] = Empty /\ ~InHand(c) /\ ret[c] = Empty
  BY DEF IInv, RetInv, OwnAnswer
<1>. QED
  BY <1>1, WordsDiffer DEF AnswerOf, Empty

-----------------------------------------------------------------------------
\* The values that RpcPromise sees.
phaseBar   == [c \in Calls |-> IF call[c] \in Active THEN "open" ELSE call[c]]
answerBar  == [c \in Calls |-> AnswerOf(c)]
outcomeBar == [c \in Calls |-> IF call[c] = "returned" THEN ret[c].val ELSE "none"]
promiseVars == <<phaseBar, answerBar, outcomeBar, closed>>

\* A step that leaves the callers' stations, results and answers alone changes
\* nothing that RpcPromise sees.
LEMMA Unseen ==
  ASSUME UNCHANGED <<call, ret, closed>>, \A c \in Calls : AnswerOf(c)' = AnswerOf(c)
  PROVE  UNCHANGED promiseVars
BY DEF promiseVars, phaseBar, answerBar, outcomeBar

\* The steps of a caller: Register opens the call, the last step of Invoke
\* returns, and the steps between are not seen.
LEMMA CallerSimulates ==
  ASSUME IInv, RetInv, NEW c \in Calls, CallerStep(c)
  PROVE  Promise!Open(c) \/ Promise!Return(c) \/ UNCHANGED promiseVars
<1> USE DEF engineVars, callVars, readVars, Goto
<1> DEFINE Others == \A d \in Calls \ {c} : AnswerOf(d)' = AnswerOf(d)
<1>0. call \in [Calls -> Stages] /\ ret \in [Calls -> Results \cup {Empty}]
      /\ done \in [Calls -> Results \cup {Empty}]
  BY DEF IInv, TypeOK
<1>1. CASE Register(c)
  <2>1. call[c] = "new" /\ call' = [call EXCEPT ![c] = "registered"] /\ UNCHANGED <<ret, closed>>
    BY <1>1 DEF Register
  <2>2. Others
    BY <1>0, <1>1 DEF Register, Fill, AnswerOf, InHand
  <2>3. AnswerOf(c)' = IF closed THEN "closed" ELSE "none"
    <3>1. CASE closed
      BY <1>0, <1>1, <3>1, ResultsAreNotEmpty DEF Register, Fill, AnswerOf, Result
    <3>2. CASE ~closed
      BY <1>0, <1>1, <3>2, <2>1, NewUnanswered DEF Register, AnswerOf, InHand
    <3>. QED
      BY <3>1, <3>2
  <2>4. phaseBar[c] = "new" /\ phaseBar' = [phaseBar EXCEPT ![c] = "open"]
    BY <1>0, <2>1 DEF phaseBar, Active
  <2>5. answerBar' = [answerBar EXCEPT ![c] = IF closed THEN "closed" ELSE "none"]
    BY <2>2, <2>3 DEF answerBar
  <2>6. outcomeBar' = outcomeBar
    BY <1>0, <2>1 DEF outcomeBar
  <2>. QED
    BY <2>1, <2>4, <2>5, <2>6 DEF Promise!Open, phaseBar, answerBar, outcomeBar
<1>2. ASSUME Await(c) \/ \E why \in {"timeout", "ctx"} : AwaitGiveUp(c, why)
      PROVE  UNCHANGED promiseVars
  <2>1. ret[c] = Empty /\ ret'[c].val \notin Replies \cup {"closed"}
    BY <1>0, <1>2, WordsDiffer DEF RetInv, Await, AwaitGiveUp, Empty, Result, GiveUps
  <2>2. ret[c].val \notin Replies \cup {"closed"}
    BY <2>1, WordsDiffer DEF Empty
  <2>3. \A d \in Calls : AnswerOf(d)' = AnswerOf(d)
    BY <1>0, <1>2, <2>1, <2>2 DEF Await, AwaitGiveUp, AnswerOf, InHand
  <2>4. call[c] \in Active /\ \E s \in Active : call' = [call EXCEPT ![c] = s]
    BY <1>2 DEF Await, AwaitGiveUp, Active
  <2>5. phaseBar' = phaseBar
    BY <1>0, <2>4 DEF phaseBar
  <2>6. outcomeBar' = outcomeBar
    BY <1>0, <1>2, <2>4 DEF outcomeBar, Await, AwaitGiveUp, Active
  <2>. QED
    BY <1>2, <2>3, <2>5, <2>6 DEF promiseVars, answerBar, Await, AwaitGiveUp
<1>3. ASSUME NEW o \in ({AnswerOf(c)} \ {"none"}) \cup GiveUps,
             call[c] \in Active, call' = [call EXCEPT ![c] = "returned"],
             ret' = [ret EXCEPT ![c] = ret'[c]], ret'[c].val = o,
             \A d \in Calls : AnswerOf(d)' = AnswerOf(d), UNCHANGED closed
      PROVE  Promise!Return(c)
  <2>1. phaseBar[c] = "open" /\ phaseBar' = [phaseBar EXCEPT ![c] = "returned"]
    BY <1>0, <1>3 DEF phaseBar, Active
  <2>2. answerBar' = answerBar /\ answerBar[c] = AnswerOf(c)
    BY <1>3 DEF answerBar
  <2>3. outcomeBar' = [outcomeBar EXCEPT ![c] = o]
    BY <1>0, <1>3 DEF outcomeBar
  <2>. QED
    BY <1>3, <2>1, <2>2, <2>3 DEF Promise!Return, phaseBar, answerBar, outcomeBar
<1>4. CASE Abandon(c)
  <2>1. call[c] \in Active /\ ret[c] = Empty /\ ret'[c].val = "sendFailed"
    BY <1>0, <1>4 DEF Abandon, Active, RetInv, Result
  <2>2. ret[c].val \notin Replies \cup {"closed"} /\ ret'[c].val \notin Replies \cup {"closed"}
    BY <2>1, WordsDiffer DEF Empty, GiveUps
  <2>3. \A d \in Calls : AnswerOf(d)' = AnswerOf(d)
    BY <1>0, <1>4, <2>2 DEF Abandon, AnswerOf, InHand
  <2>. QED
    BY <1>0, <1>3, <1>4, <2>1, <2>3 DEF Abandon, GiveUps
<1>5. CASE AwaitResult(c)
  <2>1. call[c] \in Active /\ done[c] # Empty /\ ret'[c] = done[c]
    BY <1>0, <1>5 DEF AwaitResult, Active
  <2>2. done[c].val \in Replies \cup {"closed"} /\ ~InHand(c)
    BY <2>1 DEF RetInv, IInv, SendsNeverBlock, InHand
  <2>3. AnswerOf(c) = done[c].val /\ AnswerOf(c)' = done[c].val
    BY <1>0, <1>5, <2>1, <2>2 DEF AwaitResult, AnswerOf, InHand
  <2>4. Others
    BY <1>0, <1>5 DEF AwaitResult, AnswerOf, InHand
  <2>. QED
    BY <1>0, <1>3, <1>5, <2>1, <2>2, <2>3, <2>4, WordsDiffer DEF AwaitResult
<1>6. CASE Cancel(c)
  <2>1. call[c] \in Active /\ ret[c].val \in GiveUps /\ ret' = ret
    BY <1>6 DEF Cancel, Active, RetInv
  <2>2. \A d \in Calls : AnswerOf(d)' = AnswerOf(d)
    BY <1>6 DEF Cancel, AnswerOf, InHand
  <2>. QED
    BY <1>0, <1>3, <1>6, <2>1, <2>2 DEF Cancel
<1>. QED
  BY <1>1, <1>2, <1>4, <1>5, <1>6 DEF CallerStep

\* The steps of the reader: taking a call out of the map answers it, and no
\* other step is seen.
LEMMA ReaderSimulates ==
  ASSUME IInv, RetInv, ReaderStep
  PROVE  (\E c \in Calls : Promise!Answer(c)) \/ UNCHANGED promiseVars
<1> USE DEF engineVars, callVars, readVars
<1>1. CASE TakePending
  <2>1. UNCHANGED <<done, call, ret, closed>>
    BY <1>1 DEF TakePending
  <2>2. CASE found.req \in pending
    <3>0. PICK c \in Calls : c = found.req
      BY <2>2 DEF IInv, TypeOK
    <3>1. c \in pending /\ call[c] \in Active /\ found.val \in Replies
      BY <2>2, <3>0, CallsAssumption DEF IInv, TypeOK, NoLeak, Empty
    <3>2. disp' = "deliver" /\ disp = "take" /\ found' = found
      BY <1>1, <2>2 DEF TakePending
    <3>3. done[c] = Empty
      BY <3>1 DEF IInv, SendsNeverBlock
    <3>4. AnswerOf(c)' = found.val
      BY <2>1, <3>0, <3>2, <3>3 DEF AnswerOf, InHand
    <3>5. \A d \in Calls \ {c} : AnswerOf(d)' = AnswerOf(d)
      BY <2>1, <3>0, <3>2 DEF AnswerOf, InHand
    <3>6. AnswerOf(c) = "none"
      BY <3>1, OpenUnanswered
    <3>7. answerBar' = [answerBar EXCEPT ![c] = found.val] /\ answerBar[c] = "none"
      BY <3>4, <3>5, <3>6 DEF answerBar
    <3>8. phaseBar[c] = "open" /\ phaseBar' = phaseBar /\ outcomeBar' = outcomeBar
      BY <2>1, <3>1 DEF phaseBar, outcomeBar
    <3>9. Promise!Answer(c)
      BY <2>1, <3>1, <3>7, <3>8 DEF Promise!Answer, phaseBar, answerBar, outcomeBar
    <3>. QED
      BY <3>9
  <2>3. CASE found.req \notin pending
    <3>1. \A d \in Calls : AnswerOf(d)' = AnswerOf(d)
      BY <1>1, <2>1, <2>3 DEF TakePending, AnswerOf, InHand, GoOn
    <3>. QED
      BY <2>1, <3>1, Unseen
  <2>. QED
    BY <2>2, <2>3
<1>2. CASE Deliver
  <2>0. PICK c \in Calls : c = found.req
    BY <1>2 DEF Deliver, IInv, SendsNeverBlock
  <2>1. done[c] = Empty /\ InHand(c) /\ disp' # "deliver"
    BY <1>2, <2>0 DEF Deliver, IInv, SendsNeverBlock, InHand, DispatchReturns, GoOn
  <2>2. AnswerOf(c)' = found.val /\ AnswerOf(c) = found.val
    BY <1>2, <2>0, <2>1, ResultsAreNotEmpty DEF Deliver, Fill, AnswerOf, Result, IInv, TypeOK
  <2>3. \A d \in Calls \ {c} : AnswerOf(d)' = AnswerOf(d)
    BY <1>2, <2>0, <2>1 DEF Deliver, Fill, AnswerOf, InHand, IInv, TypeOK
  <2>4. UNCHANGED <<call, ret, closed>>
    BY <1>2 DEF Deliver
  <2>. QED
    BY <2>1, <2>2, <2>3, <2>4, Unseen
<1>3. ASSUME disp = "dispatch", disp' # "deliver", UNCHANGED <<done, closed, callVars>>
      PROVE  UNCHANGED promiseVars
  BY <1>3, Unseen DEF AnswerOf, InHand
<1>. QED
  BY <1>1, <1>2, <1>3 DEF ReaderStep, handleContainer, ContainerCut, DispatchGzip,
     DispatchOther, DispatchBad, handleRPCResult, NextIs, GoOn, DispatchReturns

\* Close is the shutdown that RpcPromise speaks of.
LEMMA CloseSimulates ==
  ASSUME IInv, RetInv, Close
  PROVE  Promise!Shut
<1>1. UNCHANGED <<call, ret, disp, found>> /\ closed' = TRUE
  BY DEF Close, callVars, readVars
<1>2. \A c \in Calls : AnswerOf(c)' = IF c \in pending THEN "closed" ELSE AnswerOf(c)
  BY <1>1, ResultsAreNotEmpty DEF Close, AnswerOf, InHand, Result
<1>3. \A c \in Calls : c \in pending <=> phaseBar[c] = "open" /\ answerBar[c] = "none"
  BY OpenUnanswered DEF IInv, NoLeak, TypeOK, Stages, phaseBar, answerBar, Active
<1>4. answerBar' = [c \in Calls |-> IF phaseBar[c] = "open" /\ answerBar[c] = "none"
                                    THEN "closed" ELSE answerBar[c]]
  BY <1>2, <1>3 DEF answerBar
<1>5. UNCHANGED <<phaseBar, outcomeBar>>
  BY <1>1 DEF phaseBar, outcomeBar
<1>. QED
  BY <1>1, <1>4, <1>5 DEF Promise!Shut, phaseBar, answerBar, outcomeBar

\* The engine keeps RpcPromise: a call is answered at most once and returns
\* once, with its own answer or because its caller gave up; Close answers every
\* open call, and every later one is answered at once.
THEOREM EngineKeepsPromise == Spec => PromiseKept
<1>1. Init => RetInv
  BY DEF Init, RetInv
<1>2. IInv /\ RetInv /\ [Next]_vars => RetInv'
  BY RetStep
<1>3. Init => Promise!Init
  BY WordsDiffer DEF Init, Promise!Init, AnswerOf, InHand, Active, Empty
<1>4. IInv /\ RetInv /\ [Next]_vars => [Promise!Next]_Promise!vars
  <2> SUFFICES ASSUME IInv, RetInv, [Next]_vars
               PROVE  Promise!Next \/ UNCHANGED promiseVars
    BY DEF Promise!vars, promiseVars, phaseBar, answerBar, outcomeBar
  <2>1. ASSUME NEW c \in Calls, CallerStep(c)
        PROVE  Promise!Next \/ UNCHANGED promiseVars
    BY <2>1, CallerSimulates DEF Promise!Next
  <2>2. CASE ReaderStep
    BY <2>2, ReaderSimulates DEF Promise!Next
  <2>3. CASE Close
    BY <2>3, CloseSimulates DEF Promise!Next
  <2>4. ASSUME UNCHANGED <<done, found, closed, callVars>>, disp' = disp \/ disp' = "dispatch",
               disp' = "dispatch" => disp # "deliver"
        PROVE  UNCHANGED promiseVars
    BY <2>4, Unseen DEF AnswerOf, InHand, callVars
  <2>. QED
    BY <2>1, <2>2, <2>3, <2>4
       DEF Next, Dispatch, PopAcks, vars, engineVars, readVars, callVars
<1>. QED
  BY <1>1, <1>2, <1>3, <1>4, Inductive, PTL DEF Spec, PromiseKept, Promise!Spec

-----------------------------------------------------------------------------
(***************************************************************************)
(* The connection                                                          *)
(***************************************************************************)

\* Every step of the connection is a step of the engine or leaves it alone.
LEMMA EngineStep == [ConnNext]_connVars => [Next]_vars
<1> SUFFICES ASSUME [ConnNext]_connVars PROVE [Next]_vars
  OBVIOUS
<1>1. ASSUME NEW c \in Calls, InvokeStep(c) PROVE [Next]_vars
  <2>1. CASE InvokeRegister(c) \/ InvokeSent(c) \/ InvokeNotSent(c)
                \/ InvokeReturn(c) \/ InvokeGiveUp(c)
    <3>1. CallerStep(c)
      BY <2>1 DEF InvokeRegister, InvokeSent, InvokeNotSent, InvokeReturn,
                  InvokeGiveUp, CallerStep
    <3>. QED
      BY <3>1 DEF Next
  <2>2. CASE Invoke(c)
    BY <2>2 DEF Invoke
  <2>. QED
    BY <1>1, <2>1, <2>2 DEF InvokeStep
<1>2. CASE readLoop
  <2>1. ASSUME NEW m \in Messages, NEW salt \in Salts, RecvPacket(m, salt)
        PROVE  [Next]_vars
    BY <2>1 DEF RecvPacket, Next
  <2>2. CASE ReadDispatch
    BY <2>2 DEF ReadDispatch, Next
  <2>3. CASE ReadCheck \/ RecvMalformed \/ RecvFailed \/ ReadFailure
    BY <2>3 DEF ReadCheck, RecvMalformed, RecvFailed, ReadFailure
  <2>. QED
    BY <1>2, <2>1, <2>2, <2>3 DEF readLoop, ReceiveStep
<1>3. CASE keepaliveLoop
  BY <1>3 DEF keepaliveLoop, KeepaliveExit, KeepaliveTick, FlushAcks, Ping, Next
<1>4. ASSUME NEW u \in Users, CloseCall(u) PROVE [Next]_vars
  BY <1>4 DEF CloseCall
<1>5. ASSUME NEW p \in Closers, CloseStep(p) PROVE [Next]_vars
  BY <1>5 DEF CloseStep, CloseOnce, CloseEngine, CloseTransport, CloseReturn, Next
<1>6. CASE UNCHANGED connVars
  BY <1>6 DEF connVars
<1>. QED
  BY <1>1, <1>2, <1>3, <1>4, <1>5, <1>6 DEF ConnNext

\* The actions of Connection use the engine's own, so whatever is proved of
\* RpcEngine holds of the engine inside every connection.
LEMMA ConnectionUsesEngine == ConnSpec => Spec
<1>1. ConnInit => Init
  BY DEF ConnInit
<1>. QED
  BY <1>1, EngineStep, PTL DEF ConnSpec, Spec

\* So a connection, too, answers every Invoke at most once, with its own answer,
\* and its Close answers all that are open.
THEOREM ConnectionKeepsPromise == ConnSpec => PromiseKept
BY ConnectionUsesEngine, EngineKeepsPromise, PTL

\* And none of its goroutines blocks on the channel of a call, loses a wake-up
\* or hands a caller the answer to another.
THEOREM ConnectionIsSafe == ConnSpec => [](SendsNeverBlock /\ NoLostWakeup /\ OwnAnswer)
BY ConnectionUsesEngine, NoSendBlocks, NoWakeupIsLost, AnswersAreOwn, PTL

-----------------------------------------------------------------------------
\* Who may be where in Close: the owner of closeOnce is alone between its two
\* calls, and behind it everything it has done is done.
OnceInv ==
  /\ closer \in [Closers -> {"idle", "calling", "engine", "transport", "wait", "returned"}]
  /\ once \in {"free", "held", "done"}
  /\ \A p \in Closers :
       /\ closer[p] = "engine" => once = "held" /\ shut
       /\ closer[p] = "transport" => once = "held" /\ closed
       /\ closer[p] \in {"wait", "returned"} => once = "done"
       /\ closer[p] = "returned" => rd = "exited" /\ ka = "exited"
  /\ \A p, q \in Closers :
       closer[p] \in {"engine", "transport"} /\ closer[q] \in {"engine", "transport"} => p = q
  /\ once = "done" => down
  /\ down => closed
  /\ closed => shut

\* Every step of a connection keeps the protocol of closeOnce.
LEMMA OnceStep ==
  ASSUME OnceInv, [ConnNext]_connVars
  PROVE  OnceInv'
<1> USE DEF OnceInv, vars, engineVars, callVars, readVars
<1>1. ASSUME NEW c \in Calls, InvokeStep(c) PROVE OnceInv'
  BY <1>1 DEF InvokeStep, Invoke, InvokeRegister, InvokeSent, InvokeNotSent, InvokeReturn,
              InvokeGiveUp, Register, Await, Abandon, AwaitResult, Cancel, AwaitGiveUp, lifeVars
<1>2. CASE readLoop
  <2>1. closed' = closed /\ UNCHANGED <<shut, once, down, ka>>
    BY <1>2 DEF readLoop, ReceiveStep, ReadCheck, RecvPacket, RecvMalformed, RecvFailed,
                ReadDispatch, ReadFailure, Dispatch, ReaderStep, handleContainer,
                ContainerCut, DispatchGzip, DispatchOther, DispatchBad, handleRPCResult,
                TakePending, Deliver
  <2>2. rd # "exited"
    BY <1>2 DEF readLoop, ReceiveStep, ReadCheck, RecvPacket, RecvMalformed, RecvFailed,
                ReadDispatch, ReadFailure
  <2>3. closer' = closer \/ (closer' = [closer EXCEPT ![Reader] = "calling"] /\ ~shut)
    BY <1>2 DEF readLoop, ReceiveStep, ReadCheck, RecvPacket, RecvMalformed, RecvFailed,
                ReadDispatch, ReadFailure
  <2>. QED
    BY <2>1, <2>2, <2>3
<1>3. CASE keepaliveLoop
  BY <1>3 DEF keepaliveLoop, KeepaliveExit, KeepaliveTick, FlushAcks, Ping, PopAcks
<1>4. ASSUME NEW u \in Users, CloseCall(u) PROVE OnceInv'
  BY <1>4 DEF CloseCall, Closers
<1>5. ASSUME NEW p \in Closers, CloseOnce(p) PROVE OnceInv'
  BY <1>5 DEF CloseOnce
<1>6. ASSUME NEW p \in Closers, CloseEngine(p) PROVE OnceInv'
  BY <1>6 DEF CloseEngine, Close
<1>7. ASSUME NEW p \in Closers, CloseTransport(p) PROVE OnceInv'
  BY <1>7 DEF CloseTransport
<1>8. ASSUME NEW p \in Closers, CloseReturn(p) PROVE OnceInv'
  BY <1>8 DEF CloseReturn
<1>9. CASE UNCHANGED connVars
  BY <1>9 DEF connVars, lifeVars
<1>. QED
  BY <1>1, <1>2, <1>3, <1>4, <1>5, <1>6, <1>7, <1>8, <1>9 DEF ConnNext, CloseStep

\* The protocol of closeOnce holds in every state of a connection.
LEMMA OnceInvariant == ConnSpec => []OnceInv
<1>1. ConnInit => OnceInv
  BY DEF ConnInit, Init, OnceInv
<1>2. OnceInv /\ [ConnNext]_connVars => OnceInv'
  BY OnceStep
<1>. QED
  BY <1>1, <1>2, PTL DEF ConnSpec

\* Channel, engine and transport are closed in this order.
THEOREM ShutdownIsOrdered == ConnSpec => []ShutdownOrder
<1>1. OnceInv => ShutdownOrder
  BY DEF OnceInv, ShutdownOrder
<1>. QED
  BY <1>1, OnceInvariant, PTL

\* When Close returns to anybody, both loops have ended, engine and transport
\* are closed, and (an invariant of the engine) no call is registered.
THEOREM CloseCompletes == ConnSpec => []CloseIsComplete
<1>1. OnceInv /\ NoLeak => CloseIsComplete
  BY DEF OnceInv, NoLeak, CloseIsComplete
<1>2. ConnSpec => []NoLeak
  BY ConnectionUsesEngine, MapDoesNotLeak, PTL
<1>. QED
  BY <1>1, <1>2, OnceInvariant, PTL

\* After that, neither loop does anything more.
THEOREM NothingAfterClose == ConnSpec => QuietAfterClose
<1> DEFINE Gone  == \E p \in Closers : closer[p] = "returned"
           Quiet == Gone => UNCHANGED <<readVars, rd, ka, batch, serverSalt, ackIDs>>
<1>1. OnceInv /\ [ConnNext]_connVars => [Quiet]_connVars
  <2> SUFFICES ASSUME OnceInv, ConnNext, Gone
               PROVE  UNCHANGED <<readVars, rd, ka, batch, serverSalt, ackIDs>>
    OBVIOUS
  <2> USE DEF vars, engineVars, callVars, readVars
  <2>1. rd = "exited" /\ ka = "exited"
    BY DEF OnceInv
  <2>2. ~readLoop
    BY <2>1 DEF readLoop, ReceiveStep, ReadCheck, RecvPacket, RecvMalformed, RecvFailed,
                ReadDispatch, ReadFailure
  <2>3. ~keepaliveLoop
    BY <2>1 DEF keepaliveLoop, KeepaliveExit, KeepaliveTick, FlushAcks, Ping
  <2>4. ASSUME NEW c \in Calls, InvokeStep(c)
        PROVE  UNCHANGED <<readVars, rd, ka, batch, serverSalt, ackIDs>>
    BY <2>4 DEF InvokeStep, Invoke, InvokeRegister, InvokeSent, InvokeNotSent, InvokeReturn,
                InvokeGiveUp, Register, Await, Abandon, AwaitResult, Cancel, AwaitGiveUp, lifeVars
  <2>5. ASSUME NEW u \in Users, CloseCall(u)
        PROVE  UNCHANGED <<readVars, rd, ka, batch, serverSalt, ackIDs>>
    BY <2>5 DEF CloseCall
  <2>6. ASSUME NEW p \in Closers, CloseStep(p)
        PROVE  UNCHANGED <<readVars, rd, ka, batch, serverSalt, ackIDs>>
    BY <2>1, <2>6 DEF CloseStep, CloseOnce, CloseEngine, CloseTransport, CloseReturn, Close
  <2>. QED
    BY <2>2, <2>3, <2>4, <2>5, <2>6 DEF ConnNext
<1>. QED
  BY <1>1, OnceInvariant, PTL DEF ConnSpec, QuietAfterClose

-----------------------------------------------------------------------------
(***************************************************************************)
(* The numbers of its messages                                             *)
(***************************************************************************)

\* Wrapping around keeps a multiple of four.
LEMMA Int64IsEven4 ==
  ASSUME NEW x \in Int, x % 4 = 0
  PROVE  Int64(x) \in Int /\ Int64(x) % 4 = 0
<1> DEFINE t == 2 * Top
           k == (x + Top) \div t
           r == (x + Top) % t
           h == Top \div 4
           p == k * h
<1>1. Top \in Nat /\ Top > 0 /\ t \in Nat /\ t > 0 /\ h \in Int /\ Top = 4 * h
  BY ClockAssumption
<1>2. k \in Int /\ r \in Int
  BY <1>1
<1>3. x + Top = t * k + r
  BY <1>1, <1>2
<1> HIDE DEF k, r, h
<1>4. p \in Int /\ t * k = 8 * p
  BY <1>1, <1>2
<1> HIDE DEF p
<1>5. (r - Top) % 4 = 0
  BY <1>1, <1>2, <1>3, <1>4
<1>. QED
  BY <1>1, <1>2, <1>5 DEF Int64, r

\* A stamp of the clock is a multiple of four.
LEMMA StampIsEven4 ==
  ASSUME NEW now \in Int
  PROVE  Stamp(now) \in Int /\ Stamp(now) % 4 = 0
<1> DEFINE sec == now \div NanosPerSec
           nano == now % NanosPerSec
           q == sec * Quarter
<1>1. sec \in Int /\ nano \in Int /\ Quarter \in Int
  BY ClockAssumption
<1> HIDE DEF sec, nano
<1>2. q \in Int /\ sec * (4 * Quarter) = 4 * q
  BY <1>1
<1> HIDE DEF q
<1>3. nano \div 4 \in Int
  BY <1>1
<1>4. (4 * q + (nano \div 4) * 4) % 4 = 0
  BY <1>2, <1>3
<1>5. sec * SecUnit + (nano \div 4) * 4 \in Int /\ (sec * SecUnit + (nano \div 4) * 4) % 4 = 0
  BY <1>1, <1>2, <1>3, <1>4 DEF SecUnit
<1>. QED
  BY <1>5, Int64IsEven4 DEF Stamp, sec, nano

\* Fresh is above the last ID, and keeps the lower two bits at zero.
LEMMA FreshIsAbove ==
  ASSUME NEW id \in Int, lastID \in Nat, id % 4 = 0, lastID % 4 = 0
  PROVE  Fresh(id) \in Nat /\ Fresh(id) > lastID /\ Fresh(id) % 4 = 0
BY DEF Fresh

-----------------------------------------------------------------------------
\* What ties the histories to the state: a message is in numbered from its
\* second number on, what was numbered before a message stays numbered, and
\* what a sender has put on the wire was numbered before its next message.
HistoryInv ==
  /\ \A s \in Senders :
       /\ before[s] \subseteq numbered
       /\ at[s] # "idle" => out[s] \in Message /\ out[s].from = s
       /\ at[s] = "hasID" => \A m \in numbered : m.id # out[s].id
       /\ at[s] = "numbered" => out[s] \in numbered
       /\ \A i \in DOMAIN wire :
            wire[i].from = s /\ at[s] # "idle" => wire[i] \in before[s]
  /\ \A i \in DOMAIN wire : wire[i] \in numbered

\* The sequence numbers as they are counted, before they are cut to 32 bits.
Counted ==
  /\ \A m \in numbered :
       IF Content(m.from) THEN m.seq % 2 = 1 /\ m.seq < 2 * contentCount
                          ELSE m.seq % 2 = 0 /\ m.seq <= 2 * contentCount
  /\ \A i \in 0 .. contentCount - 1 :
       \E m \in numbered : Content(m.from) /\ m.seq = 2 * i + 1
  /\ \A m, n \in numbered :
       Content(m.from) /\ Content(n.from) /\ m.seq = n.seq => m = n

CountedInTime ==
  \A s \in Senders :
    /\ at[s] # "idle" => \A m \in before[s] : m.id < out[s].id
    /\ at[s] = "numbered" =>
         \A m \in before[s] :
           IF Content(m.from) THEN m.seq < out[s].seq ELSE m.seq <= out[s].seq

CountedOnWire ==
  \A i, j \in DOMAIN wire :
    i < j /\ wire[i].from = wire[j].from =>
      wire[i].id < wire[j].id /\ wire[i].seq <= wire[j].seq

NumInv ==
  NumTypeOK /\ HistoryInv /\ MessageIDs /\ Counted /\ CountedInTime /\ CountedOnWire

\* msgIDs.Next keeps everything: the new ID is above all others.
LEMMA NextMsgIDStep ==
  ASSUME NumInv, NEW s \in Senders, NextMsgID(s)
  PROVE  NumInv'
<1> USE DEF NumInv
<1>1. /\ lastID' \in Nat /\ lastID' > lastID /\ lastID' % 4 = 0
      /\ out' = [out EXCEPT ![s] = [from |-> s, id |-> lastID', seq |-> 0]]
  <2>1. PICK now \in Times :
          /\ lastID' = Fresh(Stamp(now + offset))
          /\ out' = [out EXCEPT ![s] = [from |-> s, id |-> lastID', seq |-> 0]]
    BY DEF NextMsgID
  <2>2. now + offset \in Int
    BY ClockAssumption DEF NumTypeOK
  <2>3. lastID \in Nat /\ lastID % 4 = 0
    BY DEF NumTypeOK, MessageIDs
  <2>. QED
    BY <2>1, <2>2, <2>3, StampIsEven4, FreshIsAbove
<1>2. [from |-> s, id |-> lastID', seq |-> 0] \in Message
  BY <1>1 DEF Message
<1>3. NumTypeOK'
  BY <1>1, <1>2 DEF NumTypeOK, NextMsgID
<1>a. /\ at[s] = "idle" /\ at'[s] = "hasID" /\ before'[s] = numbered
      /\ out'[s].from = s /\ out'[s].id = lastID' /\ out'[s] \in Message
      /\ \A t \in Senders : t # s =>
           at'[t] = at[t] /\ before'[t] = before[t] /\ out'[t] = out[t]
      /\ numbered' = numbered /\ wire' = wire
  BY <1>1, <1>2 DEF NumTypeOK, NextMsgID
<1>b. ASSUME NEW m \in numbered
      PROVE  m.id \in Int /\ m.id <= lastID /\ m.id # lastID'
  <2>1. m.id \in Int /\ lastID \in Nat
    BY DEF NumTypeOK, Message
  <2>2. m.id <= lastID
    BY DEF MessageIDs
  <2>. QED
    BY <1>1, <2>1, <2>2
<1>c. ASSUME NEW t \in Senders, t # s, at[t] # "idle"
      PROVE  out[t].id \in Int /\ out[t].id <= lastID /\ out[t].id # lastID'
  <2>1. out[t].id \in Int
    BY <1>c DEF HistoryInv, Message
  <2>2. out[t].id <= lastID /\ lastID \in Nat
    BY <1>c DEF MessageIDs, NumTypeOK
  <2>. QED
    BY <1>1, <2>1, <2>2
<1>4. HistoryInv'
  <2>1. \A i \in DOMAIN wire : wire[i] \in numbered
    BY DEF HistoryInv
  <2>. QED
    BY <1>a, <1>b, <2>1 DEF HistoryInv
<1>5. MessageIDs'
  <2>1. ASSUME NEW t \in Senders, at'[t] # "idle"
        PROVE  /\ out'[t].id <= lastID' /\ out'[t].id % 4 = 0
               /\ \A m \in numbered : m.id = out'[t].id => m = out'[t]
    <3>1. CASE t = s
      BY <1>1, <1>a, <1>b, <3>1
    <3>2. CASE t # s
      <4>1. out'[t] = out[t] /\ at[t] # "idle"
        BY <1>a, <2>1, <3>2
      <4>2. out[t].id <= lastID'
        BY <1>1, <1>c, <3>2, <4>1 DEF NumTypeOK
      <4>. QED
        BY <4>1, <4>2 DEF MessageIDs
    <3>. QED
      BY <3>1, <3>2
  <2>2. ASSUME NEW t \in Senders, at'[t] # "idle",
               NEW u \in Senders, at'[u] # "idle", out'[u].id = out'[t].id
        PROVE  u = t
    BY <1>a, <1>c, <2>2 DEF MessageIDs
  <2>3. \A m \in numbered : m.id <= lastID' /\ m.id % 4 = 0
    BY <1>1, <1>b DEF MessageIDs, NumTypeOK
  <2>. QED
    BY <1>1, <1>a, <2>1, <2>2, <2>3 DEF MessageIDs
<1>6. Counted'
  BY DEF Counted, NextMsgID, Content
<1>7. CountedInTime'
  <2>1. \A m \in numbered : m.id < lastID'
    BY <1>1, <1>b DEF NumTypeOK
  <2>. QED
    BY <1>a, <2>1 DEF CountedInTime, Content
<1>8. CountedOnWire'
  BY DEF CountedOnWire, NextMsgID
<1>. QED
  BY <1>3, <1>4, <1>5, <1>6, <1>7, <1>8

\* seqNos.Next keeps everything: an odd number is given out once.
LEMMA NextSeqNoStep ==
  ASSUME NumInv, NEW s \in Senders, NextSeqNo(s)
  PROVE  NumInv'
<1> USE DEF NumInv
<1> DEFINE n == IF Content(s) THEN contentCount * 2 + 1 ELSE contentCount * 2
           m0 == [from |-> s, id |-> out[s].id, seq |-> n]
<1>1. contentCount \in Nat /\ n \in Nat
  BY DEF NumTypeOK
<1>0. out[s] \in Message /\ out[s].from = s
  BY DEF NextSeqNo, HistoryInv
<1>2. out' = [out EXCEPT ![s] = m0] /\ out'[s] = m0 /\ m0 \in Message
  <2>1. out' = [out EXCEPT ![s] = [out[s] EXCEPT !.seq = n]]
    BY DEF NextSeqNo
  <2>2. [out[s] EXCEPT !.seq = n] = m0
    BY <1>0 DEF Message
  <2>3. m0 \in Message
    BY <1>0, <1>1 DEF Message
  <2>. QED
    BY <2>1, <2>2, <2>3 DEF NumTypeOK
<1>3. numbered' = numbered \cup {m0}
  BY <1>2 DEF NextSeqNo
<1>4. m0.from = s /\ m0.id = out[s].id /\ m0.seq = n
  OBVIOUS
<1> HIDE DEF m0
<1>5. NumTypeOK'
  BY <1>1, <1>2, <1>3 DEF NumTypeOK, NextSeqNo, CountNext
<1>6. HistoryInv'
  <2>1. at[s] = "hasID" /\ at' = [at EXCEPT ![s] = "numbered"] /\ before' = before /\ wire' = wire
    BY DEF NextSeqNo
  <2>2. ASSUME NEW t \in Senders
        PROVE  /\ before'[t] \subseteq numbered'
               /\ at'[t] # "idle" => out'[t] \in Message /\ out'[t].from = t
               /\ at'[t] = "hasID" => \A m \in numbered' : m.id # out'[t].id
               /\ at'[t] = "numbered" => out'[t] \in numbered'
               /\ \A i \in DOMAIN wire' :
                    wire'[i].from = t /\ at'[t] # "idle" => wire'[i] \in before'[t]
    <3>1. CASE t = s
      <4>1. at'[s] = "numbered"
        BY <2>1 DEF NumTypeOK
      <4>. QED
        BY <1>2, <1>3, <1>4, <2>1, <3>1, <4>1 DEF HistoryInv
    <3>2. CASE t # s
      <4>1. at'[t] = at[t] /\ out'[t] = out[t]
        BY <1>2, <2>1, <3>2 DEF NumTypeOK
      <4>2. at[t] = "hasID" => out[t].id # m0.id
        BY <1>4, <2>1, <3>2 DEF MessageIDs
      <4>. QED
        BY <1>3, <2>1, <4>1, <4>2 DEF HistoryInv
    <3>. QED
      BY <3>1, <3>2
  <2>. QED
    BY <1>3, <2>1, <2>2 DEF HistoryInv
<1>7. MessageIDs'
  <2>1. /\ at[s] = "hasID" /\ at' = [at EXCEPT ![s] = "numbered"]
        /\ lastID' = lastID
    BY DEF NextSeqNo
  <2>2. ASSUME NEW t \in Senders
        PROVE  /\ (at'[t] # "idle") = (at[t] # "idle")
               /\ out'[t].id = out[t].id
               /\ t # s => out'[t] = out[t] /\ at'[t] = at[t]
    BY <1>2, <1>4, <2>1 DEF NumTypeOK
  <2>3. \A m \in numbered : m.id # m0.id
    BY <1>4, <2>1 DEF HistoryInv
  <2>4. m0.id <= lastID /\ m0.id % 4 = 0
    BY <1>4, <2>1 DEF MessageIDs
  <2>5. lastID % 4 = 0 /\ \A m \in numbered : m.id <= lastID /\ m.id % 4 = 0
    BY DEF MessageIDs
  <2>6. \A m, k \in numbered : m.id = k.id => m = k
    BY DEF MessageIDs
  <2>7. ASSUME NEW t \in Senders, at'[t] # "idle"
        PROVE  /\ out'[t].id <= lastID /\ out'[t].id % 4 = 0
               /\ \A m \in numbered' : m.id = out'[t].id => m = out'[t]
               /\ \A u \in Senders : at'[u] # "idle" /\ out'[u].id = out'[t].id => u = t
    <3>1. at[t] # "idle" /\ out'[t].id = out[t].id
      BY <2>2, <2>7
    <3>2. out[t].id <= lastID /\ out[t].id % 4 = 0
      BY <3>1 DEF MessageIDs
    <3>3. \A u \in Senders : at'[u] # "idle" /\ out'[u].id = out'[t].id => u = t
      BY <2>2, <3>1 DEF MessageIDs
    <3>4. CASE t = s
      BY <1>2, <1>3, <2>3, <3>1, <3>2, <3>3, <3>4
    <3>5. CASE t # s
      <4>1. out[t].id # m0.id
        BY <1>4, <2>1, <3>1, <3>5 DEF MessageIDs
      <4>2. \A m \in numbered : m.id = out[t].id => m = out[t]
        BY <3>1 DEF MessageIDs
      <4>. QED
        BY <1>3, <2>2, <3>1, <3>2, <3>3, <3>5, <4>1, <4>2
    <3>. QED
      BY <3>4, <3>5
  <2>. QED
    BY <1>3, <2>1, <2>3, <2>4, <2>5, <2>6, <2>7 DEF MessageIDs
<1>8. Counted'
  <2>1. \A m \in numbered : m.seq \in Nat /\ m.from \in Senders
    BY DEF NumTypeOK, Message
  <2>2. CASE Content(s)
    BY <1>1, <1>3, <1>4, <2>1, <2>2 DEF Counted, NextSeqNo, CountNext, Content
  <2>3. CASE ~Content(s)
    BY <1>1, <1>3, <1>4, <2>1, <2>3 DEF Counted, NextSeqNo, CountNext, Content
  <2>. QED
    BY <2>2, <2>3
<1>9. CountedInTime'
  <2>1. \A m \in before[s] : IF Content(m.from) THEN m.seq < n ELSE m.seq <= n
    BY <1>1 DEF HistoryInv, Counted, NumTypeOK, Message
  <2>. QED
    BY <1>2, <1>4, <2>1 DEF CountedInTime, NextSeqNo, Content, NumTypeOK
<1>10. CountedOnWire'
  BY DEF CountedOnWire, NextSeqNo
<1>. QED
  BY <1>5, <1>6, <1>7, <1>8, <1>9, <1>10

\* Sending keeps everything: what the sender sent before is numbered lower.
LEMMA SendStep ==
  ASSUME NumInv, NEW s \in Senders, Send(s)
  PROVE  NumInv'
<1> USE DEF NumInv
<1>1. out[s] \in numbered /\ out[s] \in Message /\ out[s].from = s /\ at[s] = "numbered"
  BY DEF Send, HistoryInv
<1>2. NumTypeOK'
  BY <1>1 DEF NumTypeOK, Send
<1>a. /\ at'[s] = "idle" /\ before'[s] = {}
      /\ \A t \in Senders : t # s =>
           at'[t] = at[t] /\ before'[t] = before[t] /\ out'[t] = out[t]
      /\ numbered' = numbered
  BY DEF NumTypeOK, Send
<1>b. \/ wire' = wire
      \/ /\ DOMAIN wire' = 1 .. Len(wire) + 1
         /\ wire'[Len(wire) + 1] = out[s]
         /\ \A i \in 1 .. Len(wire) : wire'[i] = wire[i]
         /\ DOMAIN wire = 1 .. Len(wire) /\ Len(wire) \in Nat
  BY <1>1 DEF NumTypeOK, Send
<1>c. \A i \in DOMAIN wire' : (i \in DOMAIN wire /\ wire'[i] = wire[i]) \/ wire'[i] = out[s]
  BY <1>b
<1>3. HistoryInv'
  BY <1>1, <1>a, <1>c DEF HistoryInv
<1>4. MessageIDs'
  BY DEF MessageIDs, Send, NumTypeOK
<1>5. Counted'
  BY DEF Counted, Send, Content
<1>6. CountedInTime'
  BY DEF CountedInTime, Send, NumTypeOK, Content
<1>7. CountedOnWire'
  <2>1. CASE wire' = wire
    BY <2>1 DEF CountedOnWire
  <2>2. CASE wire' # wire
    <3>1. ASSUME NEW i \in DOMAIN wire, wire[i].from = s
          PROVE  wire[i].id < out[s].id /\ wire[i].seq <= out[s].seq
      <4>1. wire[i] \in before[s] /\ wire[i] \in Message
        BY <1>1, <3>1 DEF HistoryInv, NumTypeOK
      <4>2. wire[i].id < out[s].id
        BY <1>1, <4>1 DEF CountedInTime
      <4>3. wire[i].seq < out[s].seq \/ wire[i].seq <= out[s].seq
        BY <1>1, <4>1 DEF CountedInTime
      <4>. QED
        BY <1>1, <4>1, <4>2, <4>3 DEF Message
    <3>. QED
      BY <1>1, <1>b, <2>2, <3>1 DEF CountedOnWire
  <2>. QED
    BY <2>1, <2>2
<1>. QED
  BY <1>2, <1>3, <1>4, <1>5, <1>6, <1>7

\* The invariant is inductive.
LEMMA NumInductive == NumSpec => []NumInv
<1>1. NumInit => NumInv
  <2> SUFFICES ASSUME NumInit PROVE NumInv
    OBVIOUS
  <2> USE DEF NumInit
  <2>1. NumTypeOK
    BY ClockAssumption DEF NumTypeOK
  <2>2. HistoryInv /\ MessageIDs /\ Counted /\ CountedInTime /\ CountedOnWire
    BY DEF HistoryInv, MessageIDs, Counted, CountedInTime, CountedOnWire
  <2>. QED
    BY <2>1, <2>2 DEF NumInv
<1>2. NumInv /\ [NumNext]_numVars => NumInv'
  <2> SUFFICES ASSUME NumInv, [NumNext]_numVars PROVE NumInv'
    OBVIOUS
  <2>1. ASSUME NEW o \in Offsets, SetServerTimeOffset(o) PROVE NumInv'
    BY <2>1 DEF SetServerTimeOffset, NumInv, NumTypeOK, HistoryInv, MessageIDs,
                Counted, CountedInTime, CountedOnWire
  <2>2. CASE UNCHANGED numVars
    BY <2>2 DEF numVars, NumInv, NumTypeOK, HistoryInv, MessageIDs,
                Counted, CountedInTime, CountedOnWire
  <2>. QED
    BY <2>1, <2>2, NextMsgIDStep, NextSeqNoStep, SendStep DEF NumNext
<1>. QED
  BY <1>1, <1>2, PTL DEF NumSpec

-----------------------------------------------------------------------------
\* Cutting to 32 bits keeps the parity, and changes nothing below 2^31.
LEMMA SeqNoCuts ==
  ASSUME NEW m, m.seq \in Nat
  PROVE  /\ SeqNo(m) \in Int
         /\ SeqNo(m) % 2 = m.seq % 2
         /\ m.seq < SeqTop => SeqNo(m) = m.seq
         /\ m.seq >= SeqTop /\ m.seq < 2 * SeqTop => SeqNo(m) = m.seq - 2 * SeqTop
<1> DEFINE x == m.seq
           t == 2 * SeqTop
           k == (x + SeqTop) \div t
           r == (x + SeqTop) % t
<1>1. SeqTop \in Nat /\ SeqTop > 0 /\ SeqTop % 2 = 0 /\ t \in Nat /\ t > 0 /\ x \in Nat
  BY SeqAssumption
<1>2. k \in Int /\ r \in Int /\ 0 <= r /\ r < t /\ x + SeqTop = t * k + r
  BY <1>1
<1>3. SeqNo(m) = r - SeqTop
  BY DEF SeqNo
<1> HIDE DEF k, r, x
<1>4. (r - SeqTop) % 2 = x % 2
  <2> DEFINE p == SeqTop * k
  <2>1. p \in Int /\ t * k = 2 * p
    BY <1>1, <1>2
  <2> HIDE DEF p
  <2>. QED
    BY <1>1, <1>2, <2>1
<1>5. ASSUME x < SeqTop PROVE r - SeqTop = x
  <2>1. k = 0
    <3>1. ASSUME k >= 1 PROVE FALSE
      BY <1>1, <1>2, <1>5, <3>1
    <3>2. ASSUME k <= -1 PROVE FALSE
      BY <1>1, <1>2, <3>2
    <3>. QED
      BY <1>2, <3>1, <3>2
  <2>. QED
    BY <1>1, <1>2, <2>1
<1>6. ASSUME x >= SeqTop, x < t PROVE r - SeqTop = x - t
  <2>1. k = 1
    <3>1. ASSUME k >= 2 PROVE FALSE
      BY <1>1, <1>2, <1>6, <3>1
    <3>2. ASSUME k <= 0 PROVE FALSE
      BY <1>1, <1>2, <1>6, <3>2
    <3>. QED
      BY <1>2, <3>1, <3>2
  <2>. QED
    BY <1>1, <1>2, <2>1
<1>. QED
  BY <1>1, <1>2, <1>3, <1>4, <1>5, <1>6 DEF x

\* As long as none has wrapped, the numbers are as they were counted.
LEMMA BelowTop ==
  ASSUME NumInv, NoneWrapped
  PROVE  \A m \in numbered : SeqNo(m) = m.seq
<1> SUFFICES ASSUME NEW m \in numbered PROVE SeqNo(m) = m.seq
  OBVIOUS
<1>1. m.seq \in Nat /\ contentCount \in Nat /\ SeqTop \in Nat
  BY SeqAssumption DEF NumInv, NumTypeOK, Message
<1>2. m.seq <= 2 * contentCount
  BY <1>1 DEF NumInv, Counted
<1>. QED
  BY <1>1, <1>2, SeqNoCuts DEF NoneWrapped

\* No two messages of a connection share an ID, every ID is a multiple of
\* four, and the last one is the greatest.
THEOREM MessageIDsAreUnique == NumSpec => []MessageIDs
<1>1. NumInv => MessageIDs
  BY DEF NumInv
<1>. QED
  BY <1>1, NumInductive, PTL

\* Sequence numbers keep their parity for ever, are not repeated before 2^31
\* content-related messages, and are 1, 3, 5 ... without gaps for 2^30 of them.
THEOREM SequenceNumbersAreRight == NumSpec => []SequenceNumbers
<1>1. NumInv => SequenceNumbers
  <2> SUFFICES ASSUME NumInv PROVE SequenceNumbers
    OBVIOUS
  <2>0. SeqTop \in Nat /\ contentCount \in Nat
    BY SeqAssumption DEF NumInv, NumTypeOK
  <2>1. ASSUME NEW m \in numbered
        PROVE  /\ m.seq \in Nat /\ SeqNo(m) \in Int /\ SeqNo(m) % 2 = m.seq % 2
               /\ m.seq < SeqTop => SeqNo(m) = m.seq
               /\ m.seq >= SeqTop /\ m.seq < 2 * SeqTop => SeqNo(m) = m.seq - 2 * SeqTop
               /\ IF Content(m.from) THEN m.seq % 2 = 1 /\ m.seq < 2 * contentCount
                                     ELSE m.seq % 2 = 0 /\ m.seq <= 2 * contentCount
    <3>1. m.seq \in Nat
      BY DEF NumInv, NumTypeOK, Message
    <3>. QED
      BY <3>1, SeqNoCuts DEF NumInv, Counted
  <2>2. \A m \in numbered : SeqNo(m) % 2 = IF Content(m.from) THEN 1 ELSE 0
    BY <2>1
  <2>3. ASSUME contentCount <= SeqTop, NEW m \in numbered, NEW n \in numbered,
               Content(m.from), Content(n.from), SeqNo(m) = SeqNo(n)
        PROVE  m = n
    <3>1. m.seq = n.seq
      BY <2>0, <2>1, <2>3
    <3>. QED
      BY <2>3, <3>1 DEF NumInv, Counted
  <2>4. ASSUME NoneWrapped PROVE \A m \in numbered : SeqNo(m) = m.seq
    BY <2>4, BelowTop
  <2>5. ASSUME NoneWrapped
        PROVE  \A m \in numbered : 0 <= SeqNo(m) /\ SeqNo(m) <= 2 * contentCount
    BY <2>0, <2>1, <2>4, <2>5
  <2>6. ASSUME NoneWrapped, NEW j \in 0 .. contentCount - 1
        PROVE  \E m \in numbered : Content(m.from) /\ SeqNo(m) = 2 * j + 1
    BY <2>4, <2>6 DEF NumInv, Counted
  <2>. QED
    BY <2>2, <2>3, <2>5, <2>6 DEF SequenceNumbers
<1>. QED
  BY <1>1, NumInductive, PTL

\* Messages that do not overlap in time are numbered in their order.
THEOREM NumbersFollowTime == NumSpec => []RealTimeOrder
<1>1. NumInv => RealTimeOrder
  <2> SUFFICES ASSUME NumInv PROVE RealTimeOrder
    OBVIOUS
  <2>1. ASSUME NoneWrapped PROVE \A m \in numbered : SeqNo(m) = m.seq
    BY <2>1, BelowTop
  <2>2. \A s \in Senders :
          before[s] \subseteq numbered /\ (at[s] = "numbered" => out[s] \in numbered)
    BY DEF NumInv, HistoryInv
  <2>. QED
    BY <2>1, <2>2 DEF NumInv, CountedInTime, RealTimeOrder
<1>. QED
  BY <1>1, NumInductive, PTL

\* The messages of one goroutine reach the wire in the order of their numbers.
THEOREM SendersAreInOrder == NumSpec => []SenderOrder
<1>1. NumInv => SenderOrder
  <2> SUFFICES ASSUME NumInv PROVE SenderOrder
    OBVIOUS
  <2>1. ASSUME NoneWrapped PROVE \A m \in numbered : SeqNo(m) = m.seq
    BY <2>1, BelowTop
  <2>2. \A i \in DOMAIN wire : wire[i] \in numbered
    BY DEF NumInv, HistoryInv
  <2>. QED
    BY <2>1, <2>2 DEF NumInv, CountedOnWire, SenderOrder
<1>. QED
  BY <1>1, NumInductive, PTL

=============================================================================
