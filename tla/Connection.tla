----------------------------- MODULE Connection -----------------------------
(***************************************************************************)
(* The life of one encrypted connection, mtproto/connection/connection.go, *)
(* around the RPC engine of module RpcEngine.                              *)
(*                                                                         *)
(* NewConnection starts two goroutines, readLoop and keepaliveLoop, which  *)
(* the WaitGroup wg counts.  Any goroutine may Invoke a request; users may *)
(* Close, and so does readLoop itself when Recv fails.  Every step of the  *)
(* engine happens here as the step of one of these goroutines.             *)
(*                                                                         *)
(* Message IDs, sequence numbers and the order of packets on the wire are  *)
(* the subject of module Numbering.                                        *)
(***************************************************************************)
EXTENDS RpcEngine

CONSTANTS
  Users,     \* goroutines that may call Close, once each
  Reader,    \* the name of readLoop among the callers of Close
  Salts,     \* salts in packets of the server, 0 being "none"
  InitialSalt

Closers == Users \cup {Reader}

ASSUME ReaderAssumption == Reader \notin Users

VARIABLES
  inv,         \* each Invoke before and up to its call of Register
  shut,        \* Connection.closed is a closed channel
  once,        \* Connection.closeOnce: free, held by a goroutine, done
  down,        \* the transport is closed
  closer,      \* where each caller of Close is
  rd,          \* where readLoop is
  ka,          \* where keepaliveLoop is
  batch,       \* the acknowledgements flushAcksAndPing has popped
  serverSalt   \* Connection.serverSalt

lifeVars == <<inv, shut, once, down, closer, rd, ka, batch, serverSalt>>
connVars == <<vars, lifeVars>>

ConnTypeOK ==
  /\ TypeOK
  /\ inv \in [Calls -> {"idle", "entered", "engine", "refused"}]
  /\ shut \in BOOLEAN
  /\ once \in {"free", "held", "done"}
  /\ down \in BOOLEAN
  /\ closer \in [Closers -> {"idle", "calling", "engine", "transport", "wait", "returned"}]
  /\ rd \in {"check", "recv", "dispatch", "failed", "closing", "exited"}
  /\ ka \in {"select", "acks", "ping", "exited"}
  /\ batch \in Seq(MsgIds)
  /\ serverSalt \in (Salts \ {0}) \cup {InitialSalt}

\* NewConnection returned: both loops are running.
ConnInit ==
  /\ Init
  /\ inv = [c \in Calls |-> "idle"]
  /\ shut = FALSE
  /\ once = "free"
  /\ down = FALSE
  /\ closer = [p \in Closers |-> "idle"]
  /\ rd = "check"
  /\ ka = "select"
  /\ batch = << >>
  /\ serverSalt = InitialSalt

-----------------------------------------------------------------------------
(* Invoke                                                                  *)

\* The first select, and the encoding of the request, may turn it away.
Invoke(c) ==
  /\ inv[c] = "idle"
  /\ \/ inv' = [inv EXCEPT ![c] = "refused"]
     \/ /\ ~shut
        /\ inv' = [inv EXCEPT ![c] = "entered"]
  /\ UNCHANGED <<vars, shut, once, down, closer, rd, ka, batch, serverSalt>>

InvokeRegister(c) ==
  /\ inv[c] = "entered"
  /\ Register(c)
  /\ inv' = [inv EXCEPT ![c] = "engine"]
  /\ UNCHANGED <<shut, once, down, closer, rd, ka, batch, serverSalt>>

\* transport.Send succeeds only on an open transport; then Await ...
InvokeSent(c) ==
  /\ ~down
  /\ Await(c)
  /\ UNCHANGED lifeVars

\* ... and it may fail at any time: an error of the network, a write
\* deadline, a context that is done.  So may the encryption of the packet.
InvokeNotSent(c) ==
  /\ Abandon(c)
  /\ UNCHANGED lifeVars

InvokeReturn(c) ==
  /\ AwaitResult(c) \/ Cancel(c)
  /\ UNCHANGED lifeVars

InvokeGiveUp(c) ==
  /\ \E why \in {"timeout", "ctx"} : AwaitGiveUp(c, why)
  /\ UNCHANGED lifeVars

-----------------------------------------------------------------------------
(* readLoop                                                                *)

ReadCheck ==
  /\ rd = "check"
  /\ rd' = IF shut THEN "exited" ELSE "recv"
  /\ UNCHANGED <<vars, inv, shut, once, down, closer, ka, batch, serverSalt>>

\* Recv and UnpackEncrypted succeed; a salt that is not 0 is taken over.
RecvPacket(m, salt) ==
  /\ rd = "recv"
  /\ ~down
  /\ Dispatch(m)
  /\ serverSalt' = IF salt # 0 THEN salt ELSE serverSalt
  /\ rd' = "dispatch"
  /\ UNCHANGED <<inv, shut, once, down, closer, ka, batch>>

\* UnpackEncrypted fails: the packet is skipped.
RecvMalformed ==
  /\ rd = "recv"
  /\ ~down
  /\ rd' = "check"
  /\ UNCHANGED <<vars, inv, shut, once, down, closer, ka, batch, serverSalt>>

\* Recv fails: end of stream, read deadline, framing error, or the transport
\* was closed.
RecvFailed ==
  /\ rd = "recv"
  /\ rd' = "failed"
  /\ UNCHANGED <<vars, inv, shut, once, down, closer, ka, batch, serverSalt>>

\* A step inside rpc.Dispatch; when it returns the loop starts over.
ReadDispatch ==
  /\ rd = "dispatch"
  /\ ReaderStep
  /\ rd' = IF disp' = "idle" THEN "check" ELSE "dispatch"
  /\ UNCHANGED <<inv, shut, once, down, closer, ka, batch, serverSalt>>

\* Mutant: after an error of Recv the loop reads again.
ReadFailureRetries ==
  /\ rd = "failed"
  /\ rd' = "recv"
  /\ UNCHANGED <<vars, inv, shut, once, down, closer, ka, batch, serverSalt>>

\* After an error of Recv: return if someone has closed, otherwise Close.
ReadFailure ==
  /\ rd = "failed"
  /\ \/ /\ shut
        /\ rd' = "exited"
        /\ UNCHANGED closer
     \/ /\ ~shut
        /\ rd' = "closing"
        /\ closer' = [closer EXCEPT ![Reader] = "calling"]
  /\ UNCHANGED <<vars, inv, shut, once, down, ka, batch, serverSalt>>

-----------------------------------------------------------------------------
(* keepaliveLoop                                                           *)

KeepaliveExit ==
  /\ ka = "select"
  /\ shut
  /\ ka' = "exited"
  /\ UNCHANGED <<vars, inv, shut, once, down, closer, rd, batch, serverSalt>>

\* The ticker fires (the select may choose it on a closed connection too) and
\* flushAcksAndPing pops the acknowledgements.
KeepaliveTick ==
  /\ ka = "select"
  /\ \/ /\ PopAcks
        /\ batch' = ackIDs
        /\ ka' = "acks"
     \/ /\ ackIDs = << >>
        /\ ka' = "ping"
        /\ UNCHANGED <<vars, batch>>
  /\ UNCHANGED <<inv, shut, once, down, closer, rd, serverSalt>>

\* Mutant: the loop gives up when msgs_ack cannot be sent.
FlushAcksOrExit ==
  /\ ka = "acks"
  /\ batch' = << >>
  /\ \/ ka' = "ping" /\ ~down
     \/ ka' = "exited"
  /\ UNCHANGED <<vars, inv, shut, once, down, closer, rd, serverSalt>>

\* msgs_ack is sent, or it fails to be: the IDs are gone in both cases.
FlushAcks ==
  /\ ka = "acks"
  /\ batch' = << >>
  /\ ka' = "ping"
  /\ UNCHANGED <<vars, inv, shut, once, down, closer, rd, serverSalt>>

\* The ping, whose failure is ignored as well.
Ping ==
  /\ ka = "ping"
  /\ ka' = "select"
  /\ UNCHANGED <<vars, inv, shut, once, down, closer, rd, batch, serverSalt>>

-----------------------------------------------------------------------------
(* Close                                                                   *)

CloseCall(u) ==
  /\ closer[u] = "idle"
  /\ closer' = [closer EXCEPT ![u] = "calling"]
  /\ UNCHANGED <<vars, inv, shut, once, down, rd, ka, batch, serverSalt>>

\* Mutant: a flag instead of sync.Once, which a second caller does not wait for.
CloseOnceAsFlag(p) ==
  /\ closer[p] = "calling"
  /\ closer' = [closer EXCEPT ![p] = IF once = "free" THEN "engine" ELSE "wait"]
  /\ once' = IF once = "free" THEN "held" ELSE once
  /\ shut' = TRUE
  /\ UNCHANGED <<vars, inv, down, rd, ka, batch, serverSalt>>

\* closeOnce.Do: the first caller closes the channel and goes on; the others
\* wait until it has run the whole function.
CloseOnce(p) ==
  /\ closer[p] = "calling"
  /\ \/ /\ once = "free"
        /\ once' = "held"
        /\ shut' = TRUE
        /\ closer' = [closer EXCEPT ![p] = "engine"]
     \/ /\ once = "done"
        /\ closer' = [closer EXCEPT ![p] = "wait"]
        /\ UNCHANGED <<once, shut>>
  /\ UNCHANGED <<vars, inv, down, rd, ka, batch, serverSalt>>

\* Mutant: Close forgets the engine.
CloseSkipsEngine(p) ==
  /\ closer[p] = "engine"
  /\ closer' = [closer EXCEPT ![p] = "transport"]
  /\ UNCHANGED <<vars, inv, shut, once, down, rd, ka, batch, serverSalt>>

CloseEngine(p) ==
  /\ closer[p] = "engine"
  /\ Close
  /\ closer' = [closer EXCEPT ![p] = "transport"]
  /\ UNCHANGED <<inv, shut, once, down, rd, ka, batch, serverSalt>>

CloseTransport(p) ==
  /\ closer[p] = "transport"
  /\ down' = TRUE
  /\ once' = "done"
  /\ closer' = [closer EXCEPT ![p] = "wait"]
  /\ UNCHANGED <<vars, inv, shut, rd, ka, batch, serverSalt>>

\* Mutant: Close does not wait for the two loops.
CloseReturnAtOnce(p) ==
  /\ closer[p] = "wait"
  /\ closer' = [closer EXCEPT ![p] = "returned"]
  /\ rd' = IF p = Reader THEN "exited" ELSE rd
  /\ UNCHANGED <<vars, inv, shut, once, down, ka, batch, serverSalt>>

\* wg.Wait: both loops have run their deferred wg.Done.  For readLoop that is
\* after its own Close has returned.
CloseReturn(p) ==
  /\ closer[p] = "wait"
  /\ rd = "exited" /\ ka = "exited"
  /\ closer' = [closer EXCEPT ![p] = "returned"]
  /\ rd' = IF p = Reader THEN "exited" ELSE rd
  /\ UNCHANGED <<vars, inv, shut, once, down, ka, batch, serverSalt>>

-----------------------------------------------------------------------------
InvokeStep(c) ==
  \/ Invoke(c) \/ InvokeRegister(c) \/ InvokeSent(c) \/ InvokeNotSent(c)
  \/ InvokeReturn(c) \/ InvokeGiveUp(c)

ReceiveStep ==
  \/ \E m \in Messages, salt \in Salts : RecvPacket(m, salt)
  \/ RecvMalformed
  \/ RecvFailed

readLoop == ReadCheck \/ ReceiveStep \/ ReadDispatch \/ ReadFailure

keepaliveLoop == KeepaliveExit \/ KeepaliveTick \/ FlushAcks \/ Ping

CloseStep(p) == CloseOnce(p) \/ CloseEngine(p) \/ CloseTransport(p) \/ CloseReturn(p)

ConnNext ==
  \/ \E c \in Calls : InvokeStep(c)
  \/ readLoop
  \/ keepaliveLoop
  \/ \E u \in Users : CloseCall(u)
  \/ \E p \in Closers : CloseStep(p)

ConnSpec == ConnInit /\ [][ConnNext]_connVars

(***************************************************************************)
(* A goroutine that can move moves.  Recv returns: every read has a        *)
(* deadline of 60 s, and closing the transport ends it.  Send returns:     *)
(* every write has one of 30 s.  The select of keepaliveLoop, which a tick *)
(* reaches every 30 s at most, does not miss a closed channel forever.     *)
(* Nothing is assumed of the server, of timers and of contexts in Await,   *)
(* nor that anybody calls Close.                                           *)
(***************************************************************************)
ConnFairSpec ==
  /\ ConnSpec
  /\ WF_connVars(readLoop)
  /\ WF_connVars(keepaliveLoop)
  /\ SF_connVars(KeepaliveExit)
  /\ \A c \in Calls : /\ WF_connVars(InvokeRegister(c))
                      /\ WF_connVars(InvokeSent(c) \/ InvokeNotSent(c))
                      /\ WF_connVars(InvokeReturn(c))
  /\ \A p \in Closers : WF_connVars(CloseStep(p))

-----------------------------------------------------------------------------
(***************************************************************************)
(* Properties                                                              *)
(***************************************************************************)

(***************************************************************************)
(* When Close has returned to any of its callers the shutdown is complete: *)
(* both loops have ended, the engine and the transport are closed and no   *)
(* call is registered.  A second caller of Close must not return earlier   *)
(* than the first one's work is done.                                      *)
(***************************************************************************)
CloseIsComplete ==
  (\E p \in Closers : closer[p] = "returned") =>
    /\ shut /\ closed /\ down
    /\ rd = "exited" /\ ka = "exited"
    /\ pending = {}

(***************************************************************************)
(* Nothing moves in the background after Close has returned: no packet is  *)
(* dispatched, no acknowledgement popped, no salt taken over.              *)
(***************************************************************************)
QuietAfterClose ==
  [][(\E p \in Closers : closer[p] = "returned")
       => UNCHANGED <<readVars, rd, ka, batch, serverSalt, ackIDs>>]_connVars

(***************************************************************************)
(* The three closed flags are raised in order, and a closed transport      *)
(* therefore never leaves a caller waiting: its engine was closed before.  *)
(***************************************************************************)
ShutdownOrder ==
  /\ down => closed
  /\ closed => shut

(***************************************************************************)
(* Once the connection is being closed, by a user or by a failed read,     *)
(* every Invoke that has begun returns without the help of its timer, also *)
(* one that passed the first select just before and registers afterwards.  *)
(***************************************************************************)
InvokesEnd ==
  \A c \in Calls :
    (shut /\ inv[c] \in {"entered", "engine"}) ~> (call[c] = "returned")

(***************************************************************************)
(* A failed read shuts the engine and the transport down, and a user's     *)
(* Close returns, unless readLoop has called Close itself.                 *)
(***************************************************************************)
ShutdownEnds ==
  /\ (rd = "failed") ~> (closed /\ down)
  /\ \A u \in Users :
       (closer[u] = "calling") ~> (closer[u] = "returned" \/ closer[Reader] # "idle")

(***************************************************************************)
(* Queued acknowledgements are taken to be sent as long as the connection  *)
(* is open, also after sends that failed.                                  *)
(***************************************************************************)
AcksAreFlushed == (ackIDs # << >>) ~> (ackIDs = << >> \/ shut)

(***************************************************************************)
(* What connection.go says of Close: it terminates the connection, the     *)
(* background workers and the transport.  So it returns to whoever calls.  *)
(***************************************************************************)
CloseTerminates ==
  \A p \in Closers : (closer[p] = "calling") ~> (closer[p] = "returned")

=============================================================================
