----------------------------- MODULE RpcPromise -----------------------------
(***************************************************************************)
(* What the RPC engine promises its callers, with no queue, map, channel   *)
(* or reader in it.  A call that is open is answered at most once, by the  *)
(* server or by the shutdown of the engine; the shutdown answers every     *)
(* call that is open at that moment, and every later one at once; a call   *)
(* returns once, with its own answer or because its caller gave up.        *)
(***************************************************************************)
CONSTANTS
  Calls,
  Replies,   \* how the server's answer may look to the caller
  GiveUps    \* why a caller may return without an answer

VARIABLES
  phase,     \* "new", "open" or "returned"
  answer,    \* the answer made to each call, "none" before that
  outcome,   \* what each call returned
  shut       \* the engine was shut down

vars == <<phase, answer, outcome, shut>>

Init ==
  /\ phase = [c \in Calls |-> "new"]
  /\ answer = [c \in Calls |-> "none"]
  /\ outcome = [c \in Calls |-> "none"]
  /\ shut = FALSE

Open(c) ==
  /\ phase[c] = "new"
  /\ phase' = [phase EXCEPT ![c] = "open"]
  /\ answer' = [answer EXCEPT ![c] = IF shut THEN "closed" ELSE "none"]
  /\ UNCHANGED <<outcome, shut>>

Answer(c) ==
  /\ phase[c] = "open"
  /\ answer[c] = "none"
  /\ \E r \in Replies : answer' = [answer EXCEPT ![c] = r]
  /\ UNCHANGED <<phase, outcome, shut>>

Shut ==
  /\ shut' = TRUE
  /\ answer' = [c \in Calls |-> IF phase[c] = "open" /\ answer[c] = "none"
                                THEN "closed" ELSE answer[c]]
  /\ UNCHANGED <<phase, outcome>>

Return(c) ==
  /\ phase[c] = "open"
  /\ phase' = [phase EXCEPT ![c] = "returned"]
  /\ \E o \in ({answer[c]} \ {"none"}) \cup GiveUps :
       outcome' = [outcome EXCEPT ![c] = o]
  /\ UNCHANGED <<answer, shut>>

Next ==
  \/ \E c \in Calls : Open(c) \/ Answer(c) \/ Return(c)
  \/ Shut

Spec == Init /\ [][Next]_vars

=============================================================================
