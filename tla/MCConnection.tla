---------------------------- MODULE MCConnection ----------------------------
(***************************************************************************)
(* One connection with few payloads (the engine alone is checked with all  *)
(* of them in MCRpcEngine): an answer, a message that is nobody's answer,  *)
(* and a container of both.                                                *)
(***************************************************************************)
EXTENDS Connection

CONSTANTS c1, m1, u1, u2

Raw   == [kind |-> "result", req |-> c1, reply |-> "raw"]
Other == [kind |-> "other"]
Box   == [kind |-> "container",
          items |-> <<[id |-> m1, body |-> Other], [id |-> m1, body |-> Raw]>>]

MCBodies == {Raw, Other, Box}

=============================================================================
