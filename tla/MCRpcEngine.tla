---------------------------- MODULE MCRpcEngine ----------------------------
(***************************************************************************)
(* Two calls, and one payload of every kind: plain and compressed results, *)
(* a second answer to the same call, typed errors, results that do not     *)
(* decode, a result for an unknown request, and containers in which an     *)
(* error strikes before, between and after the results they carry.         *)
(***************************************************************************)
EXTENDS RpcEngine

CONSTANTS c1, c2, m1

Res(c, r)  == [kind |-> "result", req |-> c, reply |-> r]
Err(c, code, msg) ==
  [kind |-> "result", req |-> c, reply |-> "rpcError", code |-> code, msg |-> msg]
Flood      == Err(c1, 420, <<"FLOOD", "WAIT", "30">>)
Msg(b)     == [id |-> m1, body |-> b]
Box(items) == [kind |-> "container", items |-> items]
Cut        == [kind |-> "cut"]
Other      == [kind |-> "other"]
Bad        == [kind |-> "bad"]

Leaves ==
  { Res(c1, "raw"), Flood, Res(c2, "unzipped"), Res(c2, "badGzip"),
    Res(c1, "badError"), Res(NoCall, "raw"), Cut, Other, Bad }

Boxes ==
  { Box(<< >>),
    Box(<<Msg(Res(c1, "raw")), Msg(Res(c2, "unzipped"))>>),
    Box(<<Msg(Res(c2, "badGzip")), Msg(Res(c1, "raw"))>>),
    Box(<<Msg(Other), Msg(Res(c2, "unzipped")), Msg(Cut)>>) }

\* An error of each type, and messages that fall short of one.
Errors ==
  { Err(c1, 303, <<"PHONE", "MIGRATE", "2">>), Err(c1, 400, FileReferenceExpired),
    Err(c1, 303, <<"USER", "MIGRATE", "MIGRATE", "2">>), Err(c1, 420, <<"FLOOD">>) }

MCBodies ==
  Leaves \cup Errors \cup Boxes
    \cup {[kind |-> "gzip", inner |-> b] :
             b \in {Box(<<Msg(Res(c2, "badGzip")), Msg(Res(c1, "raw"))>>), Bad}}
    \cup {Box(<<Msg([kind |-> "gzip", inner |-> Bad]), Msg(Flood)>>)}

=============================================================================
