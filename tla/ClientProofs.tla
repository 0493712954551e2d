---------------------------- MODULE ClientProofs ----------------------------
(***************************************************************************)
(* Client for any number of Starts that overlap, any group and any server: *)
(* what is left open, and when both sides have the same key and salt.       *)
(***************************************************************************)
EXTENDS Client, TLAPS

Pcs == {"idle", "reqPQ", "resPQ", "factor", "reqDH", "dhParams", "setDH", "dhAnswer",
        "newConn", "connected", "failed"}

\* The part of the state that says which connections there are.
LifeTypeOK ==
  /\ pc \in [Starts -> Pcs] /\ tr \in [Starts -> {"none", "open", "closed"}]
  /\ conn \in Starts \cup {Nil} /\ quiet \in BOOLEAN /\ again \in BOOLEAN

(***************************************************************************)
(* As long as no Start has replaced the connection of another, the only    *)
(* Start that is connected is the one that Close will find; and while      *)
(* quiet lasts, nobody is on the way to become a second one.               *)
(***************************************************************************)
LifeInv ==
  /\ \A s \in Starts : /\ pc[s] = "idle" => tr[s] = "none"
                       /\ pc[s] = "failed" => tr[s] # "open"
                       /\ pc[s] = "connected" => conn # Nil /\ (again \/ conn = s)
  /\ conn # Nil => pc[conn] = "connected"
  /\ quiet => Running = {}
  /\ quiet /\ ~again => \A s \in Starts : tr[s] # "open"

LEMMA LifeInit == ClientInit => LifeTypeOK /\ LifeInv
<1> SUFFICES ASSUME ClientInit PROVE LifeTypeOK /\ LifeInv
  OBVIOUS
<1>1. pc = [s \in Starts |-> "idle"] /\ tr = [s \in Starts |-> "none"] /\ conn = Nil
  BY DEF ClientInit
<1>2. quiet = FALSE /\ again = FALSE
  BY DEF ClientInit
<1>. QED
  BY <1>1, <1>2 DEF LifeTypeOK, LifeInv, Pcs

\* The steps in which a Start only moves on, or its server answers.
Onward(s) ==
  /\ pc[s] \notin {"idle", "connected", "failed"}
  /\ \E where \in Pcs \ {"idle", "connected", "failed"} : pc' = [pc EXCEPT ![s] = where]
  /\ UNCHANGED <<tr, conn, quiet, again>>

LEMMA MostStepsAreOnward ==
  ASSUME LifeTypeOK, NEW s \in Starts,
         SendReqPQ(s) \/ RecvResPQ(s) \/ FactorRound(s) \/ FactorDone(s) \/ SendReqDH(s)
           \/ RecvDHParams(s) \/ SendSetDH(s) \/ RecvDHAnswer(s)
  PROVE  Onward(s)
<1> USE DEF Onward, Goto, Request, Answered, Pcs
<1>1. CASE SendReqPQ(s) \/ RecvResPQ(s) \/ FactorDone(s) \/ SendReqDH(s)
  BY <1>1 DEF SendReqPQ, RecvResPQ, FactorDone, SendReqDH
<1>2. CASE RecvDHParams(s) \/ SendSetDH(s) \/ RecvDHAnswer(s)
  BY <1>2 DEF RecvDHParams, SendSetDH, RecvDHAnswer
<1>3. CASE FactorRound(s)
  <2>1. pc' = [pc EXCEPT ![s] = "factor"]
    BY <1>3 DEF FactorRound, LifeTypeOK
  <2>. QED
    BY <1>3, <2>1 DEF FactorRound
<1>. QED
  BY <1>1, <1>2, <1>3

LEMMA LifeStep ==
  ASSUME LifeTypeOK, LifeInv, [ClientNext]_clientVars
  PROVE  LifeTypeOK' /\ LifeInv'
<1> USE NilAssumption DEF LifeTypeOK
<1>1. ASSUME NEW s \in Starts, Dial(s) PROVE LifeTypeOK' /\ LifeInv'
  <2>1. /\ pc[s] = "idle" /\ ~quiet' /\ quiet' \in BOOLEAN /\ UNCHANGED <<conn, again>>
        /\ \/ pc' = [pc EXCEPT ![s] = "reqPQ"] /\ tr' = [tr EXCEPT ![s] = "open"]
           \/ pc' = [pc EXCEPT ![s] = "failed"] /\ tr' = tr
    BY <1>1 DEF Dial, Goto
  <2>. QED
    BY <2>1 DEF LifeInv, Pcs
<1>2. ASSUME NEW s \in Starts, StartFails(s) \/ Misanswered(s) PROVE LifeTypeOK' /\ LifeInv'
  <2>1. /\ pc[s] \notin {"idle", "connected", "failed"} /\ pc' = [pc EXCEPT ![s] = "failed"]
        /\ tr' = [tr EXCEPT ![s] = "closed"] /\ UNCHANGED <<conn, quiet, again>>
    BY <1>2 DEF StartFails, Misanswered, Fail, Goto, Running
  <2>2. s \in Running
    BY <2>1 DEF Running
  <2>. QED
    BY <2>1, <2>2 DEF LifeInv, Pcs
<1>3. ASSUME NEW s \in Starts, Onward(s) PROVE LifeTypeOK' /\ LifeInv'
  <2>1. s \in Running
    BY <1>3 DEF Onward, Running
  <2>. QED
    BY <1>3, <2>1 DEF Onward, LifeInv
<1>4. ASSUME NEW s \in Starts, Connected(s) PROVE LifeTypeOK' /\ LifeInv'
  <2>1. /\ pc[s] = "newConn" /\ pc' = [pc EXCEPT ![s] = "connected"] /\ conn' = s
        /\ UNCHANGED <<tr, quiet>>
    BY <1>4 DEF Connected, Goto
  <2>2. again' <=> again \/ conn # Nil
    BY <1>4 DEF Connected
  <2>3. again' \in BOOLEAN
    BY <1>4 DEF Connected
  <2>4. s \in Running /\ ~quiet
    BY <2>1 DEF LifeInv, Running
  <2>. QED
    BY <2>1, <2>2, <2>3, <2>4 DEF LifeInv, Pcs
<1>5. ASSUME NEW s \in Starts, ConnectionFails(s) PROVE LifeTypeOK' /\ LifeInv'
  <2>1. /\ pc[s] = "connected" /\ tr' = [tr EXCEPT ![s] = "closed"]
        /\ UNCHANGED <<pc, conn, quiet, again>>
    BY <1>5 DEF ConnectionFails
  <2>2. Running' = Running
    BY <2>1 DEF Running
  <2>. QED
    BY <2>1, <2>2 DEF LifeInv
<1>6. CASE Close
  <2>1. UNCHANGED <<pc, conn, again>> /\ tr' = IF conn = Nil THEN tr ELSE [tr EXCEPT ![conn] = "closed"]
    BY <1>6 DEF Close
  <2>2. quiet' <=> Running = {}
    BY <1>6 DEF Close
  <2>3. quiet' \in BOOLEAN
    BY <1>6 DEF Close
  <2>4. Running' = Running
    BY <2>1 DEF Running
  <2>5. ASSUME quiet', ~again, NEW s \in Starts PROVE tr'[s] # "open"
    <3>1. pc[s] \in {"idle", "failed", "connected"}
      BY <2>2, <2>5 DEF Running
    <3>. QED
      BY <2>1, <2>5, <3>1 DEF LifeInv
  <2>6. tr' \in [Starts -> {"none", "open", "closed"}] /\ \A s \in Starts : tr'[s] \in {tr[s], "closed"}
    BY <2>1
  <2>7. \A s \in Starts : pc[s] = "idle" => tr'[s] = "none"
    BY <2>1 DEF LifeInv
  <2>. QED
    BY <2>1, <2>2, <2>3, <2>4, <2>5, <2>6, <2>7 DEF LifeInv
<1>7. ASSUME UNCHANGED <<pc, tr, conn, quiet, again>> PROVE LifeTypeOK' /\ LifeInv'
  BY <1>7 DEF LifeInv, Running
<1>. QED
  BY <1>1, <1>2, <1>3, <1>4, <1>5, <1>6, <1>7, MostStepsAreOnward
     DEF ClientNext, StartStep, Server, Damage, clientVars, startVars

\* A Start that fails leaves nothing open, and neither does a Close that comes
\* when nothing is being started and nothing has been replaced.
THEOREM ClientLeavesNothingOpen == ClientSpec => []NothingLeftOpen
<1>1. LifeInv => NothingLeftOpen
  BY DEF LifeInv, NothingLeftOpen
<1>. QED
  BY <1>1, LifeInit, LifeStep, PTL DEF ClientSpec

-----------------------------------------------------------------------------
(* The key exchange                                                        *)

\* The variables are functions on Starts, and the records have their fields.
IsFcn(f)     == f = [s \in Starts |-> f[s]]
ClientRec(r) ==
  r = [pq |-> r.pq, rho |-> r.rho, serverNonce |-> r.serverNonce, newNonce |-> r.newNonce,
       hash |-> r.hash, dhInner |-> r.dhInner, gB |-> r.gB, key |-> r.key,
       newNonceHash1 |-> r.newNonceHash1, salt |-> r.salt]
ServerRec(r) == r = [pq |-> r.pq, serverNonce |-> r.serverNonce, newNonce |-> r.newNonce,
                     a |-> r.a, key |-> r.key, salt |-> r.salt]

ShapeInv ==
  /\ IsFcn(cl) /\ IsFcn(sv) /\ IsFcn(up) /\ IsFcn(down)
  /\ \A s \in Starts : ClientRec(cl[s]) /\ ServerRec(sv[s])

\* One message is in flight at a time, and only while the client waits.
WireInv(s) ==
  /\ pc[s] \in {"idle", "reqPQ", "factor", "reqDH", "setDH", "newConn", "connected"} =>
       up[s].is = "nothing" /\ down[s].is = "nothing"
  /\ up[s].is # "nothing" => down[s].is = "nothing"
  /\ pc[s] = "resPQ"    => up[s].is \in {"nothing", "req_pq_multi"}
  /\ pc[s] = "dhParams" => up[s].is \in {"nothing", "req_DH_params"}
  /\ pc[s] = "dhAnswer" => up[s].is \in {"nothing", "set_client_DH_params"}

\* The nonces: the server goes on only if the client has its nonce right, and
\* takes over the client's.
NonceInv(s) ==
  /\ pc[s] \in {"dhParams", "setDH", "dhAnswer", "newConn", "connected"} =>
       cl[s].newNonce = NewNonce(s)
  /\ pc[s] = "dhParams" =>
       /\ up[s].is = "req_DH_params" => /\ up[s].inner.newNonce = cl[s].newNonce
                                        /\ up[s].serverNonce = cl[s].serverNonce
       /\ down[s].is = "server_DH_params_ok" => /\ sv[s].newNonce = cl[s].newNonce
                                                /\ sv[s].serverNonce = cl[s].serverNonce
  /\ pc[s] \in {"setDH", "dhAnswer"} =>
       sv[s].newNonce = cl[s].newNonce /\ sv[s].serverNonce = cl[s].serverNonce

\* The data as the server encrypted them, and what new_nonce_hash1 may be.
Genuine(a) == ServerDHInnerData(Gen, Prime, Exp(Gen, a, Prime))
GenHashes(newNonce, key) == {NewNonceHash1(newNonce, key), NewNonceHash1(Nil, 0)}

(***************************************************************************)
(* The numbers: a stays with the server, b with the client.  The hash is   *)
(* that of the server's data, whatever the data have become.  The sides    *)
(* compute the same key if the client has computed with the server's data. *)
(***************************************************************************)
KeyInv(s) ==
  /\ pc[s] = "dhParams" /\ down[s].is = "server_DH_params_ok" =>
       sv[s].a \in Exps /\ down[s].hash = SHA1(Genuine(sv[s].a))
  /\ pc[s] \in {"setDH", "dhAnswer", "newConn", "connected"} =>
       sv[s].a \in Exps /\ cl[s].hash = SHA1(Genuine(sv[s].a))
  /\ pc[s] \in {"setDH", "dhAnswer"} /\ cl[s].dhInner = Genuine(sv[s].a) =>
       \E b \in Exps : /\ cl[s].gB = Exp(Gen, b, Prime)
                       /\ cl[s].key = Exp(Exp(Gen, sv[s].a, Prime), b, Prime)
  /\ pc[s] = "dhAnswer" =>
       /\ up[s].is = "set_client_DH_params" => up[s].inner.gB = cl[s].gB
       /\ down[s].is = "dh_gen_ok" =>
            /\ sv[s].salt = Salt(sv[s].newNonce, sv[s].serverNonce)
            /\ down[s].newNonceHash1 \in GenHashes(cl[s].newNonce, sv[s].key)
            /\ cl[s].dhInner = Genuine(sv[s].a) => cl[s].key = sv[s].key
  /\ pc[s] \in {"newConn", "connected"} =>
       /\ cl[s].salt = sv[s].salt
       /\ cl[s].newNonceHash1 \in GenHashes(cl[s].newNonce, sv[s].key)
       /\ cl[s].dhInner = Genuine(sv[s].a) => cl[s].key = sv[s].key

ExchangeInv == ShapeInv /\ \A s \in Starts : WireInv(s) /\ NonceInv(s) /\ KeyInv(s)

LEMMA ExchangeInit == ClientInit => ExchangeInv
<1> SUFFICES ASSUME ClientInit PROVE ExchangeInv
  OBVIOUS
<1>1. /\ pc = [s \in Starts |-> "idle"] /\ cl = [s \in Starts |-> NoClient]
      /\ sv = [s \in Starts |-> NoServer]
      /\ up = [s \in Starts |-> NoMsg] /\ down = [s \in Starts |-> NoMsg]
  BY DEF ClientInit
<1>2. ShapeInv
  BY <1>1 DEF ShapeInv, IsFcn, ClientRec, ServerRec, NoClient, NoServer
<1>3. NoMsg.is = "nothing"
  BY DEF NoMsg
<1>. QED
  BY <1>1, <1>2, <1>3 DEF ExchangeInv, WireInv, NonceInv, KeyInv

\* A step of one Start, of its server or of its connection says nothing about
\* the exchange of another.
LEMMA Apart ==
  ASSUME NEW s, NEW w \in Starts, w # s,
         pc'[w] = pc[w] /\ cl'[w] = cl[w] /\ sv'[w] = sv[w] /\ up'[w] = up[w] /\ down'[w] = down[w],
         WireInv(w), NonceInv(w), KeyInv(w)
  PROVE  WireInv(w)' /\ NonceInv(w)' /\ KeyInv(w)'
BY DEF WireInv, NonceInv, KeyInv

\* Replacing one field of a record.
LEMMA ReplaceField ==
  ASSUME NEW c, ClientRec(c), NEW x
  PROVE  /\ [c EXCEPT !.pq = x] =
              [pq |-> x, rho |-> c.rho, serverNonce |-> c.serverNonce, newNonce |-> c.newNonce,
               hash |-> c.hash, dhInner |-> c.dhInner, gB |-> c.gB, key |-> c.key,
               newNonceHash1 |-> c.newNonceHash1, salt |-> c.salt]
         /\ [c EXCEPT !.rho = x] =
              [pq |-> c.pq, rho |-> x, serverNonce |-> c.serverNonce, newNonce |-> c.newNonce,
               hash |-> c.hash, dhInner |-> c.dhInner, gB |-> c.gB, key |-> c.key,
               newNonceHash1 |-> c.newNonceHash1, salt |-> c.salt]
         /\ [c EXCEPT !.serverNonce = x] =
              [pq |-> c.pq, rho |-> c.rho, serverNonce |-> x, newNonce |-> c.newNonce,
               hash |-> c.hash, dhInner |-> c.dhInner, gB |-> c.gB, key |-> c.key,
               newNonceHash1 |-> c.newNonceHash1, salt |-> c.salt]
         /\ [c EXCEPT !.newNonce = x] =
              [pq |-> c.pq, rho |-> c.rho, serverNonce |-> c.serverNonce, newNonce |-> x,
               hash |-> c.hash, dhInner |-> c.dhInner, gB |-> c.gB, key |-> c.key,
               newNonceHash1 |-> c.newNonceHash1, salt |-> c.salt]
         /\ [c EXCEPT !.hash = x] =
              [pq |-> c.pq, rho |-> c.rho, serverNonce |-> c.serverNonce, newNonce |-> c.newNonce,
               hash |-> x, dhInner |-> c.dhInner, gB |-> c.gB, key |-> c.key,
               newNonceHash1 |-> c.newNonceHash1, salt |-> c.salt]
         /\ [c EXCEPT !.dhInner = x] =
              [pq |-> c.pq, rho |-> c.rho, serverNonce |-> c.serverNonce, newNonce |-> c.newNonce,
               hash |-> c.hash, dhInner |-> x, gB |-> c.gB, key |-> c.key,
               newNonceHash1 |-> c.newNonceHash1, salt |-> c.salt]
         /\ [c EXCEPT !.gB = x] =
              [pq |-> c.pq, rho |-> c.rho, serverNonce |-> c.serverNonce, newNonce |-> c.newNonce,
               hash |-> c.hash, dhInner |-> c.dhInner, gB |-> x, key |-> c.key,
               newNonceHash1 |-> c.newNonceHash1, salt |-> c.salt]
         /\ [c EXCEPT !.key = x] =
              [pq |-> c.pq, rho |-> c.rho, serverNonce |-> c.serverNonce, newNonce |-> c.newNonce,
               hash |-> c.hash, dhInner |-> c.dhInner, gB |-> c.gB, key |-> x,
               newNonceHash1 |-> c.newNonceHash1, salt |-> c.salt]
         /\ [c EXCEPT !.newNonceHash1 = x] =
              [pq |-> c.pq, rho |-> c.rho, serverNonce |-> c.serverNonce, newNonce |-> c.newNonce,
               hash |-> c.hash, dhInner |-> c.dhInner, gB |-> c.gB, key |-> c.key,
               newNonceHash1 |-> x, salt |-> c.salt]
         /\ [c EXCEPT !.salt = x] =
              [pq |-> c.pq, rho |-> c.rho, serverNonce |-> c.serverNonce, newNonce |-> c.newNonce,
               hash |-> c.hash, dhInner |-> c.dhInner, gB |-> c.gB, key |-> c.key,
               newNonceHash1 |-> c.newNonceHash1, salt |-> x]
<1>1. c = [pq |-> c.pq, rho |-> c.rho, serverNonce |-> c.serverNonce, newNonce |-> c.newNonce,
           hash |-> c.hash, dhInner |-> c.dhInner, gB |-> c.gB, key |-> c.key,
           newNonceHash1 |-> c.newNonceHash1, salt |-> c.salt]
  BY DEF ClientRec
<1>. QED
  BY <1>1

LEMMA ReplaceServerField ==
  ASSUME NEW c, ServerRec(c), NEW x
  PROVE  /\ [c EXCEPT !.pq = x] =
              [pq |-> x, serverNonce |-> c.serverNonce, newNonce |-> c.newNonce,
               a |-> c.a, key |-> c.key, salt |-> c.salt]
         /\ [c EXCEPT !.serverNonce = x] =
              [pq |-> c.pq, serverNonce |-> x, newNonce |-> c.newNonce,
               a |-> c.a, key |-> c.key, salt |-> c.salt]
         /\ [c EXCEPT !.newNonce = x] =
              [pq |-> c.pq, serverNonce |-> c.serverNonce, newNonce |-> x,
               a |-> c.a, key |-> c.key, salt |-> c.salt]
         /\ [c EXCEPT !.a = x] =
              [pq |-> c.pq, serverNonce |-> c.serverNonce, newNonce |-> c.newNonce,
               a |-> x, key |-> c.key, salt |-> c.salt]
         /\ [c EXCEPT !.key = x] =
              [pq |-> c.pq, serverNonce |-> c.serverNonce, newNonce |-> c.newNonce,
               a |-> c.a, key |-> x, salt |-> c.salt]
         /\ [c EXCEPT !.salt = x] =
              [pq |-> c.pq, serverNonce |-> c.serverNonce, newNonce |-> c.newNonce,
               a |-> c.a, key |-> c.key, salt |-> x]
<1>1. c = [pq |-> c.pq, serverNonce |-> c.serverNonce, newNonce |-> c.newNonce,
           a |-> c.a, key |-> c.key, salt |-> c.salt]
  BY DEF ServerRec
<1>. QED
  BY <1>1

\* The client's side of the exchange.
LEMMA ClientSide ==
  ASSUME LifeTypeOK, ExchangeInv, NEW s \in Starts,
         Dial(s) \/ StartStep(s) \/ ConnectionFails(s)
  PROVE  ShapeInv' /\ WireInv(s)' /\ NonceInv(s)' /\ KeyInv(s)'
<1> USE DEF LifeTypeOK, Goto, Request, Answered, Fail
<1>0. ShapeInv /\ WireInv(s) /\ NonceInv(s) /\ KeyInv(s)
  BY DEF ExchangeInv
<1>m. NoMsg.is = "nothing"
  BY DEF NoMsg
<1>1. CASE Dial(s) \/ StartFails(s) \/ Misanswered(s)
  <2>1. UNCHANGED <<cl, sv, up, down>> /\ pc'[s] \in {"reqPQ", "failed"}
        /\ (pc'[s] = "reqPQ" => pc[s] = "idle")
    BY <1>1 DEF Dial, StartFails, Misanswered
  <2>. QED
    BY <1>0, <2>1 DEF ShapeInv, WireInv, NonceInv, KeyInv
<1>2. CASE FactorDone(s)
  <2>1. pc[s] = "factor" /\ pc'[s] = "reqDH" /\ UNCHANGED <<cl, sv, up, down>>
    BY <1>2 DEF FactorDone
  <2>. QED
    BY <1>0, <2>1 DEF ShapeInv, WireInv, NonceInv, KeyInv
<1>3. CASE Connected(s) \/ ConnectionFails(s)
  <2>1. /\ pc[s] \in {"newConn", "connected"} /\ pc'[s] = "connected"
        /\ UNCHANGED <<cl, sv, up, down>>
    BY <1>3 DEF Connected, ConnectionFails
  <2>. QED
    BY <1>0, <2>1 DEF ShapeInv, WireInv, NonceInv, KeyInv
<1>4. CASE SendReqPQ(s)
  <2>1. /\ pc[s] = "reqPQ" /\ pc'[s] = "resPQ" /\ UNCHANGED <<cl, sv, down>>
        /\ up' = [up EXCEPT ![s] = ReqPqMulti(s)]
    BY <1>4 DEF SendReqPQ
  <2>2. IsFcn(up') /\ up'[s] = ReqPqMulti(s)
    BY <1>0, <2>1 DEF ShapeInv, IsFcn
  <2>3. up'[s].is = "req_pq_multi"
    BY <2>2 DEF ReqPqMulti
  <2>. QED
    BY <1>0, <2>1, <2>2, <2>3 DEF ShapeInv, WireInv, NonceInv, KeyInv
<1>5. CASE RecvResPQ(s)
  <2>1. /\ pc[s] = "resPQ" /\ pc'[s] = "factor" /\ UNCHANGED <<sv, up>>
        /\ down[s].is = "resPQ" /\ down' = [down EXCEPT ![s] = NoMsg]
        /\ cl' = [cl EXCEPT ![s].pq = ParsePQ(down[s].pq), ![s].serverNonce = down[s].serverNonce]
    BY <1>5 DEF RecvResPQ
  <2>2. IsFcn(down') /\ down'[s] = NoMsg
    BY <1>0, <2>1 DEF ShapeInv, IsFcn
  <2>3. IsFcn(cl') /\ \A w \in Starts : ClientRec(cl'[w])
    <3>1. PICK p, n, d, r : /\ n = down[s].serverNonce
                            /\ d = [cl[s] EXCEPT !.pq = p] /\ r = [d EXCEPT !.serverNonce = n]
                            /\ cl' = [cl EXCEPT ![s].pq = p, ![s].serverNonce = n]
      BY <2>1
    <3>2. /\ IsFcn(cl') /\ cl'[s] = r
          /\ \A w \in Starts : w # s => cl'[w] = cl[w]
      BY <1>0, <3>1 DEF ShapeInv, IsFcn
    <3>3. ClientRec(d)
      <4>1. PICK c : c = cl[s] /\ ClientRec(c)
        BY <1>0 DEF ShapeInv
      <4>2. d = [c EXCEPT !.pq = p]
        BY <3>1, <4>1
      <4>. QED
        BY <4>1, <4>2, ReplaceField DEF ClientRec
    <3>4. ClientRec(r)
      BY <3>1, <3>3, ReplaceField DEF ClientRec
    <3>. QED
      BY <1>0, <3>2, <3>4 DEF ShapeInv
  <2>. QED
    BY <1>0, <1>m, <2>1, <2>2, <2>3 DEF ShapeInv, WireInv, NonceInv, KeyInv
<1>6. CASE FactorRound(s)
  <2>1. /\ pc[s] = "factor" /\ UNCHANGED <<pc, sv, up, down>>
        /\ cl' = [cl EXCEPT ![s].rho = RhoRound(cl[s].pq, cl[s].rho)]
    BY <1>6 DEF FactorRound
  <2>2. IsFcn(cl') /\ \A w \in Starts : ClientRec(cl'[w])
    <3>1. PICK p, r : r = [cl[s] EXCEPT !.rho = p] /\ cl' = [cl EXCEPT ![s] = r]
      BY <2>1
    <3>2. /\ IsFcn(cl') /\ cl'[s] = r
          /\ \A w \in Starts : w # s => cl'[w] = cl[w]
      BY <1>0, <3>1 DEF ShapeInv, IsFcn
    <3>3. ClientRec(r)
      <4>1. PICK c : c = cl[s] /\ ClientRec(c)
        BY <1>0 DEF ShapeInv
      <4>2. r = [c EXCEPT !.rho = p]
        BY <3>1, <4>1
      <4>. QED
        BY <4>1, <4>2, ReplaceField DEF ClientRec
    <3>. QED
      BY <1>0, <3>2, <3>3 DEF ShapeInv
  <2>. QED
    BY <1>0, <2>1, <2>2 DEF ShapeInv, WireInv, NonceInv, KeyInv
<1>7. CASE SendReqDH(s)
  <2>1. PICK f, i : /\ i = PQInnerDataDc(cl[s].pq, NewNonce(s))
                    /\ up' = [up EXCEPT ![s] = ReqDHParams(cl[s].serverNonce, f, i)]
    BY <1>7 DEF SendReqDH
  <2>2. /\ pc[s] = "reqDH" /\ pc'[s] = "dhParams" /\ UNCHANGED <<sv, down>>
        /\ cl' = [cl EXCEPT ![s].newNonce = NewNonce(s)]
    BY <1>7 DEF SendReqDH
  <2>3. IsFcn(up') /\ up'[s] = ReqDHParams(cl[s].serverNonce, f, i)
    BY <1>0, <2>1 DEF ShapeInv, IsFcn
  <2>4. up'[s].is = "req_DH_params" /\ up'[s].inner.newNonce = NewNonce(s)
        /\ up'[s].serverNonce = cl[s].serverNonce
    BY <2>1, <2>3 DEF ReqDHParams, PQInnerDataDc
  <2>5. /\ IsFcn(cl') /\ cl'[s].serverNonce = cl[s].serverNonce /\ cl'[s].newNonce = NewNonce(s)
        /\ \A w \in Starts : ClientRec(cl'[w])
    <3>1. PICK c, r : c = cl[s] /\ ClientRec(c) /\ r = [c EXCEPT !.newNonce = NewNonce(s)]
      BY <1>0 DEF ShapeInv
    <3>2. ClientRec(r) /\ r.newNonce = NewNonce(s) /\ r.serverNonce = c.serverNonce
      BY <3>1, ReplaceField DEF ClientRec
    <3>3. /\ IsFcn(cl') /\ cl'[s] = r
          /\ \A w \in Starts : w # s => cl'[w] = cl[w]
      BY <1>0, <2>2, <3>1 DEF ShapeInv, IsFcn
    <3>. QED
      BY <1>0, <3>1, <3>2, <3>3 DEF ShapeInv
  <2>. QED
    BY <1>0, <2>2, <2>3, <2>4, <2>5 DEF ShapeInv, WireInv, NonceInv, KeyInv
<1>8. CASE RecvDHParams(s)
  <2>1. PICK b \in Exps, i \in {down[s].inner}, h \in {down[s].hash} :
          cl' = [cl EXCEPT ![s].hash = h, ![s].dhInner = i,
                           ![s].gB = Exp(i.g, b, i.dhPrime), ![s].key = Exp(i.gA, b, i.dhPrime)]
    BY <1>8 DEF RecvDHParams
  <2>2. /\ pc[s] = "dhParams" /\ pc'[s] = "setDH" /\ UNCHANGED <<sv, up>>
        /\ down[s].is = "server_DH_params_ok" /\ down' = [down EXCEPT ![s] = NoMsg]
    BY <1>8 DEF RecvDHParams
  <2>3. IsFcn(down') /\ down'[s] = NoMsg
    BY <1>0, <2>2 DEF ShapeInv, IsFcn
  <2>4. sv[s].a \in Exps /\ h = SHA1(Genuine(sv[s].a))
    BY <1>0, <2>1, <2>2 DEF KeyInv
  <2>5. ASSUME i = Genuine(sv[s].a)
        PROVE  i.g = Gen /\ i.dhPrime = Prime /\ i.gA = Exp(Gen, sv[s].a, Prime)
    BY <2>5 DEF Genuine, ServerDHInnerData
  <2>6. /\ IsFcn(cl') /\ cl'[s].serverNonce = cl[s].serverNonce
        /\ cl'[s].newNonce = cl[s].newNonce /\ cl'[s].hash = h /\ cl'[s].dhInner = i
        /\ cl'[s].gB = Exp(i.g, b, i.dhPrime) /\ cl'[s].key = Exp(i.gA, b, i.dhPrime)
        /\ \A w \in Starts : ClientRec(cl'[w])
    <3>1. PICK x, y, d1, d2, d3, r :
            /\ x = Exp(i.g, b, i.dhPrime) /\ y = Exp(i.gA, b, i.dhPrime)
            /\ d1 = [cl[s] EXCEPT !.hash = h] /\ d2 = [d1 EXCEPT !.dhInner = i]
            /\ d3 = [d2 EXCEPT !.gB = x] /\ r = [d3 EXCEPT !.key = y]
            /\ cl' = [cl EXCEPT ![s].hash = h, ![s].dhInner = i, ![s].gB = x, ![s].key = y]
      BY <2>1
    <3>2. /\ IsFcn(cl') /\ cl'[s] = r
          /\ \A w \in Starts : w # s => cl'[w] = cl[w]
      BY <1>0, <3>1 DEF ShapeInv, IsFcn
    <3>3. PICK c : c = cl[s] /\ ClientRec(c)
      BY <1>0 DEF ShapeInv
    <3>4. /\ ClientRec(d1) /\ d1.hash = h
          /\ d1.serverNonce = c.serverNonce /\ d1.newNonce = c.newNonce
      BY <3>1, <3>3, ReplaceField DEF ClientRec
    <3>5. /\ ClientRec(d2) /\ d2.hash = h /\ d2.dhInner = i
          /\ d2.serverNonce = c.serverNonce /\ d2.newNonce = c.newNonce
      BY <3>1, <3>4, ReplaceField DEF ClientRec
    <3>6. /\ ClientRec(d3) /\ d3.hash = h /\ d3.dhInner = i /\ d3.gB = x
          /\ d3.serverNonce = c.serverNonce /\ d3.newNonce = c.newNonce
      BY <3>1, <3>5, ReplaceField DEF ClientRec
    <3>7. /\ ClientRec(r) /\ r.hash = h /\ r.dhInner = i /\ r.gB = x /\ r.key = y
          /\ r.serverNonce = c.serverNonce /\ r.newNonce = c.newNonce
      BY <3>1, <3>6, ReplaceField DEF ClientRec
    <3>. QED
      BY <1>0, <3>1, <3>2, <3>3, <3>7 DEF ShapeInv
  <2>7. cl'[s].dhInner = Genuine(sv[s].a) =>
          /\ cl'[s].gB = Exp(Gen, b, Prime)
          /\ cl'[s].key = Exp(Exp(Gen, sv[s].a, Prime), b, Prime)
    BY <2>5, <2>6
  <2>8. up[s].is = "nothing"
    BY <1>0, <2>2 DEF WireInv
  <2>9. ShapeInv' /\ WireInv(s)'
    BY <1>0, <1>m, <2>2, <2>3, <2>6, <2>8 DEF ShapeInv, WireInv
  <2>10. NonceInv(s)'
    BY <1>0, <2>2, <2>6 DEF NonceInv
  <2>11. KeyInv(s)'
    BY <2>2, <2>4, <2>6, <2>7 DEF KeyInv
  <2>. QED
    BY <2>9, <2>10, <2>11
<1>9. CASE SendSetDH(s)
  <2>1. /\ pc[s] = "setDH" /\ pc'[s] = "dhAnswer" /\ UNCHANGED <<cl, sv, down>>
        /\ up' = [up EXCEPT ![s] = SetClientDHParams(ClientDHInnerData(cl[s].gB))]
    BY <1>9 DEF SendSetDH
  <2>2. IsFcn(up') /\ up'[s] = SetClientDHParams(ClientDHInnerData(cl[s].gB))
    BY <1>0, <2>1 DEF ShapeInv, IsFcn
  <2>3. up'[s].is = "set_client_DH_params" /\ up'[s].inner.gB = cl[s].gB
    BY <2>2 DEF SetClientDHParams, ClientDHInnerData
  <2>4. down[s].is = "nothing"
    BY <1>0, <2>1 DEF WireInv
  <2>5. ShapeInv' /\ WireInv(s)'
    BY <1>0, <2>1, <2>2, <2>3, <2>4 DEF ShapeInv, WireInv
  <2>6. NonceInv(s)' /\ KeyInv(s)'
    BY <1>0, <2>1, <2>3, <2>4 DEF NonceInv, KeyInv
  <2>. QED
    BY <2>5, <2>6
<1>10. CASE RecvDHAnswer(s)
  <2>1. /\ pc[s] = "dhAnswer" /\ pc'[s] = "newConn" /\ UNCHANGED <<sv, up>>
        /\ down[s].is = "dh_gen_ok" /\ down' = [down EXCEPT ![s] = NoMsg]
    BY <1>10 DEF RecvDHAnswer
  <2>2. IsFcn(down') /\ down'[s] = NoMsg
    BY <1>0, <2>1 DEF ShapeInv, IsFcn
  <2>3. /\ IsFcn(cl') /\ cl'[s].salt = Salt(cl[s].newNonce, cl[s].serverNonce)
        /\ cl'[s].newNonceHash1 = down[s].newNonceHash1 /\ cl'[s].key = cl[s].key
        /\ cl'[s].hash = cl[s].hash /\ cl'[s].dhInner = cl[s].dhInner
        /\ cl'[s].newNonce = cl[s].newNonce /\ \A w \in Starts : ClientRec(cl'[w])
    <3>1. PICK c, t, h, d, r :
            /\ t = Salt(cl[s].newNonce, cl[s].serverNonce) /\ h = down[s].newNonceHash1
            /\ c = cl[s] /\ ClientRec(c)
            /\ d = [c EXCEPT !.newNonceHash1 = h] /\ r = [d EXCEPT !.salt = t]
            /\ cl' = [cl EXCEPT ![s].newNonceHash1 = h, ![s].salt = t]
      BY <1>0, <1>10 DEF ShapeInv, RecvDHAnswer
    <3>2. /\ ClientRec(d) /\ d.newNonceHash1 = h /\ d.key = c.key /\ d.hash = c.hash
          /\ d.dhInner = c.dhInner /\ d.newNonce = c.newNonce
      BY <3>1, ReplaceField DEF ClientRec
    <3>3. /\ ClientRec(r) /\ r.salt = t /\ r.newNonceHash1 = h /\ r.key = c.key
          /\ r.hash = c.hash /\ r.dhInner = c.dhInner /\ r.newNonce = c.newNonce
      BY <3>1, <3>2, ReplaceField DEF ClientRec
    <3>4. /\ IsFcn(cl') /\ cl'[s] = r
          /\ \A w \in Starts : w # s => cl'[w] = cl[w]
      BY <1>0, <3>1 DEF ShapeInv, IsFcn
    <3>. QED
      BY <1>0, <3>1, <3>3, <3>4 DEF ShapeInv
  <2>4. sv[s].salt = Salt(cl[s].newNonce, cl[s].serverNonce)
    BY <1>0, <2>1 DEF NonceInv, KeyInv
  <2>5. up[s].is = "nothing"
    BY <1>0, <2>1 DEF WireInv
  <2>6. ShapeInv' /\ WireInv(s)' /\ NonceInv(s)'
    BY <1>0, <1>m, <2>1, <2>2, <2>3, <2>5 DEF ShapeInv, WireInv, NonceInv
  <2>7. KeyInv(s)'
    BY <1>0, <2>1, <2>3, <2>4 DEF KeyInv
  <2>. QED
    BY <2>6, <2>7
<1>. QED
  BY <1>1, <1>2, <1>3, <1>4, <1>5, <1>6, <1>7, <1>8, <1>9, <1>10 DEF StartStep

\* The server's side, while the transport is open.
LEMMA ServerSide ==
  ASSUME LifeTypeOK, LifeInv, ExchangeInv, NEW s \in Starts, Server(s)
  PROVE  ShapeInv' /\ WireInv(s)' /\ NonceInv(s)' /\ KeyInv(s)'
<1> USE DEF Reply
<1>0. ShapeInv /\ WireInv(s) /\ NonceInv(s) /\ KeyInv(s) /\ UNCHANGED <<pc, cl>>
  BY DEF ExchangeInv, Server
<1>1. /\ up[s].is # "nothing" /\ down[s].is = "nothing"
      /\ pc[s] \in {"resPQ", "dhParams", "dhAnswer"}
  <2>1. up[s].is # "nothing"
    BY DEF Server, ServerResPQ, ServerDHParams, ServerDHAnswer, ServerOther
  <2>2. pc[s] # "failed" /\ pc[s] \in Pcs
    BY DEF Server, LifeInv, LifeTypeOK
  <2>. QED
    BY <1>0, <2>1, <2>2 DEF WireInv, Pcs
<1>2. PICK m : /\ up' = [up EXCEPT ![s] = NoMsg] /\ down' = [down EXCEPT ![s] = m]
  BY DEF Server, ServerResPQ, ServerDHParams, ServerDHAnswer, ServerOther
<1>3. /\ IsFcn(up') /\ IsFcn(down') /\ up'[s].is = "nothing" /\ down'[s] = m
  <2>1. IsFcn(up') /\ up'[s] = NoMsg
    BY <1>0, <1>2 DEF ShapeInv, IsFcn
  <2>2. IsFcn(down') /\ down'[s] = m
    BY <1>0, <1>2 DEF ShapeInv, IsFcn
  <2>. QED
    BY <2>1, <2>2 DEF NoMsg
<1>4. WireInv(s)'
  BY <1>0, <1>1, <1>3 DEF WireInv
<1>5. ASSUME IsFcn(sv'), \A w \in Starts : ServerRec(sv'[w]) PROVE ShapeInv'
  BY <1>0, <1>3, <1>5 DEF ShapeInv
<1>6. CASE ServerResPQ(s)
  <2>1. PICK pq, z :
          /\ sv' = [sv EXCEPT ![s].pq = pq, ![s].serverNonce = ServerNonce(s)]
          /\ down' = [down EXCEPT ![s] = ResPQ(up[s].nonce, ServerNonce(s), z)]
    BY <1>6 DEF ServerResPQ
  <2>2. pc[s] = "resPQ"
    BY <1>0, <1>1, <1>6 DEF ServerResPQ, WireInv
  <2>3. down'[s] = ResPQ(up[s].nonce, ServerNonce(s), z)
    BY <1>0, <2>1 DEF ShapeInv, IsFcn
  <2>4. down'[s].is = "resPQ"
    BY <2>3 DEF ResPQ
  <2>5. IsFcn(sv') /\ \A w \in Starts : ServerRec(sv'[w])
    <3>1. PICK n, d, r : /\ n = ServerNonce(s)
                         /\ d = [sv[s] EXCEPT !.pq = pq] /\ r = [d EXCEPT !.serverNonce = n]
      OBVIOUS
    <3>2. ServerRec(d)
      BY <1>0, <3>1, ReplaceServerField DEF ShapeInv, ServerRec
    <3>3. ServerRec(r)
      BY <3>1, <3>2, ReplaceServerField DEF ServerRec
    <3>4. /\ IsFcn(sv') /\ sv'[s] = r
          /\ \A w \in Starts : w # s => sv'[w] = sv[w]
      BY <1>0, <2>1, <3>1 DEF ShapeInv, IsFcn
    <3>. QED
      BY <1>0, <3>1, <3>2, <3>3, <3>4 DEF ShapeInv
  <2>6. NonceInv(s)' /\ KeyInv(s)'
    BY <1>0, <1>3, <2>2, <2>4, <2>5 DEF NonceInv, KeyInv
  <2>. QED
    BY <1>4, <1>5, <2>5, <2>6
<1>7. CASE ServerDHParams(s)
  <2>1. PICK a \in Exps :
          /\ sv' = [sv EXCEPT ![s].a = a, ![s].newNonce = up[s].inner.newNonce]
          /\ down' = [down EXCEPT ![s] =
                        ServerDHParamsOk(s, sv[s].serverNonce,
                                         deriveTmpAESKeys(up[s].inner.newNonce, sv[s].serverNonce),
                                         SHA1(Genuine(a)), Genuine(a))]
    BY <1>7 DEF ServerDHParams, Genuine
  <2>2. /\ pc[s] = "dhParams" /\ up[s].is = "req_DH_params"
        /\ up[s].serverNonce = sv[s].serverNonce
    BY <1>0, <1>1, <1>7 DEF ServerDHParams, WireInv
  <2>3. PICK k : down'[s] = ServerDHParamsOk(s, sv[s].serverNonce, k, SHA1(Genuine(a)), Genuine(a))
    BY <1>0, <2>1 DEF ShapeInv, IsFcn
  <2>4. down'[s].hash = SHA1(Genuine(a))
    BY <2>3 DEF ServerDHParamsOk
  <2>5. /\ IsFcn(sv') /\ sv'[s].a = a /\ sv'[s].newNonce = up[s].inner.newNonce
        /\ sv'[s].serverNonce = sv[s].serverNonce /\ \A w \in Starts : ServerRec(sv'[w])
    <3>1. PICK n, d, r : /\ n = up[s].inner.newNonce
                         /\ d = [sv[s] EXCEPT !.a = a] /\ r = [d EXCEPT !.newNonce = n]
      OBVIOUS
    <3>2. ServerRec(d) /\ d.a = a /\ d.serverNonce = sv[s].serverNonce
      <4>1. PICK c : c = sv[s] /\ ServerRec(c)
        BY <1>0 DEF ShapeInv
      <4>2. d = [c EXCEPT !.a = a]
        BY <3>1, <4>1
      <4>. QED
        BY <4>1, <4>2, ReplaceServerField DEF ServerRec
    <3>3. ServerRec(r) /\ r.a = d.a /\ r.newNonce = n /\ r.serverNonce = d.serverNonce
      BY <3>1, <3>2, ReplaceServerField DEF ServerRec
    <3>4. /\ IsFcn(sv') /\ sv'[s] = r
          /\ \A w \in Starts : w # s => sv'[w] = sv[w]
      BY <1>0, <2>1, <3>1 DEF ShapeInv, IsFcn
    <3>. QED
      BY <1>0, <3>1, <3>2, <3>3, <3>4 DEF ShapeInv
  <2>6. NonceInv(s)'
    BY <1>0, <1>3, <2>2, <2>5 DEF NonceInv
  <2>7. KeyInv(s)'
    BY <1>0, <2>2, <2>4, <2>5 DEF KeyInv
  <2>. QED
    BY <1>4, <1>5, <2>5, <2>6, <2>7
<1>8. CASE ServerDHAnswer(s)
  <2>1. /\ sv' = [sv EXCEPT ![s].key = Exp(up[s].inner.gB, sv[s].a, Prime),
                            ![s].salt = Salt(sv[s].newNonce, sv[s].serverNonce)]
        /\ up[s].is = "set_client_DH_params"
        /\ down' = [down EXCEPT ![s] =
                      DhGenOk(s, sv[s].serverNonce,
                              NewNonceHash1(sv[s].newNonce, Exp(up[s].inner.gB, sv[s].a, Prime)))]
    BY <1>8 DEF ServerDHAnswer
  <2>2. pc[s] = "dhAnswer"
    BY <1>0, <1>1, <2>1 DEF WireInv
  <2>3. /\ IsFcn(sv') /\ sv'[s].key = Exp(up[s].inner.gB, sv[s].a, Prime)
        /\ sv'[s].salt = Salt(sv[s].newNonce, sv[s].serverNonce) /\ sv'[s].a = sv[s].a
        /\ sv'[s].newNonce = sv[s].newNonce /\ sv'[s].serverNonce = sv[s].serverNonce
        /\ \A w \in Starts : ServerRec(sv'[w])
    <3>1. PICK k, t, d, r : /\ k = Exp(up[s].inner.gB, sv[s].a, Prime)
                            /\ t = Salt(sv[s].newNonce, sv[s].serverNonce)
                            /\ d = [sv[s] EXCEPT !.key = k] /\ r = [d EXCEPT !.salt = t]
      OBVIOUS
    <3>2. /\ ServerRec(d) /\ d.key = k /\ d.a = sv[s].a
          /\ d.newNonce = sv[s].newNonce /\ d.serverNonce = sv[s].serverNonce
      <4>1. PICK c : c = sv[s] /\ ServerRec(c)
        BY <1>0 DEF ShapeInv
      <4>2. d = [c EXCEPT !.key = k]
        BY <3>1, <4>1
      <4>. QED
        BY <4>1, <4>2, ReplaceServerField DEF ServerRec
    <3>3. /\ ServerRec(r) /\ r.key = d.key /\ r.salt = t /\ r.a = d.a
          /\ r.newNonce = d.newNonce /\ r.serverNonce = d.serverNonce
      BY <3>1, <3>2, ReplaceServerField DEF ServerRec
    <3>4. /\ IsFcn(sv') /\ sv'[s] = r
          /\ \A w \in Starts : w # s => sv'[w] = sv[w]
      BY <1>0, <2>1, <3>1 DEF ShapeInv, IsFcn
    <3>. QED
      BY <1>0, <3>1, <3>2, <3>3, <3>4 DEF ShapeInv
  <2>4. cl[s].dhInner = Genuine(sv[s].a) => sv'[s].key = cl[s].key
    <3>. HAVE cl[s].dhInner = Genuine(sv[s].a)
    <3>1. PICK b \in Exps : /\ cl[s].gB = Exp(Gen, b, Prime)
                            /\ cl[s].key = Exp(Exp(Gen, sv[s].a, Prime), b, Prime)
      BY <1>0, <2>2 DEF KeyInv
    <3>2. up[s].inner.gB = cl[s].gB /\ sv[s].a \in Exps
      BY <1>0, <2>1, <2>2 DEF KeyInv
    <3>. QED
      BY <2>3, <3>1, <3>2, PowersAssumption
  <2>5. down'[s].newNonceHash1 = NewNonceHash1(cl[s].newNonce, sv'[s].key)
    <3>1. down'[s] = DhGenOk(s, sv[s].serverNonce, NewNonceHash1(sv[s].newNonce, sv'[s].key))
      BY <1>0, <2>1, <2>3 DEF ShapeInv, IsFcn
    <3>. QED
      BY <1>0, <2>2, <3>1 DEF NonceInv, DhGenOk
  <2>6. NonceInv(s)'
    BY <1>0, <1>3, <2>2, <2>3 DEF NonceInv
  <2>7. KeyInv(s)'
    BY <1>0, <1>3, <2>2, <2>3, <2>4, <2>5 DEF KeyInv, GenHashes
  <2>. QED
    BY <1>4, <1>5, <2>3, <2>6, <2>7
<1>9. CASE ServerOther(s)
  <2>1. /\ sv' = sv
        /\ \/ down' = [down EXCEPT ![s] = OtherAnswer]
           \/ down' = [down EXCEPT ![s] = ResPQ(Nil, ServerNonce(s), << >>)]
    BY <1>9 DEF ServerOther
  <2>2. down'[s] = OtherAnswer \/ down'[s] = ResPQ(Nil, ServerNonce(s), << >>)
    BY <1>0, <2>1 DEF ShapeInv, IsFcn
  <2>3. down'[s].is \in {"other", "resPQ"}
    BY <2>2 DEF OtherAnswer, ResPQ
  <2>4. ShapeInv'
    BY <1>0, <1>5, <2>1 DEF ShapeInv
  <2>5. NonceInv(s)' /\ KeyInv(s)'
    BY <1>0, <1>3, <2>1, <2>3 DEF NonceInv, KeyInv
  <2>. QED
    BY <1>4, <2>4, <2>5
<1>. QED
  BY <1>6, <1>7, <1>8, <1>9 DEF Server

\* What damage does to an answer: its kind stays, and so does the hash of
\* server_DH_inner_data.
LEMMA DamagedAnswer ==
  ASSUME NEW m, NEW d \in Damaged(m)
  PROVE  /\ d.is = m.is /\ m.is \in {"resPQ", "server_DH_params_ok", "dh_gen_ok"}
         /\ m.is = "server_DH_params_ok" => d.hash = m.hash
         /\ m.is = "dh_gen_ok" => d.newNonceHash1 \in {m.newNonceHash1, NewNonceHash1(Nil, 0)}
<1>1. CASE m.is = "resPQ"
  BY <1>1 DEF Damaged, ResPQ
<1>2. CASE m.is = "server_DH_params_ok"
  <2>1. \E n, v, k, i : d = ServerDHParamsOk(n, v, k, m.hash, i)
    BY <1>2 DEF Damaged
  <2>. QED
    BY <1>2, <2>1 DEF ServerDHParamsOk
<1>3. CASE m.is = "dh_gen_ok"
  <2>1. \/ d = DhGenOk(Nil, Nil, m.newNonceHash1)
        \/ d = DhGenOk(m.nonce, m.serverNonce, NewNonceHash1(Nil, 0))
    BY <1>3 DEF Damaged
  <2>. QED
    BY <1>3, <2>1 DEF DhGenOk
<1>. QED
  BY <1>1, <1>2, <1>3 DEF Damaged

LEMMA DamageStep ==
  ASSUME LifeTypeOK, ExchangeInv, NEW s \in Starts, Damage(s)
  PROVE  ShapeInv' /\ WireInv(s)' /\ NonceInv(s)' /\ KeyInv(s)'
<1>0. ShapeInv /\ WireInv(s) /\ NonceInv(s) /\ KeyInv(s) /\ UNCHANGED <<pc, cl, sv, up>>
  BY DEF ExchangeInv, Damage
<1>1. PICK m \in Damaged(down[s]) : down' = [down EXCEPT ![s] = m]
  BY DEF Damage
<1>2. IsFcn(down') /\ down'[s] = m
  BY <1>0, <1>1 DEF ShapeInv, IsFcn
<1>3. /\ m.is = down[s].is /\ m.is # "nothing"
      /\ m.is = "server_DH_params_ok" => m.hash = down[s].hash
      /\ m.is = "dh_gen_ok" => m.newNonceHash1 \in {down[s].newNonceHash1, NewNonceHash1(Nil, 0)}
  BY <1>1, DamagedAnswer
<1>4. ShapeInv' /\ WireInv(s)'
  BY <1>0, <1>2, <1>3 DEF ShapeInv, WireInv
<1>5. NonceInv(s)'
  BY <1>0, <1>2, <1>3 DEF NonceInv
<1>6. KeyInv(s)'
  BY <1>0, <1>2, <1>3 DEF KeyInv, GenHashes
<1>. QED
  BY <1>4, <1>5, <1>6

LEMMA ExchangeStep ==
  ASSUME LifeTypeOK, LifeInv, ExchangeInv, [ClientNext]_clientVars
  PROVE  ExchangeInv'
<1> USE DEF Goto, Request, Answered, Fail, Reply
<1>1. ASSUME NEW s \in Starts,
             Dial(s) \/ StartStep(s) \/ ConnectionFails(s) \/ Server(s) \/ Damage(s)
      PROVE  ExchangeInv'
  <2>1. ShapeInv' /\ WireInv(s)' /\ NonceInv(s)' /\ KeyInv(s)'
    BY <1>1, ClientSide, ServerSide, DamageStep
  <2>2. ASSUME NEW w \in Starts, w # s PROVE WireInv(w)' /\ NonceInv(w)' /\ KeyInv(w)'
    <3>0. IsFcn(cl) /\ IsFcn(sv) /\ IsFcn(up) /\ IsFcn(down)
      BY DEF ExchangeInv, ShapeInv
    <3>1. pc'[w] = pc[w]
      BY <1>1, <2>2 DEF LifeTypeOK, Dial, StartStep, ConnectionFails, Server, Damage, StartFails,
         SendReqPQ, Misanswered, RecvResPQ, FactorRound, FactorDone, SendReqDH, RecvDHParams, SendSetDH,
         RecvDHAnswer, Connected
    <3>2. cl'[w] = cl[w]
      BY <1>1, <2>2, <3>0 DEF IsFcn, Dial, StartStep, ConnectionFails, Server, Damage, StartFails,
         SendReqPQ, Misanswered, RecvResPQ, FactorRound, FactorDone, SendReqDH, RecvDHParams, SendSetDH,
         RecvDHAnswer, Connected
    <3>3. up'[w] = up[w] /\ down'[w] = down[w]
      BY <1>1, <2>2, <3>0 DEF IsFcn, Dial, StartStep, ConnectionFails, Server, Damage, StartFails,
         SendReqPQ, Misanswered, RecvResPQ, FactorRound, FactorDone, SendReqDH, RecvDHParams, SendSetDH,
         RecvDHAnswer, Connected, ServerResPQ, ServerDHParams, ServerDHAnswer, ServerOther
    <3>4. sv'[w] = sv[w]
      BY <1>1, <2>2, <3>0 DEF IsFcn, Dial, StartStep, ConnectionFails, Server, Damage, StartFails,
         SendReqPQ, Misanswered, RecvResPQ, FactorRound, FactorDone, SendReqDH, RecvDHParams, SendSetDH,
         RecvDHAnswer, Connected, ServerResPQ, ServerDHParams, ServerDHAnswer, ServerOther
    <3>. QED
      BY <2>2, <3>1, <3>2, <3>3, <3>4, Apart DEF ExchangeInv
  <2>. QED
    BY <2>1, <2>2 DEF ExchangeInv
<1>2. CASE Close \/ UNCHANGED clientVars
  <2>1. UNCHANGED <<pc, cl, sv, up, down>>
    BY <1>2 DEF Close, clientVars, startVars
  <2>. QED
    BY <2>1 DEF ExchangeInv, ShapeInv, WireInv, NonceInv, KeyInv
<1>. QED
  BY <1>1, <1>2 DEF ClientNext

\* A Start that gets through CreateAuthKey has the server's salt, and its key
\* unless both hashes that CreateAuthKey does not compare are wrong, whatever
\* other Starts and their servers do meanwhile and however answers are damaged.
THEOREM ExchangeAgrees == ClientSpec => []KeysAgree
<1>1. ASSUME ExchangeInv, NEW s \in Starts, pc[s] \in {"newConn", "connected"}
      PROVE  /\ cl[s].salt = sv[s].salt
             /\ cl[s].key # sv[s].key => ~InnerHashRight(s) /\ ~GenHashRight(s)
  <2>1. NonceInv(s) /\ KeyInv(s)
    BY <1>1 DEF ExchangeInv
  <2>2. cl[s].salt = sv[s].salt
    BY <1>1, <2>1 DEF KeyInv
  <2>3. ASSUME cl[s].key # sv[s].key PROVE ~InnerHashRight(s)
    <3>1. cl[s].hash = SHA1(Genuine(sv[s].a)) /\ cl[s].dhInner # Genuine(sv[s].a)
      BY <1>1, <2>1, <2>3 DEF KeyInv
    <3>. QED
      BY <3>1 DEF InnerHashRight, SHA1
  <2>4. ASSUME cl[s].key # sv[s].key PROVE ~GenHashRight(s)
    <3>1. /\ cl[s].newNonceHash1 \in GenHashes(cl[s].newNonce, sv[s].key)
          /\ cl[s].newNonce # Nil
      BY <1>1, <2>1, NoncesAssumption DEF NonceInv, KeyInv
    <3>. QED
      BY <2>4, <3>1 DEF GenHashRight, GenHashes, NewNonceHash1, SHA1
  <2>. QED
    BY <2>2, <2>3, <2>4
<1>2. ExchangeInv => KeysAgree
  BY <1>1 DEF KeysAgree
<1>3. ClientSpec => [](LifeTypeOK /\ LifeInv)
  BY LifeInit, LifeStep, PTL DEF ClientSpec
<1>. QED
  BY <1>2, <1>3, ExchangeInit, ExchangeStep, PTL DEF ClientSpec
=============================================================================
