------------------------------- MODULE Client -------------------------------
(***************************************************************************)
(* Starting and closing a client: client/client.go, with the key exchange  *)
(* of auth/dh.go.                                                          *)
(*                                                                         *)
(* Every Start is a goroutine that dials a transport of its own, runs      *)
(* CreateAuthKey on it and, in the end, overwrites Client.conn.  Starts    *)
(* and Closes may overlap and be repeated.  The server is external: on     *)
(* each transport it answers, refuses, sends something else or nothing,    *)
(* and its answers may be damaged on the way.                              *)
(*                                                                         *)
(* Encryption is represented by the keys that a text was made with; hashes *)
(* are ideal; the random nonce of a Start is represented by the Start. The *)
(* numbers of the key exchange are computed, in a small group.             *)
(***************************************************************************)
EXTENDS Factor, FiniteSets

CONSTANTS
  Starts,      \* the calls of Start
  Numbers,     \* for every Start, the pq the server chooses from, as two factors
  Prime, Gen,  \* dh_prime and g
  Exps,        \* the secret exponents a and b
  Garbled,     \* what a damaged g_a may read as
  MaxC,        \* bound: FactorPQ is not followed beyond this constant c
  Nil          \* no connection, or anything that fits nowhere

ASSUME GroupAssumption ==
  /\ Prime \in Nat \ {0} /\ Gen \in Nat /\ Exps \subseteq Nat /\ MaxC \in Nat
  /\ Garbled \subseteq Nat
ASSUME NumbersAssumption ==
  \A s \in Starts : \A pq \in Numbers[s] : pq[1] \in Nat /\ pq[2] \in Nat /\ pq[1] < pq[2]
ASSUME NilAssumption == Nil \notin Starts

VARIABLES
  pc,     \* where each Start is
  tr,     \* the transport of each Start: none, open, closed
  cl,     \* the variables of CreateAuthKey
  sv,     \* what the server keeps for each transport
  up,     \* the request in flight on each transport
  down,   \* the answer in flight
  conn,   \* Client.conn, named by the Start that made it
  quiet,  \* history: Close returned, no Start was running then, or was begun since
  again   \* history: a Start has replaced the connection of another

startVars == <<pc, tr, cl, sv, up, down>>
clientVars == <<startVars, conn, quiet, again>>

-----------------------------------------------------------------------------
\* big.Int.Exp, for numbers small enough to be multiplied out.
Exp(base, e, prime) == (base ^ e) % prime

\* The law of powers that Diffie and Hellman use.  It holds for all numbers.
ASSUME PowersAssumption ==
  \A a, b \in Exps :
    Exp(Exp(Gen, a, Prime), b, Prime) = Exp(Exp(Gen, b, Prime), a, Prime)

\* Random numbers are fresh: those of a Start are told from all others.
NewNonce(s) == <<"new_nonce", s>>
ServerNonce(s) == <<"server_nonce", s>>

ASSUME NoncesAssumption == \A s \in Starts : Nil # NewNonce(s)

\* Salt and temporary keys are made of both nonces.
Salt(newNonce, serverNonce) == <<newNonce, serverNonce>>
deriveTmpAESKeys(newNonce, serverNonce) == <<newNonce, serverNonce>>

\* An ideal hash, and the one by which dh_gen_ok confirms a key.
SHA1(data) == <<"sha1", data>>
NewNonceHash1(newNonce, key) == SHA1(<<newNonce, key>>)

\* Base-Radix digits of pq, as the server sends them.
BytesOf(n) == IF n < Radix THEN <<n>> ELSE <<n \div Radix, n % Radix>>

-----------------------------------------------------------------------------
(* The messages of the key exchange.  Requests are without the nonces that *)
(* the server only echoes; inner is what the right keys make readable.     *)

NoMsg == [is |-> "nothing"]

ReqPqMulti(nonce) == [is |-> "req_pq_multi", nonce |-> nonce]

ResPQ(nonce, serverNonce, pq) ==
  [is |-> "resPQ", nonce |-> nonce, serverNonce |-> serverNonce, pq |-> pq]

PQInnerDataDc(pq, newNonce) == [pq |-> pq, newNonce |-> newNonce]

ReqDHParams(serverNonce, factors, inner) ==
  [is |-> "req_DH_params", serverNonce |-> serverNonce, factors |-> factors, inner |-> inner]

ServerDHInnerData(g, prime, gA) == [g |-> g, dhPrime |-> prime, gA |-> gA]

\* encrypted_answer: the keys it is encrypted with, and the hash before the data.
ServerDHParamsOk(nonce, serverNonce, keys, hash, inner) ==
  [is |-> "server_DH_params_ok", nonce |-> nonce, serverNonce |-> serverNonce,
   keys |-> keys, hash |-> hash, inner |-> inner]

ClientDHInnerData(gB) == [gB |-> gB]

SetClientDHParams(inner) == [is |-> "set_client_DH_params", inner |-> inner]

DhGenOk(nonce, serverNonce, newNonceHash1) ==
  [is |-> "dh_gen_ok", nonce |-> nonce, serverNonce |-> serverNonce,
   newNonceHash1 |-> newNonceHash1]

\* A refusal, a request to retry, an error, or something that does not decode.
OtherAnswer == [is |-> "other"]

-----------------------------------------------------------------------------
NoClient == [pq |-> 0, rho |-> RhoStart, serverNonce |-> << >>, newNonce |-> << >>,
             hash |-> << >>, dhInner |-> << >>, gB |-> 0, key |-> 0,
             newNonceHash1 |-> << >>, salt |-> << >>]
NoServer == [pq |-> <<0, 0>>, serverNonce |-> << >>, newNonce |-> << >>,
             a |-> 0, key |-> 0, salt |-> << >>]

ClientInit ==
  /\ pc = [s \in Starts |-> "idle"]
  /\ tr = [s \in Starts |-> "none"]
  /\ cl = [s \in Starts |-> NoClient]
  /\ sv = [s \in Starts |-> NoServer]
  /\ up = [s \in Starts |-> NoMsg]
  /\ down = [s \in Starts |-> NoMsg]
  /\ conn = Nil /\ quiet = FALSE /\ again = FALSE

Running == {s \in Starts : pc[s] \notin {"idle", "failed", "connected"}}

-----------------------------------------------------------------------------
(* Start and CreateAuthKey                                                 *)

Goto(s, where) == pc' = [pc EXCEPT ![s] = where]

\* Dial and the tag of the codec succeed, or leave nothing open.
Dial(s) ==
  /\ pc[s] = "idle"
  /\ quiet' = FALSE
  /\ \/ Goto(s, "reqPQ") /\ tr' = [tr EXCEPT ![s] = "open"]
     \/ Goto(s, "failed") /\ UNCHANGED tr
  /\ UNCHANGED <<cl, sv, up, down, conn, again>>

\* An error of CreateAuthKey or NewConnection: Start closes the transport.
Fail(s) ==
  /\ Goto(s, "failed")
  /\ tr' = [tr EXCEPT ![s] = "closed"]
  /\ UNCHANGED <<cl, sv, up, down, conn, quiet, again>>

\* A step fails: the context was done when Send or Recv began, the deadline of
\* 60 s has passed, the network failed, or a random number or a cipher could
\* not be had.
StartFails(s) ==
  /\ s \in Running
  /\ pc[s] # "factor"
  /\ Fail(s)

\* Send, then wait in Recv.
Request(s, msg, where) ==
  /\ up' = [up EXCEPT ![s] = msg]
  /\ Goto(s, where)

SendReqPQ(s) ==
  /\ pc[s] = "reqPQ"
  /\ Request(s, ReqPqMulti(s), "resPQ")
  /\ UNCHANGED <<tr, cl, sv, down, conn, quiet, again>>

\* Recv returns an answer of the kind that is expected.
Answered(s, where, kind) ==
  /\ pc[s] = where
  /\ down[s].is = kind
  /\ down' = [down EXCEPT ![s] = NoMsg]

\* server_DH_inner_data decrypts to something that decodes.
Readable(s) == down[s].keys = deriveTmpAESKeys(cl[s].newNonce, cl[s].serverNonce)

\* An answer of another kind, resPQ with another nonce, or inner data that do
\* not decode.  Nothing else in an answer is compared with anything.
Misanswered(s) ==
  /\ down[s].is # "nothing"
  /\ \/ pc[s] = "resPQ" /\ ~(down[s].is = "resPQ" /\ down[s].nonce = s)
     \/ pc[s] = "dhParams" /\ ~(down[s].is = "server_DH_params_ok" /\ Readable(s))
     \/ pc[s] = "dhAnswer" /\ down[s].is # "dh_gen_ok"
  /\ Fail(s)

RecvResPQ(s) ==
  /\ Answered(s, "resPQ", "resPQ")
  /\ down[s].nonce = s
  /\ cl' = [cl EXCEPT ![s].pq = ParsePQ(down[s].pq),
                      ![s].serverNonce = down[s].serverNonce]
  /\ Goto(s, "factor")
  /\ UNCHANGED <<tr, sv, up, conn, quiet, again>>

FactorRound(s) ==
  /\ pc[s] = "factor"
  /\ ~RhoDone(cl[s].pq, cl[s].rho)
  /\ cl[s].rho.c <= MaxC
  /\ cl' = [cl EXCEPT ![s].rho = RhoRound(cl[s].pq, cl[s].rho)]
  /\ UNCHANGED <<pc, tr, sv, up, down, conn, quiet, again>>

FactorDone(s) ==
  /\ pc[s] = "factor"
  /\ RhoDone(cl[s].pq, cl[s].rho)
  /\ Goto(s, "reqDH")
  /\ UNCHANGED <<tr, cl, sv, up, down, conn, quiet, again>>

SendReqDH(s) ==
  /\ pc[s] = "reqDH"
  /\ cl' = [cl EXCEPT ![s].newNonce = NewNonce(s)]
  /\ Request(s, ReqDHParams(cl[s].serverNonce, Factors(cl[s].pq, cl[s].rho),
                            PQInnerDataDc(cl[s].pq, NewNonce(s))), "dhParams")
  /\ UNCHANGED <<tr, sv, down, conn, quiet, again>>

\* Mutant: the key is made of g_b instead of g_a.
RecvDHParamsOwn(s) ==
  /\ Answered(s, "dhParams", "server_DH_params_ok")
  /\ Readable(s)
  /\ \E b \in Exps :
       LET in == down[s].inner
           gB == Exp(in.g, b, in.dhPrime)
       IN  cl' = [cl EXCEPT ![s].hash = down[s].hash, ![s].dhInner = in,
                            ![s].gB = gB, ![s].key = Exp(gB, b, in.dhPrime)]
  /\ Goto(s, "setDH")
  /\ UNCHANGED <<tr, sv, up, conn, quiet, again>>

\* Decrypt server_DH_inner_data, choose b and compute the key.  The hash that
\* comes with the data is looked at and dropped.
RecvDHParams(s) ==
  /\ Answered(s, "dhParams", "server_DH_params_ok")
  /\ Readable(s)
  /\ \E b \in Exps :
       LET in == down[s].inner
       IN  cl' = [cl EXCEPT ![s].hash = down[s].hash, ![s].dhInner = in,
                            ![s].gB = Exp(in.g, b, in.dhPrime),
                            ![s].key = Exp(in.gA, b, in.dhPrime)]
  /\ Goto(s, "setDH")
  /\ UNCHANGED <<tr, sv, up, conn, quiet, again>>

SendSetDH(s) ==
  /\ pc[s] = "setDH"
  /\ Request(s, SetClientDHParams(ClientDHInnerData(cl[s].gB)), "dhAnswer")
  /\ UNCHANGED <<tr, cl, sv, down, conn, quiet, again>>

\* dh_gen_ok is taken at its word: new_nonce_hash1 is decoded and not used.
RecvDHAnswer(s) ==
  /\ Answered(s, "dhAnswer", "dh_gen_ok")
  /\ cl' = [cl EXCEPT ![s].newNonceHash1 = down[s].newNonceHash1,
                      ![s].salt = Salt(cl[s].newNonce, cl[s].serverNonce)]
  /\ Goto(s, "newConn")
  /\ UNCHANGED <<tr, sv, up, conn, quiet, again>>

\* NewConnection, and the assignment to Client.conn.
Connected(s) ==
  /\ pc[s] = "newConn"
  /\ Goto(s, "connected")
  /\ conn' = s
  /\ again' = (again \/ conn # Nil)
  /\ UNCHANGED <<tr, cl, sv, up, down, quiet>>

-----------------------------------------------------------------------------
(* The client is closed, or its connection closes itself.                  *)

\* Mutant: Close does not reach the connection.
CloseClientOnly ==
  /\ quiet' = (Running = {})
  /\ UNCHANGED <<pc, tr, cl, sv, up, down, conn, again>>

\* Close closes the connection it finds, if any, and its transport with it.
Close ==
  /\ tr' = IF conn = Nil THEN tr ELSE [tr EXCEPT ![conn] = "closed"]
  /\ quiet' = (Running = {})
  /\ UNCHANGED <<pc, cl, sv, up, down, conn, again>>

\* readLoop of a connection fails and closes it.
ConnectionFails(s) ==
  /\ pc[s] = "connected" /\ tr[s] = "open"
  /\ tr' = [tr EXCEPT ![s] = "closed"]
  /\ UNCHANGED <<pc, cl, sv, up, down, conn, quiet, again>>

-----------------------------------------------------------------------------
(* The server and the network                                              *)

\* It takes the request and puts an answer on its way.
Reply(s, msg) ==
  /\ up' = [up EXCEPT ![s] = NoMsg]
  /\ down' = [down EXCEPT ![s] = msg]

\* With a product of two primes as the protocol has it, or with another number.
ServerResPQ(s) ==
  /\ up[s].is = "req_pq_multi"
  /\ \E pq \in Numbers[s] :
       /\ sv' = [sv EXCEPT ![s].pq = pq, ![s].serverNonce = ServerNonce(s)]
       /\ Reply(s, ResPQ(up[s].nonce, ServerNonce(s), BytesOf(pq[1] * pq[2])))

\* With the right factors; otherwise it refuses (ServerOther).
ServerDHParams(s) ==
  /\ up[s].is = "req_DH_params"
  /\ up[s].factors = sv[s].pq /\ up[s].serverNonce = sv[s].serverNonce
  /\ up[s].inner.pq = sv[s].pq[1] * sv[s].pq[2]
  /\ \E a \in Exps :
       LET n  == up[s].inner.newNonce
           in == ServerDHInnerData(Gen, Prime, Exp(Gen, a, Prime))
       IN  /\ sv' = [sv EXCEPT ![s].a = a, ![s].newNonce = n]
           /\ Reply(s, ServerDHParamsOk(s, sv[s].serverNonce,
                                        deriveTmpAESKeys(n, sv[s].serverNonce), SHA1(in), in))

ServerDHAnswer(s) ==
  /\ up[s].is = "set_client_DH_params"
  /\ sv' = [sv EXCEPT ![s].key = Exp(up[s].inner.gB, sv[s].a, Prime),
                      ![s].salt = Salt(sv[s].newNonce, sv[s].serverNonce)]
  /\ Reply(s, DhGenOk(s, sv[s].serverNonce,
                      NewNonceHash1(sv[s].newNonce, Exp(up[s].inner.gB, sv[s].a, Prime))))

\* Something else, or another nonce.
ServerOther(s) ==
  /\ up[s].is # "nothing"
  /\ \/ Reply(s, OtherAnswer)
     \/ up[s].is = "req_pq_multi" /\ Reply(s, ResPQ(Nil, ServerNonce(s), << >>))
  /\ UNCHANGED sv

Server(s) ==
  /\ tr[s] = "open"
  /\ ServerResPQ(s) \/ ServerDHParams(s) \/ ServerDHAnswer(s) \/ ServerOther(s)
  /\ UNCHANGED <<pc, tr, cl, conn, quiet, again>>

\* What may become of an answer on the way.  A byte of encrypted_answer that
\* changes garbles all that follows: after the length of g_a there are only g_a
\* and a time, and the data still decode; before it that length is garbled too.
Damaged(m) ==
  CASE m.is = "resPQ" -> {ResPQ(m.nonce, Nil, m.pq)}
    [] m.is = "server_DH_params_ok" ->
         {ServerDHParamsOk(Nil, Nil, m.keys, m.hash, m.inner),
          ServerDHParamsOk(m.nonce, m.serverNonce, Nil, m.hash, m.inner)}
           \cup {ServerDHParamsOk(m.nonce, m.serverNonce, m.keys, m.hash,
                                  ServerDHInnerData(m.inner.g, m.inner.dhPrime, x)) : x \in Garbled}
    [] m.is = "dh_gen_ok" ->
         {DhGenOk(Nil, Nil, m.newNonceHash1),
          DhGenOk(m.nonce, m.serverNonce, NewNonceHash1(Nil, 0))}
    [] OTHER -> {}

Damage(s) ==
  /\ tr[s] = "open"
  /\ \E m \in Damaged(down[s]) : down' = [down EXCEPT ![s] = m]
  /\ UNCHANGED <<pc, tr, cl, sv, up, conn, quiet, again>>

-----------------------------------------------------------------------------
StartStep(s) ==
  \/ StartFails(s) \/ SendReqPQ(s) \/ Misanswered(s) \/ RecvResPQ(s)
  \/ FactorRound(s) \/ FactorDone(s) \/ SendReqDH(s) \/ RecvDHParams(s)
  \/ SendSetDH(s) \/ RecvDHAnswer(s) \/ Connected(s)

ClientNext ==
  \/ \E s \in Starts :
       Dial(s) \/ StartStep(s) \/ Server(s) \/ Damage(s) \/ ConnectionFails(s)
  \/ Close

ClientSpec == ClientInit /\ [][ClientNext]_clientVars

(***************************************************************************)
(* A Start that can move moves: every Recv ends by its deadline of 60 s.   *)
(* Nothing is assumed of the server.                                       *)
(***************************************************************************)
ClientFairSpec == ClientSpec /\ \A s \in Starts : WF_clientVars(StartStep(s))

-----------------------------------------------------------------------------
(***************************************************************************)
(* Properties                                                              *)
(***************************************************************************)

ClientTypeOK ==
  /\ \A s \in Starts :
       /\ pc[s] \in {"idle", "reqPQ", "resPQ", "factor", "reqDH", "dhParams", "setDH",
                     "dhAnswer", "newConn", "connected", "failed"}
       /\ tr[s] \in {"none", "open", "closed"}
       /\ cl[s].pq \in 0 .. Words - 1 /\ cl[s].key \in 0 .. Prime - 1
       /\ up[s].is # "nothing" => down[s].is = "nothing"
  /\ conn \in Starts \cup {Nil}

\* The bytes of pq happen to be hexadecimal text, and are taken for it.
HexText == {pq \in UNION {Numbers[s] : s \in Starts} : IsHex(BytesOf(pq[1] * pq[2]))}
Ambiguous(s) == sv[s].pq \in HexText

\* What the two comparisons that the code leaves out would have said.
InnerHashRight(s) == cl[s].hash = SHA1(cl[s].dhInner)
GenHashRight(s)   == cl[s].newNonceHash1 = NewNonceHash1(cl[s].newNonce, cl[s].key)

(***************************************************************************)
(* CreateAuthKey that succeeds has the salt the server has, and its key,   *)
(* unless g_a was damaged.  CreateAuthKey does not notice that, but both   *)
(* hashes it has received and not compared tell: that of                   *)
(* server_DH_inner_data and new_nonce_hash1.                               *)
(***************************************************************************)
KeysAgree ==
  \A s \in Starts :
    pc[s] \in {"newConn", "connected"} =>
      /\ cl[s].salt = sv[s].salt
      /\ cl[s].key # sv[s].key => ~InnerHashRight(s) /\ ~GenHashRight(s)

(***************************************************************************)
(* "First 20 bytes is SHA1(server_DH_inner_data)", "Validated per          *)
(* protocol" (dh.go): CreateAuthKey goes on with data of that hash only.   *)
(***************************************************************************)
InnerDataValidated ==
  \A s \in Starts :
    pc[s] \in {"setDH", "dhAnswer", "newConn", "connected"} => InnerHashRight(s)

(***************************************************************************)
(* "FactorPQ factors a 64-bit semiprime pq into primes p and q such that   *)
(* p < q" (factor.go): the client asks with the server's own primes.  This *)
(* fails only for a pq whose bytes ParsePQ takes for hexadecimal text.     *)
(***************************************************************************)
FactorsFound ==
  \A s \in Starts :
    /\ pc[s] \in {"reqDH", "dhParams"} =>
         LET pq == Factors(cl[s].pq, cl[s].rho)
         IN  pq[1] * pq[2] = cl[s].pq /\ pq[1] > 1 /\ pq[1] <= pq[2]
    /\ pc[s] \in {"reqDH", "dhParams"} /\ ~Ambiguous(s) =>
         Factors(cl[s].pq, cl[s].rho) = sv[s].pq

(***************************************************************************)
(* A Start that fails leaves no transport open, whichever step failed, and *)
(* Client.conn is never one of a Start that failed.  After Close nothing   *)
(* at all is left open, provided that no Start was running then and that   *)
(* none had replaced the connection of another before: Close knows the     *)
(* last connection only.                                                   *)
(***************************************************************************)
NothingLeftOpen ==
  /\ \A s \in Starts : pc[s] = "failed" => tr[s] # "open"
  /\ conn # Nil => pc[conn] = "connected"
  /\ quiet /\ ~again => \A s \in Starts : tr[s] # "open"

\* Numbers for which the loop of FactorPQ never ends: it finds no factor.
NoFactor(n) == n % 2 = 1 /\ \A d \in 2 .. n - 1 : ~Divides(d, n)

(***************************************************************************)
(* Start returns, also when the server is silent or sends something else,  *)
(* unless FactorPQ is given a number that cannot be factored: sent by the  *)
(* server, or made by ParsePQ out of bytes that look like text.  It has no *)
(* deadline.                                                               *)
(***************************************************************************)
StartEnds ==
  \A s \in Starts :
    (pc[s] = "reqPQ") ~> \/ pc[s] \in {"failed", "connected"}
                         \/ pc[s] = "factor" /\ NoFactor(cl[s].pq)

=============================================================================
