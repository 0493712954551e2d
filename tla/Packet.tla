------------------------------- MODULE Packet -------------------------------
(***************************************************************************)
(* Encrypted messages, protocol/message.go: PackEncrypted and              *)
(* UnpackEncrypted over the loops of crypto/aes.go (module Ige), with the  *)
(* keys of crypto/kdf.go.                                                  *)
(*                                                                         *)
(* The unit is the four-byte word.  SHA-256 is ideal: a hash is the tuple  *)
(* of what was hashed.  The cipher of module Ige is the one of the key     *)
(* that the code derives; what was encrypted under any other key is        *)
(* ciphertext that belongs to other initialisation vectors.                *)
(***************************************************************************)
EXTENDS Ige, Sequences

CONSTANTS
  Word,
  BlockLen,    \* words of a block: 4
  HeaderLen,   \* words of salt, session, message id, seqNo and length: 8
  MinPad,      \* words of the least padding: 3
  Inners,      \* what the server packs: sequences of words, whole blocks
  Payloads,    \* what the client packs
  PadWords,    \* what rand.Read may fill in
  ExpectedIDs, \* the expectedSessionID's tried, 0 for any
  Flip         \* a block: the difference that damage makes

Zero == [k \in 1 .. BlockLen |-> 0]

ASSUME WordAssumption ==
  /\ Word \subseteq Nat /\ 0 \in Word
  /\ BlockLen \in Nat \ {0} /\ HeaderLen \in Nat /\ HeaderLen >= 8 /\ HeaderLen >= 2 * BlockLen
  /\ Block = [1 .. BlockLen -> Word]
  /\ Flip \in Block \ {Zero}
  /\ \A ws \in Inners : /\ ws \in Seq(Word) /\ Len(ws) % BlockLen = 0
                        /\ Len(ws) >= HeaderLen /\ Len(ws) <= N * BlockLen
ASSUME XorAssumption == \A a, b \in Block : Xor(a, b) = Xor(b, a) /\ Xor(a, a) = Zero

VARIABLES
  op,        \* "pack", "unpack" or "exchange"
  pc,        \* "check", "crypt", "done"
  sent,      \* history: what the sender put together, and its packet
  packet,    \* the packet: received by unpack, made by pack
  expected,  \* expectedSessionID
  result     \* what the call returned

packetVars == <<op, pc, sent, packet, expected, result>>

NoPacket == [keyID |-> "none", msgKey |-> <<>>, data |-> <<>>, blocks |-> 0, odd |-> FALSE]

\* kdf.go, with the roles in place of the offsets into the key.
ComputeMsgKey(role, inner) == <<role, inner>>
KDF(role, msgKey) == <<role, msgKey>>

\* Slices of words and of blocks.
Words(buf, n) == [w \in 1 .. n * BlockLen |->
                    buf[(w - 1) \div BlockLen][((w - 1) % BlockLen) + 1]]
Blocks(ws) == [j \in Index |->
                 IF j * BlockLen < Len(ws)
                   THEN [k \in 1 .. BlockLen |-> ws[j * BlockLen + k]] ELSE Zero]

\* IGE and its inverse as functions, for the packets of the server.
Seal(m, ivC, ivM) ==
  LET c[j \in Index] == Xor(E[Xor(m[j], IF j = 0 THEN ivC ELSE c[j - 1])], Before(m, j, ivM))
  IN  c
Open(c, ivC, ivM) ==
  LET m[j \in Index] == Xor(D[Xor(c[j], IF j = 0 THEN ivM ELSE m[j - 1])], Before(c, j, ivC))
  IN  m

(***************************************************************************)
(* Keys are independent: what was encrypted under another key does not     *)
(* decrypt to a message of the server.                                     *)
(***************************************************************************)
ASSUME KeysAssumption ==
  \A x, y \in Inners :
    Len(x) = Len(y) => \E j \in 0 .. (Len(x) \div BlockLen) - 1 :
                         Open(Seal(Blocks(y), IvM, IvC), IvC, IvM)[j] # Blocks(x)[j]

\* The header: salt, session, message id, seqNo, length.
Salt(ws)    == SubSeq(ws, 1, 2)
Session(ws) == SubSeq(ws, 3, 4)
MsgID(ws)   == SubSeq(ws, 5, 6)
SeqNo(ws)   == ws[7]
MsgLen(ws)  == ws[8]
Content(ws) == SubSeq(ws, HeaderLen + 1, HeaderLen + MsgLen(ws))

-----------------------------------------------------------------------------
(***************************************************************************)
(* What arrives: a packet of the server, of the other direction, damaged,  *)
(* cut or put together from two.                                           *)
(***************************************************************************)

Made(role, inner) ==
  LET msgKey == ComputeMsgKey(role, inner)
      same   == KDF(role, msgKey) = KDF("server", msgKey)
      m      == Blocks(inner)
  IN  [keyID |-> "ours", msgKey |-> msgKey, odd |-> FALSE,
       data |-> IF same THEN Seal(m, IvC, IvM) ELSE Seal(m, IvM, IvC),
       blocks |-> Len(inner) \div BlockLen]

Damaged(p) ==
  {p, [p EXCEPT !.keyID = "other"], [p EXCEPT !.odd = TRUE]}
    \cup {[p EXCEPT !.data[j] = Xor(@, Flip)] : j \in 0 .. p.blocks - 1}
    \cup {[p EXCEPT !.data[0] = p.data[1], !.data[1] = p.data[0]]}
    \cup {[p EXCEPT !.blocks = b] : b \in 0 .. p.blocks - 1}

\* Another msg_key: another IGE key, so that the data belong to other vectors.
Mixed(p, inner) ==
  IF p.msgKey = ComputeMsgKey("server", inner) THEN p
  ELSE [p EXCEPT !.msgKey = ComputeMsgKey("server", inner),
                 !.data = Seal(Blocks(p.msgKey[2]), IvM, IvC)]

Received(role, inner) ==
  Damaged(Made(role, inner)) \cup {Mixed(Made(role, inner), x) : x \in Inners}

\* make([]byte, n) is zeroed memory.
Zeroed == [j \in Index |-> Zero]

UnpackInit ==
  /\ op = "unpack" /\ pc = "check"
  /\ \E role \in {"server", "client"}, inner \in Inners :
       /\ sent = [role |-> role, inner |-> inner]
       /\ packet \in Received(role, inner)
  /\ expected \in ExpectedIDs
  /\ cipher = packet.data
  /\ plain = Open(cipher, IvC, IvM)
  /\ case = <<"dec", "apart">>
  /\ mem = [s \in {"src", "dst"} |-> IF s = "src" THEN cipher ELSE Zeroed]

\* PackEncrypted up to the call of Encrypt: header, payload and padding.
PadLen(contentLen) ==
  LET pad == BlockLen - (contentLen % BlockLen) IN IF pad < MinPad THEN pad + BlockLen ELSE pad

PackInner(payload, fill) ==
  LET contentLen == HeaderLen + Len(payload)
  IN  <<1, 2, 1, 0, 3, 1, 1, Len(payload)>> \o payload
        \o [k \in 1 .. PadLen(contentLen) |-> fill]

PackInit ==
  /\ op = "pack" /\ pc = "crypt"
  /\ \E payload \in Payloads, fill \in PadWords :
       sent = [role |-> "client", inner |-> PackInner(payload, fill)]
  /\ packet = NoPacket /\ expected = 0
  /\ plain = Blocks(sent.inner)
  /\ cipher = Seal(plain, IvC, IvM)
  /\ case = <<"enc", "inplace">>
  /\ mem = [s \in {"src", "dst"} |-> IF s = "src" THEN plain ELSE Zeroed]

\* The key exchange (auth/dh.go) encrypts into a slice of its own.
ExchangeInit ==
  /\ op = "exchange" /\ pc = "crypt"
  /\ \E inner \in Inners : sent = [role |-> "client", inner |-> inner]
  /\ packet = NoPacket /\ expected = 0
  /\ plain = Blocks(sent.inner)
  /\ cipher = Seal(plain, IvC, IvM)
  /\ case = <<"enc", "apart">>
  /\ mem = [s \in {"src", "dst"} |-> IF s = "src" THEN plain ELSE Zeroed]

PacketInit ==
  /\ UnpackInit \/ PackInit \/ ExchangeInit
  /\ i = 0 /\ cPrev = <<"iv", 0>> /\ mPrev = <<"iv", 0>>
  /\ result = [err |-> "none"]

-----------------------------------------------------------------------------
(***************************************************************************)
(* UnpackEncrypted                                                         *)
(***************************************************************************)

Return(r) == result' = r /\ pc' = "done"

\* The checks before decryption, in their order.
OuterError(p) ==
  IF p.blocks * BlockLen < HeaderLen THEN "ErrPacketTooShort"
  ELSE IF p.keyID # "ours" THEN "ErrAuthKeyMismatch"
  ELSE IF p.odd THEN "ErrPacketTooShort"
  ELSE "none"

\* Mutant: the message key is not compared.
InnerErrorUnverified(p, ws) ==
  IF expected # 0 /\ Session(ws) # <<expected, 0>> THEN "ErrSessionMismatch"
  ELSE IF HeaderLen + MsgLen(ws) > Len(ws) THEN "ErrInvalidMsgLength"
  ELSE "none"

\* Mutant: 0 is compared as if it were a session.
InnerErrorNoWildcard(p, ws) ==
  IF p.msgKey # ComputeMsgKey("server", ws) THEN "ErrMsgKeyMismatch"
  ELSE IF Session(ws) # <<expected, 0>> THEN "ErrSessionMismatch"
  ELSE IF HeaderLen + MsgLen(ws) > Len(ws) THEN "ErrInvalidMsgLength"
  ELSE "none"

\* The checks after it.
InnerError(p, ws) ==
  IF p.msgKey # ComputeMsgKey("server", ws) THEN "ErrMsgKeyMismatch"
  ELSE IF expected # 0 /\ Session(ws) # <<expected, 0>> THEN "ErrSessionMismatch"
  ELSE IF HeaderLen + MsgLen(ws) > Len(ws) THEN "ErrInvalidMsgLength"
  ELSE "none"

UnpackChecks ==
  /\ op = "unpack" /\ pc = "check"
  /\ IF OuterError(packet) # "none"
       THEN Return([err |-> OuterError(packet)])
       ELSE pc' = "crypt" /\ UNCHANGED result
  /\ UNCHANGED <<op, sent, packet, expected, igeVars>>

Decrypt ==
  /\ op = "unpack" /\ pc = "crypt" /\ i < packet.blocks
  /\ DecryptBlock
  /\ UNCHANGED packetVars

UnpackVerify ==
  /\ op = "unpack" /\ pc = "crypt" /\ i = packet.blocks
  /\ LET ws == Words(mem["dst"], packet.blocks)
     IN  Return(IF InnerError(packet, ws) # "none"
                  THEN [err |-> InnerError(packet, ws)]
                  ELSE [err |-> "nil", salt |-> Salt(ws), msgID |-> MsgID(ws),
                        seqNo |-> SeqNo(ws), payload |-> Content(ws)])
  /\ UNCHANGED <<op, sent, packet, expected, igeVars>>

-----------------------------------------------------------------------------
(***************************************************************************)
(* PackEncrypted from the call of Encrypt on, and the exchange             *)
(***************************************************************************)

SentBlocks == Len(sent.inner) \div BlockLen

Encrypt ==
  /\ op # "unpack" /\ pc = "crypt" /\ i < SentBlocks
  /\ EncryptBlock
  /\ UNCHANGED packetVars

PackAssemble ==
  /\ op = "pack" /\ pc = "crypt" /\ i = SentBlocks
  /\ packet' = [keyID |-> "ours", msgKey |-> ComputeMsgKey("client", sent.inner),
                data |-> mem["src"], blocks |-> SentBlocks, odd |-> FALSE]
  /\ Return([err |-> "nil"])
  /\ UNCHANGED <<op, sent, expected, igeVars>>

PacketNext == UnpackChecks \/ Decrypt \/ UnpackVerify \/ Encrypt \/ PackAssemble

PacketSpec == PacketInit /\ [][PacketNext]_<<packetVars, igeVars>>

-----------------------------------------------------------------------------
(***************************************************************************)
(* Properties                                                              *)
(***************************************************************************)

Accepted == op = "unpack" /\ pc = "done" /\ result.err = "nil"

Intact == sent.role = "server" /\ packet = Made("server", sent.inner)

(***************************************************************************)
(* UnpackEncrypted returns only what the server packed for this session    *)
(* and this direction, field by field: neither damage, nor a cut, nor the  *)
(* client's own packet, nor parts of two packets get past it.              *)
(***************************************************************************)
AcceptedIsSent ==
  Accepted =>
    /\ Intact
    /\ expected # 0 => Session(sent.inner) = <<expected, 0>>
    /\ result = [err |-> "nil", salt |-> Salt(sent.inner), msgID |-> MsgID(sent.inner),
                 seqNo |-> SeqNo(sent.inner), payload |-> Content(sent.inner)]
    /\ Len(result.payload) = MsgLen(sent.inner)

(***************************************************************************)
(* A whole packet of the server, of the expected session or where any will *)
(* do, with a length that fits, is not refused, whatever its padding.      *)
(***************************************************************************)
SentIsAccepted ==
  /\ op = "unpack" /\ pc = "done" /\ Intact
  /\ expected = 0 \/ Session(sent.inner) = <<expected, 0>>
  /\ HeaderLen + MsgLen(sent.inner) <= Len(sent.inner)
  => result.err = "nil"

(***************************************************************************)
(* What PackEncrypted makes, a server that decrypts by the documented      *)
(* formula reads back: "dst and src may point to the exact same memory     *)
(* slice for in-place encryption" (aes.go).                                *)
(***************************************************************************)
ServerReadsPacked ==
  op = "pack" /\ pc = "done" =>
    \A j \in 0 .. packet.blocks - 1 : Open(packet.data, IvC, IvM)[j] = Blocks(sent.inner)[j]

=============================================================================
