-------------------------- MODULE TransportProofs --------------------------
(***************************************************************************)
(* Transport for any number of senders, any lengths that fit into their    *)
(* headers and all four codecs: as long as no Write has failed, frames do  *)
(* not mix, and none within the limits is refused; with the full codec     *)
(* nothing but what was sent is read, whatever Write has failed.           *)
(***************************************************************************)
EXTENDS Transport, NumberLemmas, FiniteSetTheorems, TLAPS

\* Bytes, those of a checksum included.
Value   == Nat
AnyByte == Value \X Seq(Value \X {<< >>})
Bytes   == Seq(AnyByte)

IsPacket(p) == \E s \in Senders, n \in Lens : p = Payload(s, n)

Zeros(pad) == [i \in 1 .. pad |-> Byte(0)]
Pads(c)    == 0 .. (IF c = "padded" THEN MaxPad ELSE 0)

\* What precedes a packet, but for the codec that writes a frame at once.
Header(c, p, pad) ==
  IF c = "abridged" THEN AbridgedHeader(Len(p) \div Unit) ELSE PutUint(Len(p) + pad, Word)

-----------------------------------------------------------------------------
(* Bytes                                                                   *)

\* The constants are numbers, and Nobody is no sender.
LEMMA Numbers ==
  /\ Radix \in Nat /\ Radix > 0 /\ Word \in Nat /\ Word > 0 /\ Unit \in Nat /\ Unit > 0 /\ MaxLen \in Nat
  /\ MaxPad \in Nat /\ Escape \in Nat /\ Escape > 0 /\ Senders \subseteq Nat /\ Lens \subseteq Nat
  /\ Nobody \notin Senders
BY WireAssumption DEF Nobody

\* Ordinary bytes.
LEMMA ByteIs ==
  ASSUME NEW v \in Value
  PROVE  /\ Byte(v) \in Value \X {<< >>} /\ Byte(v) \in AnyByte /\ Byte(v)[1] = v
<1>1. << >> \in Seq(Value \X {<< >>})
  OBVIOUS
<1>. QED
  BY <1>1 DEF Byte, AnyByte

\* Powers are positive, as far as numbers go.
LEMMA PowerIs ==
  ASSUME NEW i \in 0 .. Word
  PROVE  Power(i) \in Nat /\ Power(i) > 0
<1>0. Word \in Nat /\ Radix \in Nat /\ Radix > 0
  BY Numbers
<1> DEFINE T == {j \in 0 .. Word : ~(Power(j) \in Nat /\ Power(j) > 0)}
<1>1. SUFFICES ASSUME T # {} PROVE FALSE
  BY <1>1
<1>2. PICK k \in T : \A y \in T : k <= y
  <2>1. T \in SUBSET Nat
    BY <1>0
  <2>. QED
    BY <1>1, <2>1, LeastNumber
<1>3. CASE k = 0
  BY <1>3, PowerAssumption
<1>4. CASE k # 0
  <2>1. PICK j \in 0 .. Word - 1 : k = j + 1 /\ j \in 0 .. Word /\ ~(k <= j)
    <3>1. k - 1 \in 0 .. Word - 1 /\ k = (k - 1) + 1 /\ k - 1 \in 0 .. Word /\ ~(k <= k - 1)
      BY <1>0, <1>4
    <3>. QED
      BY <3>1
  <2>2. PICK P \in Nat : P = Power(j) /\ P > 0
    BY <1>2, <2>1
  <2>3. Power(k) = Radix * P
    BY <2>1, <2>2, PowerAssumption
  <2>4. Radix * P \in Nat /\ Radix * P > 0
    BY <1>0, <2>2
  <2>. QED
    BY <1>2, <2>3, <2>4
<1>. QED
  BY <1>3, <1>4

\* A number is written in as many bytes as asked for.
LEMMA PutUintIs ==
  ASSUME NEW v \in Nat, NEW n \in 0 .. Word
  PROVE  /\ PutUint(v, n) \in Seq(Value \X {<< >>}) /\ PutUint(v, n) \in Bytes
         /\ Len(PutUint(v, n)) = n
<1>1. ASSUME NEW i \in 1 .. n PROVE Digit(v, i - 1) \in Value
  <2>1. PICK P \in Nat : P = Power(i - 1) /\ P > 0
    <3>1. i - 1 \in 0 .. Word
      BY Numbers
    <3>. QED
      BY <3>1, PowerIs
  <2>2. PICK q \in Nat : q = v \div P
    BY <2>1, Quotient
  <2>3. q % Radix \in Nat
    BY Numbers
  <2>. QED
    BY <2>1, <2>2, <2>3 DEF Digit, Value
<1>2. \A i \in 1 .. n : /\ Byte(Digit(v, i - 1)) \in Value \X {<< >>}
                        /\ Byte(Digit(v, i - 1)) \in AnyByte
  BY <1>1, ByteIs
<1>. QED
  BY <1>2, Numbers DEF PutUint, Bytes

\* What is read is such a sum.
LEMMA GetUintIs ==
  ASSUME NEW n \in 0 .. Word, NEW bs, Len(bs) = n, \A i \in 1 .. n : bs[i][1] \in Nat
  PROVE  \E sum \in [0 .. n -> Nat] :
           /\ sum[0] = 0 /\ \A i \in 1 .. n : sum[i] = sum[i - 1] + bs[i][1] * Power(i - 1)
           /\ GetUint(bs) = sum[n]
<1>0. n \in Nat
  BY Numbers
<1> DEFINE G == [i \in 1 .. n |-> bs[i][1] * Power(i - 1)]
           H(s) == [i \in 0 .. n |-> IF i = 0 THEN 0 ELSE s[i - 1] + bs[i][1] * Power(i - 1)]
           c == CHOOSE s : s = H(s)
<1>1. G \in [1 .. n -> Nat]
  <2> SUFFICES ASSUME NEW i \in 1 .. n PROVE bs[i][1] * Power(i - 1) \in Nat
    OBVIOUS
  <2>1. i - 1 \in 0 .. Word
    BY <1>0, Numbers
  <2>2. PICK P \in Nat : P = Power(i - 1)
    BY <2>1, PowerIs
  <2>. QED
    BY <2>2
<1>2. PICK f \in [0 .. n -> Nat] : f[0] = 0 /\ \A i \in 1 .. n : f[i] = f[i - 1] + G[i]
  BY <1>0, <1>1, SumExists
<1>3. f = H(f)
  <2> SUFFICES ASSUME NEW i \in 0 .. n
               PROVE  f[i] = IF i = 0 THEN 0 ELSE f[i - 1] + bs[i][1] * Power(i - 1)
    OBVIOUS
  <2>1. i # 0 => i \in 1 .. n
    BY <1>0
  <2>. QED
    BY <1>2, <2>1
<1>4. c = H(c)
  BY <1>3
<1>5. GetUint(bs) = c[n]
  BY DEF GetUint
<1> HIDE DEF c
<1>6. IsSum(c, G, n)
  <2>1. \A i \in 0 .. n : i # 0 => G[i] = bs[i][1] * Power(i - 1)
    BY <1>0
  <2>. QED
    BY <1>4, <2>1 DEF IsSum
<1>7. c \in [0 .. n -> Nat] /\ c[0] = 0 /\ \A i \in 1 .. n : c[i] = c[i - 1] + G[i]
  <2> HIDE DEF G
  <2>. QED
    BY <1>0, <1>1, <1>6, SumIsRecursive, ZenonT(60)
<1>. QED
  BY <1>5, <1>7 DEF G

\* What fits into a header is read as it was written.
LEMMA GetPut ==
  ASSUME NEW v \in Nat, NEW n \in 0 .. Word, v < Power(n)
  PROVE  GetUint(PutUint(v, n)) = v
<1>0. n \in Nat /\ Word \in Nat /\ Radix \in Nat /\ Radix > 0
  BY Numbers
<1>1. PICK bs : /\ bs = PutUint(v, n) /\ Len(bs) = n
                /\ \A i \in 1 .. n : bs[i][1] = Digit(v, i - 1) /\ bs[i][1] \in Nat
  <2>1. PutUint(v, n) \in Seq(Value \X {<< >>}) /\ Len(PutUint(v, n)) = n
    BY PutUintIs
  <2>2. \A i \in 1 .. n : PutUint(v, n)[i] = Byte(Digit(v, i - 1)) /\ PutUint(v, n)[i][1] \in Value
    BY <2>1 DEF PutUint
  <2>. QED
    BY <2>1, <2>2 DEF Byte, Value
<1>2. PICK sum \in [0 .. n -> Nat] :
        /\ sum[0] = 0 /\ \A i \in 1 .. n : sum[i] = sum[i - 1] + bs[i][1] * Power(i - 1)
        /\ GetUint(bs) = sum[n]
  BY <1>1, GetUintIs
<1> DEFINE P == [i \in 0 .. n |-> Power(i)]
<1>3. P \in [0 .. n -> Nat] /\ P[0] = 1 /\ P[n] = Power(n)
  <2>1. \A i \in 0 .. n : i \in 0 .. Word
    BY <1>0
  <2>. QED
    BY <1>0, <2>1, PowerIs, PowerAssumption
<1>4. \A i \in 1 .. n : P[i - 1] = Power(i - 1) /\ P[i] = Radix * P[i - 1] /\ P[i - 1] > 0
  <2> TAKE i \in 1 .. n
  <2>1. PICK j \in 0 .. Word - 1 : j = i - 1 /\ i = j + 1 /\ j \in 0 .. n /\ i \in 0 .. n /\ j \in 0 .. Word
    <3>1. /\ i - 1 \in 0 .. Word - 1 /\ i = (i - 1) + 1 /\ i - 1 \in 0 .. n /\ i \in 0 .. n
          /\ i - 1 \in 0 .. Word
      BY <1>0
    <3>. QED
      BY <3>1
  <2>. QED
    BY <2>1, PowerIs, PowerAssumption
<1>5. \A i \in 1 .. n : sum[i] = sum[i - 1] + ((v \div P[i - 1]) % Radix) * P[i - 1]
  BY <1>1, <1>2, <1>4 DEF Digit
<1>6. v < P[n]
  BY <1>3
<1> HIDE DEF P
<1>7. sum[n] = v
  <2>1. P \in [0 .. n -> Nat] /\ P[0] = 1 /\ sum[0] = 0
    BY <1>2, <1>3
  <2>2. \A i \in 1 .. n : P[i] = Radix * P[i - 1] /\ P[i - 1] > 0
    BY <1>4
  <2>3. IsDigitSum(Radix, n, P, v, sum)
    BY <1>0, <1>5, <1>6, <2>1, <2>2, Zenon DEF IsDigitSum
  <2>. QED
    BY <2>3, DigitSum, Zenon
<1>. QED
  BY <1>1, <1>2, <1>7

\* In particular a number of one word.
LEMMA WordIs ==
  ASSUME NEW v \in Nat
  PROVE  /\ PutUint(v, Word) \in Seq(Value \X {<< >>}) /\ PutUint(v, Word) \in Bytes
         /\ Len(PutUint(v, Word)) = Word
         /\ v < Power(Word) => GetUint(PutUint(v, Word)) = v
<1>1. Word \in 0 .. Word
  BY Numbers
<1>. QED
  BY <1>1, PutUintIs, GetPut

\* Packets are bytes, of one of the lengths sent.
LEMMA PayloadIs ==
  ASSUME NEW p, IsPacket(p)
  PROVE  p \in Seq(Value \X {<< >>}) /\ p \in Bytes /\ Len(p) \in Lens /\ Len(p) \in Nat
<1>1. PICK s \in Senders, n \in Lens : p = [i \in 1 .. n |-> Byte(s)]
  BY DEF IsPacket, Payload
<1>2. s \in Value /\ n \in Nat
  BY Numbers DEF Value
<1>3. Byte(s) \in Value \X {<< >>} /\ Byte(s) \in AnyByte
  BY <1>2, ByteIs
<1>. QED
  BY <1>1, <1>2, <1>3 DEF Bytes

\* So is the padding.
LEMMA ZerosAre ==
  ASSUME NEW pad \in Nat
  PROVE  Zeros(pad) \in Bytes /\ Len(Zeros(pad)) = pad
<1>1. Byte(0) \in AnyByte
  BY ByteIs DEF Value
<1>. QED
  BY <1>1 DEF Zeros, Bytes

\* The bytes of f stand in str behind the first pos.
At(str, pos, f) ==
  /\ pos + Len(f) <= Len(str)
  /\ \A k \in 1 .. Len(f) : str[pos + k] = f[k]

\* Byte sequences are equal byte by byte.
LEMMA SameBytes ==
  ASSUME NEW a \in Bytes, NEW b \in Bytes, Len(a) = Len(b), \A k \in 1 .. Len(b) : a[k] = b[k]
  PROVE  a = b
BY DEF Bytes

\* The front of a sequence.
LEMMA TakeIs ==
  ASSUME NEW bs \in Bytes, NEW n \in Nat, n <= Len(bs)
  PROVE  Take(bs, n) \in Bytes /\ Len(Take(bs, n)) = n /\ \A k \in 1 .. n : Take(bs, n)[k] = bs[k]
BY DEF Take, Bytes

\* What is left of it.
LEMMA DropIs ==
  ASSUME NEW bs \in Bytes, NEW n \in Nat, n <= Len(bs)
  PROVE  /\ Drop(bs, n) \in Bytes /\ Len(Drop(bs, n)) = Len(bs) - n
         /\ \A k \in 1 .. Len(bs) - n : Drop(bs, n)[k] = bs[n + k]
BY DEF Drop, Bytes

\* Dropping twice.
LEMMA DropDrop ==
  ASSUME NEW bs \in Bytes, NEW n \in Nat, NEW m \in Nat, n + m <= Len(bs)
  PROVE  Drop(Drop(bs, n), m) = Drop(bs, n + m)
<1>1. Drop(bs, n) \in Bytes /\ Len(Drop(bs, n)) = Len(bs) - n
  BY DropIs
<1>2. /\ Drop(Drop(bs, n), m) \in Bytes /\ Len(Drop(Drop(bs, n), m)) = Len(bs) - n - m
      /\ \A k \in 1 .. Len(bs) - n - m : Drop(Drop(bs, n), m)[k] = Drop(bs, n)[m + k]
  BY <1>1, DropIs
<1>3. /\ Drop(bs, n + m) \in Bytes /\ Len(Drop(bs, n + m)) = Len(bs) - n - m
      /\ \A k \in 1 .. Len(bs) - n - m : Drop(bs, n + m)[k] = bs[n + m + k]
  BY DropIs
<1>4. \A k \in 1 .. Len(bs) - n - m : Drop(bs, n)[m + k] = bs[n + m + k]
  <2> TAKE k \in 1 .. Len(bs) - n - m
  <2>1. m + k \in 1 .. Len(bs) - n /\ n + (m + k) = n + m + k /\ n <= Len(bs)
    BY <1>1 DEF Bytes
  <2>. QED
    BY <2>1, DropIs
<1>5. \A k \in 1 .. Len(Drop(bs, n + m)) : Drop(Drop(bs, n), m)[k] = Drop(bs, n + m)[k]
  BY <1>2, <1>3, <1>4
<1>. QED
  BY <1>2, <1>3, <1>5, SameBytes

\* Two parts that stand one behind the other.
LEMMA AtBoth ==
  ASSUME NEW str \in Bytes, NEW pos \in Nat, NEW a \in Bytes, NEW b \in Bytes
  PROVE  /\ a \o b \in Bytes /\ Len(a \o b) = Len(a) + Len(b)
         /\ At(str, pos, a \o b) <=> At(str, pos, a) /\ At(str, pos + Len(a), b)
<1>1. a \o b \in Bytes /\ Len(a \o b) = Len(a) + Len(b) /\ Len(a) \in Nat /\ Len(b) \in Nat
      /\ Len(str) \in Nat
  BY DEF Bytes
<1>2. /\ \A k \in 1 .. Len(a) : (a \o b)[k] = a[k]
      /\ \A k \in 1 .. Len(b) : (a \o b)[Len(a) + k] = b[k]
  BY DEF Bytes
<1>3. ASSUME At(str, pos, a \o b) PROVE At(str, pos, a) /\ At(str, pos + Len(a), b)
  <2>1. \A k \in 1 .. Len(a) : str[pos + k] = a[k]
    BY <1>1, <1>2, <1>3 DEF At
  <2>2. \A k \in 1 .. Len(b) : str[pos + Len(a) + k] = b[k]
    <3> TAKE k \in 1 .. Len(b)
    <3>1. Len(a) + k \in 1 .. Len(a \o b) /\ pos + (Len(a) + k) = pos + Len(a) + k
      BY <1>1
    <3>. QED
      BY <1>2, <1>3, <3>1 DEF At
  <2>. QED
    BY <1>1, <1>3, <2>1, <2>2 DEF At
<1>4. ASSUME At(str, pos, a), At(str, pos + Len(a), b) PROVE At(str, pos, a \o b)
  <2>1. ASSUME NEW k \in 1 .. Len(a \o b) PROVE str[pos + k] = (a \o b)[k]
    <3>1. CASE k <= Len(a)
      BY <1>1, <1>2, <1>4, <2>1, <3>1 DEF At
    <3>2. CASE k > Len(a)
      <4>1. PICK j \in 1 .. Len(b) : k = Len(a) + j /\ pos + k = pos + Len(a) + j
        <5>1. k - Len(a) \in 1 .. Len(b) /\ k = Len(a) + (k - Len(a))
              /\ pos + k = pos + Len(a) + (k - Len(a))
          BY <1>1, <2>1, <3>2
        <5>. QED
          BY <5>1
      <4>. QED
        BY <1>2, <1>4, <4>1 DEF At
    <3>. QED
      BY <1>1, <2>1, <3>1, <3>2
  <2>. QED
    BY <1>1, <1>4, <2>1 DEF At
<1>. QED
  BY <1>1, <1>3, <1>4

\* What stands somewhere can be cut out there.
LEMMA CutOut ==
  ASSUME NEW bs \in Bytes, NEW f \in Bytes, NEW pos \in Nat, At(bs, pos, f)
  PROVE  SubSeq(bs, pos + 1, pos + Len(f)) = f
<1>1. Len(f) \in Nat /\ Len(bs) \in Nat /\ pos + Len(f) <= Len(bs)
  BY DEF At, Bytes
<1>2. /\ SubSeq(bs, pos + 1, pos + Len(f)) \in Bytes
      /\ Len(SubSeq(bs, pos + 1, pos + Len(f))) = Len(f)
      /\ \A k \in 1 .. Len(f) : SubSeq(bs, pos + 1, pos + Len(f))[k] = bs[pos + k]
  BY <1>1 DEF Bytes
<1>. QED
  BY <1>2, SameBytes DEF At

-----------------------------------------------------------------------------
(* Reading                                                                 *)

\* A packet of whole units is as long as its header says.
LEMMA Units ==
  ASSUME NEW n \in Nat, n % Unit = 0
  PROVE  n \div Unit \in Nat /\ (n \div Unit) * Unit = n
<1>1. Unit \in Nat /\ Unit > 0
  BY Numbers
<1> DEFINE u == Unit
<1>2. u \in Nat /\ u > 0 /\ n % u = 0
  BY <1>1
<1> HIDE DEF u
<1>3. n \div u \in Nat /\ n = u * (n \div u) + (n % u)
  BY <1>2
<1>4. (n \div u) * u = u * (n \div u)
  BY <1>2, <1>3
<1>5. (n \div u) * u = n
  BY <1>2, <1>3, <1>4
<1>. QED
  BY <1>3, <1>5 DEF u

\* A header is bytes.
LEMMA HeaderIs ==
  ASSUME NEW p, IsPacket(p), NEW pad \in Nat
  PROVE  Header(codec, p, pad) \in Bytes /\ Len(Header(codec, p, pad)) \in Nat
<1>1. Len(p) \in Nat /\ Word \in Nat /\ Word > 0 /\ Unit \in Nat /\ Unit > 0
  BY PayloadIs, Numbers
<1>2. PutUint(Len(p) + pad, Word) \in Bytes
  BY <1>1, PutUintIs
<1>3. PICK n : n \in Nat /\ n = Len(p) \div Unit
  BY <1>1
<1>4. <<Byte(n)>> \in Bytes /\ <<Byte(Escape)>> \in Bytes
  BY <1>3, ByteIs, Numbers DEF Bytes, Value
<1>5. PutUint(n, Word - 1) \in Bytes
  BY <1>1, <1>3, PutUintIs
<1>6. AbridgedHeader(n) \in Bytes
  BY <1>4, <1>5 DEF AbridgedHeader, Bytes
<1>. QED
  BY <1>2, <1>3, <1>6 DEF Header, Bytes

\* Behind a header a reader expects what the writer has to send.
LEMMA ReadHeader ==
  ASSUME NEW bs \in Bytes, NEW p, IsPacket(p), NEW pad \in Pads(codec),
         codec \in {"abridged", "intermediate", "padded"},
         codec = "abridged" => Len(p) % Unit = 0,
         At(bs, 0, Header(codec, p, pad))
  PROVE  ReadPacket(bs) = ReadBody(Len(p) + pad, Drop(bs, Len(Header(codec, p, pad))))
<1>0. /\ Len(p) \in Nat /\ Len(p) \in Lens /\ Word \in Nat /\ Word > 0 /\ MaxPad \in Nat
      /\ Len(bs) \in Nat /\ Escape \in Nat /\ Escape > 0
  BY PayloadIs, Numbers DEF Bytes
<1>1. pad \in Nat /\ pad \in 0 .. MaxPad /\ (codec # "padded" => pad = 0)
  BY <1>0 DEF Pads
<1>2. CASE codec # "abridged"
  <2>1. Header(codec, p, pad) = PutUint(Len(p) + pad, Word) /\ Len(Header(codec, p, pad)) = Word
        /\ Header(codec, p, pad) \in Bytes
    BY <1>0, <1>1, <1>2, PutUintIs DEF Header
  <2>2. Take(bs, Word) = PutUint(Len(p) + pad, Word) /\ Word <= Len(bs)
    <3>1. SubSeq(bs, 0 + 1, 0 + Len(Header(codec, p, pad))) = Header(codec, p, pad)
      BY <2>1, CutOut
    <3>2. 0 + 1 = 1 /\ 0 + Word = Word
      BY <1>0
    <3>. QED
      BY <1>0, <2>1, <3>1, <3>2 DEF Take, At
  <2>3. GetUint(Take(bs, Word)) = Len(p) + pad
    <3>1. PICK B \in Nat : B = Power(Word) /\ Len(p) + MaxPad < B
      <4>1. Word \in 0 .. Word
        BY <1>0
      <4>. QED
        BY <1>0, <4>1, PowerIs, HeadersAssumption
    <3>2. PICK v \in Nat : v = Len(p) + pad /\ v < B
      BY <1>0, <1>1, <3>1
    <3>. QED
      BY <2>2, <3>1, <3>2, WordIs
  <2>4. ReadPacket(bs) = ReadPrefixed(bs)
    BY <1>2 DEF ReadPacket
  <2>. QED
    BY <1>0, <2>1, <2>2, <2>3, <2>4 DEF ReadPrefixed
<1>3. CASE codec = "abridged"
  <2>0. PICK n \in Nat : n = Len(p) \div Unit /\ n * Unit = Len(p)
    BY <1>0, <1>3, Units
  <2>1. Header(codec, p, pad) = AbridgedHeader(n) /\ pad = 0 /\ Len(p) + pad = n * Unit
    BY <1>0, <1>1, <1>3, <2>0 DEF Header
  <2>2. ReadPacket(bs) = ReadAbridged(bs)
    BY <1>3 DEF ReadPacket
  <2>3. CASE n < Escape
    <3>1. Header(codec, p, pad) = <<Byte(n)>> /\ Len(Header(codec, p, pad)) = 1
      BY <2>1, <2>3 DEF AbridgedHeader
    <3>2. bs[1] = Byte(n) /\ Len(bs) >= 1
      <4>1. bs[0 + 1] = <<Byte(n)>>[1] /\ 0 + 1 <= Len(bs)
        BY <3>1 DEF At
      <4>. QED
        BY <1>0, <4>1
    <3>3. bs[1][1] = n
      BY <3>2, ByteIs DEF Value
    <3>4. ReadAbridged(bs) = ReadBody(n * Unit, Drop(bs, 1))
      BY <1>0, <2>3, <3>2, <3>3 DEF ReadAbridged
    <3>. QED
      BY <2>1, <2>2, <3>1, <3>4
  <2>4. CASE n >= Escape
    <3> DEFINE u == PutUint(n, Word - 1)
    <3>1. u \in Bytes /\ Len(u) = Word - 1
      BY <1>0, PutUintIs
    <3>2. <<Byte(Escape)>> \in Bytes /\ Len(<<Byte(Escape)>>) = 1 /\ Byte(Escape)[1] = Escape
      BY <1>0, ByteIs DEF Value, Bytes
    <3>3. Header(codec, p, pad) = <<Byte(Escape)>> \o u
      BY <1>0, <2>1, <2>4 DEF AbridgedHeader
    <3> HIDE DEF u
    <3>4. /\ Len(Header(codec, p, pad)) = Word
          /\ At(bs, 0, <<Byte(Escape)>>) /\ At(bs, 1, u)
      <4>1. PICK e \in Bytes : e = <<Byte(Escape)>> /\ Len(e) = 1 /\ Header(codec, p, pad) = e \o u
        BY <3>2, <3>3
      <4>3. At(bs, 0, e \o u)
        BY <4>1
      <4>4. /\ Len(e \o u) = Len(e) + Len(u)
            /\ At(bs, 0, e \o u) <=> At(bs, 0, e) /\ At(bs, 0 + Len(e), u)
        BY <3>1, AtBoth, Zenon
      <4>2. 0 + 1 = 1 /\ 1 + (Word - 1) = Word
        BY <1>0
      <4>. QED
        BY <3>1, <4>1, <4>2, <4>3, <4>4
    <3>5. bs[1] = Byte(Escape) /\ Len(bs) >= Word /\ Len(bs) >= 1
      <4>1. bs[0 + 1] = <<Byte(Escape)>>[1]
        BY <3>2, <3>4 DEF At
      <4>2. 1 + Len(u) <= Len(bs)
        BY <3>4 DEF At
      <4>. QED
        BY <1>0, <3>1, <4>1, <4>2
    <3>6. SubSeq(bs, 2, Word) = u
      <4>1. SubSeq(bs, 1 + 1, 1 + (Word - 1)) = u
        BY <3>1, <3>4, CutOut
      <4>2. 1 + 1 = 2 /\ 1 + (Word - 1) = Word
        BY <1>0
      <4>. QED
        BY <4>1, <4>2
    <3>7. GetUint(SubSeq(bs, 2, Word)) = n
      <4>1. n < Power(Word - 1)
        BY <1>0, <2>0, <2>4, HeadersAssumption
      <4>2. Word - 1 \in 0 .. Word
        BY <1>0
      <4>. QED
        BY <3>6, <4>1, <4>2, GetPut DEF u
    <3>8. bs[1][1] = Escape
      BY <3>2, <3>5
    <3>9. ReadAbridged(bs) = ReadBody(n * Unit, Drop(bs, Word))
      BY <1>0, <3>5, <3>7, <3>8 DEF ReadAbridged
    <3>. QED
      BY <2>1, <2>2, <3>4, <3>9
  <2>. QED
    BY <1>0, <2>3, <2>4
<1>. QED
  BY <1>2, <1>3

AllCodecs == {"abridged", "intermediate", "padded", "full"}

\* The codec can write p at all.
Writable(c, p) == IsPacket(p) /\ (c = "abridged" => Len(p) % Unit = 0)

\* A frame of p stands in str between two places.
FrameAt(c, str, pos, p, end) ==
  /\ Writable(c, p) /\ end <= Len(str)
  /\ \/ /\ c # "full"
        /\ \E pad \in Pads(c) :
             LET h == Header(c, p, pad)
             IN  /\ At(str, pos, h) /\ At(str, pos + Len(h), p)
                 /\ end = pos + Len(h) + Len(p) + pad
     \/ /\ c = "full"
        /\ \E seq \in Nat : At(str, pos, FullFrame(p, seq))
        /\ end = pos + Len(p) + 3 * Word

\* The bytes of a frame that its checksum is taken of.
Front(p, seq) == (PutUint(Len(p) + 3 * Word, Word) \o PutUint(seq, Word)) \o p

\* A frame of the full codec: its front, and the checksum of this.
LEMMA FullIs ==
  ASSUME NEW p, IsPacket(p), NEW seq \in Nat
  PROVE  /\ FullFrame(p, seq) = Front(p, seq) \o Checksum(Front(p, seq))
         /\ Front(p, seq) \in Bytes /\ Len(Front(p, seq)) = Len(p) + 2 * Word
         /\ Checksum(Front(p, seq)) \in Bytes /\ Len(Checksum(Front(p, seq))) = Word
         /\ FullFrame(p, seq) \in Bytes /\ Len(FullFrame(p, seq)) = Len(p) + 3 * Word
<1>0. Len(p) \in Nat /\ Word \in Nat
  BY PayloadIs, Numbers
<1>1. FullFrame(p, seq) = Front(p, seq) \o Checksum(Front(p, seq))
  BY DEF FullFrame, Front
<1>a. PICK a \in Bytes : /\ a = PutUint(Len(p) + 3 * Word, Word)
                         /\ a \in Seq(Value \X {<< >>}) /\ Len(a) = Word
  <2>1. Len(p) + 3 * Word \in Nat
    BY <1>0
  <2>. QED
    BY <1>0, <2>1, WordIs, Zenon
<1>b. PICK b \in Bytes : /\ b = PutUint(seq, Word)
                         /\ b \in Seq(Value \X {<< >>}) /\ Len(b) = Word
  BY <1>0, WordIs, Zenon
<1>3. p \in Seq(Value \X {<< >>}) /\ p \in Bytes
  BY PayloadIs
<1>4. PICK f : f = Front(p, seq) /\ f = (a \o b) \o p
  BY <1>a, <1>b DEF Front
<1>5. f \in Seq(Value \X {<< >>})
  BY <1>a, <1>b, <1>3, <1>4
<1>6. f \in Bytes /\ Len(f) = Len(p) + 2 * Word
  <2>1. a \o b \in Bytes /\ Len(a \o b) = Len(a) + Len(b)
    BY DEF Bytes
  <2>2. f \in Bytes /\ Len(f) = Len(a \o b) + Len(p)
    BY <1>3, <1>4, <2>1 DEF Bytes
  <2>3. Len(a) = Word /\ Len(b) = Word
    BY <1>a, <1>b
  <2>. QED
    BY <1>0, <2>1, <2>2, <2>3
<1>7. Checksum(f) \in Bytes /\ Len(Checksum(f)) = Word
  <2>1. <<0, f>> \in AnyByte
    BY <1>5 DEF AnyByte, Value
  <2>. QED
    BY <1>0, <2>1 DEF Checksum, Bytes
<1>8. f \o Checksum(f) \in Bytes /\ Len(f \o Checksum(f)) = Len(f) + Word
  <2>1. PICK c \in Bytes : c = Checksum(f) /\ Len(c) = Word
    BY <1>7
  <2>2. f \in Bytes
    BY <1>6
  <2>3. f \o c \in Bytes /\ Len(f \o c) = Len(f) + Len(c)
    BY <2>2 DEF Bytes
  <2>. QED
    BY <2>1, <2>3
<1>9. Len(f \o Checksum(f)) = Len(p) + 3 * Word
  BY <1>0, <1>6, <1>8
<1>. QED
  BY <1>1, <1>4, <1>6, <1>7, <1>8, <1>9

\* A reader that finds a frame takes it, or refuses it for its length.
LEMMA ReadFrame ==
  ASSUME NEW bs \in Bytes, NEW p, NEW e \in Nat, FrameAt(codec, bs, 0, p, e), codec \in AllCodecs
  PROVE  \/ ReadPacket(bs) = Refused("length") /\ ~Fits(p)
         \/ \E q \in Bytes : ReadPacket(bs) = Accepted(q, Drop(bs, e)) /\ IsPadded(p, q)
<1>0. /\ Len(p) \in Nat /\ Len(p) \in Lens /\ Word \in Nat /\ Word > 0 /\ MaxPad \in Nat
      /\ Len(bs) \in Nat /\ MaxLen \in Nat /\ IsPacket(p) /\ p \in Bytes /\ e <= Len(bs)
  BY PayloadIs, Numbers DEF Bytes, FrameAt, Writable
<1>1. CASE codec # "full"
  <2>1. PICK pad \in Pads(codec) :
           LET h == Header(codec, p, pad)
           IN  /\ At(bs, 0, h) /\ At(bs, 0 + Len(h), p)
               /\ e = 0 + Len(h) + Len(p) + pad
    BY <1>1 DEF FrameAt
  <2>2. pad \in Nat /\ pad <= MaxPad /\ (codec # "padded" => pad = 0)
    BY <1>0 DEF Pads
  <2>3. PICK h : h \in Bytes /\ h = Header(codec, p, pad) /\ Len(h) \in Nat
    BY <1>0, <2>2, HeaderIs
  <2>4. At(bs, Len(h), p) /\ e = Len(h) + (Len(p) + pad)
    <3>1. 0 + Len(h) = Len(h) /\ 0 + Len(h) + Len(p) + pad = Len(h) + (Len(p) + pad)
      BY <1>0, <2>2, <2>3
    <3>. QED
      BY <2>1, <2>3, <3>1
  <2>5. ReadPacket(bs) = ReadBody(Len(p) + pad, Drop(bs, Len(h)))
    <3>1. codec \in {"abridged", "intermediate", "padded"}
      BY <1>1 DEF AllCodecs
    <3>2. codec = "abridged" => Len(p) % Unit = 0
      BY DEF FrameAt, Writable
    <3>. QED
      BY <1>0, <2>1, <2>3, <3>1, <3>2, ReadHeader
  <2> DEFINE l == Len(p) + pad
             r == Drop(bs, Len(h))
  <2>6. l \in Nat /\ Len(h) + l <= Len(bs) /\ Len(h) <= Len(bs)
    BY <1>0, <2>2, <2>3, <2>4
  <2>7. r \in Bytes /\ Len(r) = Len(bs) - Len(h)
        /\ \A k \in 1 .. Len(bs) - Len(h) : r[k] = bs[Len(h) + k]
    BY <2>3, <2>6, DropIs
  <2>8. Drop(r, l) = Drop(bs, e)
    BY <2>3, <2>4, <2>6, DropDrop
  <2>9. Len(p) <= l /\ l - Len(p) <= (IF codec = "padded" THEN MaxPad ELSE 0)
    BY <1>0, <2>2
  <2>10. \A k \in 1 .. Len(p) : r[k] = p[k]
    <3> TAKE k \in 1 .. Len(p)
    <3>1. k \in 1 .. Len(bs) - Len(h)
      BY <1>0, <2>3, <2>6, <2>9
    <3>. QED
      BY <2>4, <2>7, <3>1 DEF At
  <2>11. l <= 0 \/ l > MaxLen => ~Fits(p)
    BY <1>0, <1>1, <2>2 DEF Fits
  <2> HIDE DEF l, r
  <2>12. l <= Len(r)
    BY <1>0, <2>3, <2>6, <2>7
  <2>13. CASE l <= 0 \/ l > MaxLen
    BY <2>5, <2>11, <2>13 DEF ReadBody, l, r
  <2>14. CASE ~(l <= 0 \/ l > MaxLen)
    <3>1. ReadPacket(bs) = Accepted(Take(r, l), Drop(bs, e))
      <4>1. ReadPacket(bs) = ReadBody(l, r)
        BY <2>5 DEF l, r
      <4>2. ~(Len(r) < l)
        BY <2>6, <2>12, <2>7, <1>0, <2>3
      <4>. QED
        BY <2>8, <2>14, <4>1, <4>2 DEF ReadBody
    <3>2. PICK q \in Bytes : q = Take(r, l) /\ Len(q) = l /\ \A k \in 1 .. l : q[k] = r[k]
      BY <2>6, <2>7, <2>12, TakeIs
    <3>3. Take(q, Len(p)) = p
      <4>1. Take(q, Len(p)) \in Bytes /\ Len(Take(q, Len(p))) = Len(p)
            /\ \A k \in 1 .. Len(p) : Take(q, Len(p))[k] = q[k]
        BY <1>0, <2>9, <3>2, TakeIs
      <4>2. \A k \in 1 .. Len(p) : q[k] = p[k]
        BY <1>0, <2>6, <2>9, <2>10, <3>2
      <4>. QED
        BY <1>0, <4>1, <4>2, SameBytes
    <3>4. IsPadded(p, q)
      BY <2>9, <3>2, <3>3 DEF IsPadded
    <3>. QED
      BY <3>1, <3>2, <3>4
  <2>. QED
    BY <2>13, <2>14
<1>2. CASE codec = "full"
  <2>1. PICK seq \in Nat : At(bs, 0, FullFrame(p, seq))
    BY <1>2 DEF FrameAt
  <2>2. e = Len(p) + 3 * Word
    BY <1>0, <1>2 DEF FrameAt
  <2>3. Word \in Nat /\ Len(p) \in Nat /\ Len(p) + 3 * Word \in Nat
    BY <1>0
  <2>a. PICK a \in Bytes : a = PutUint(Len(p) + 3 * Word, Word) /\ Len(a) = Word
    BY <2>3, WordIs, Zenon
  <2>b. PICK b \in Bytes : b = PutUint(seq, Word) /\ Len(b) = Word
    BY <2>3, WordIs, Zenon
  <2>f. PICK f \in Bytes : /\ f = Front(p, seq) /\ f = (a \o b) \o p
                           /\ Len(f) = Len(p) + 2 * Word
    BY <1>0, <2>a, <2>b, FullIs DEF Front
  <2>c. PICK c \in Bytes : c = Checksum(f) /\ Len(c) = Word /\ FullFrame(p, seq) = f \o c
    <3>1. /\ FullFrame(p, seq) = Front(p, seq) \o Checksum(Front(p, seq))
          /\ Checksum(Front(p, seq)) \in Bytes /\ Len(Checksum(Front(p, seq))) = Word
      <4>1. IsPacket(p)
        BY <1>0
      <4>. QED
        BY <4>1, FullIs, Zenon
    <3>2. f = Front(p, seq)
      BY <2>f
    <3>. QED
      BY <3>1, <3>2, Zenon
  <2>4. At(bs, 0, f) /\ At(bs, 0 + Len(f), c)
    <3>1. At(bs, 0, f \o c)
      BY <2>1, <2>c
    <3>. QED
      BY <3>1, AtBoth, 0 \in Nat, Zenon
  <2>5. a \o b \in Bytes /\ Len(a \o b) = Len(a) + Len(b)
    BY DEF Bytes
  <2>6. At(bs, 0, a \o b) /\ At(bs, 0 + Len(a \o b), p)
    <3>1. At(bs, 0, (a \o b) \o p)
      BY <2>4, <2>f
    <3>. QED
      BY <1>0, <2>5, <3>1, AtBoth, 0 \in Nat, Zenon
  <2>7. At(bs, 0, a)
    BY <2>6, AtBoth, 0 \in Nat, Zenon
  <2>8. SubSeq(bs, 1, Word) = a /\ Word <= Len(bs)
    <3>1. SubSeq(bs, 0 + 1, 0 + Len(a)) = a
      BY <2>7, CutOut, 0 \in Nat, Zenon
    <3>2. 0 + 1 = 1 /\ 0 + Len(a) = Word /\ Word <= Len(bs)
      BY <1>0, <2>a, <2>2
    <3>. QED
      BY <3>1, <3>2
  <2>9. GetUint(Take(bs, Word)) = e
    <3>1. e \in Nat /\ e < Power(Word)
      BY <1>0, <2>2, HeadersAssumption
    <3>2. Take(bs, Word) = PutUint(e, Word)
      BY <2>2, <2>a, <2>8 DEF Take
    <3>. QED
      BY <3>1, <3>2, WordIs
  <2>10. SubSeq(bs, 2 * Word + 1, e - Word) = p
    <3>1. SubSeq(bs, 0 + Len(a \o b) + 1, 0 + Len(a \o b) + Len(p)) = p
      <4>1. 0 + Len(a \o b) \in Nat
        BY <1>0, <2>a, <2>b, <2>5
      <4>. QED
        BY <1>0, <2>6, <4>1, CutOut, Zenon
    <3>2. 0 + Len(a \o b) + 1 = 2 * Word + 1 /\ 0 + Len(a \o b) + Len(p) = e - Word
      <4>1. Len(a) = Word /\ Len(b) = Word
        BY <2>a, <2>b
      <4>. QED
        BY <1>0, <2>2, <2>5, <4>1
    <3>. QED
      BY <3>1, <3>2
  <2>11. Take(bs, e - Word) = f
    <3>1. SubSeq(bs, 0 + 1, 0 + Len(f)) = f
      BY <2>4, CutOut, 0 \in Nat, Zenon
    <3>2. 0 + 1 = 1 /\ 0 + Len(f) = e - Word
      <4>1. Len(f) = Len(p) + 2 * Word
        BY <2>f
      <4>. QED
        BY <1>0, <2>2, <4>1
    <3>. QED
      BY <3>1, <3>2 DEF Take
  <2>12. SubSeq(bs, e - Word + 1, e) = c
    <3>1. SubSeq(bs, 0 + Len(f) + 1, 0 + Len(f) + Len(c)) = c
      <4>1. 0 + Len(f) \in Nat
        BY DEF Bytes
      <4>. QED
        BY <2>4, <4>1, CutOut, Zenon
    <3>2. 0 + Len(f) + 1 = e - Word + 1 /\ 0 + Len(f) + Len(c) = e
      <4>1. Len(f) = Len(p) + 2 * Word /\ Len(c) = Word
        BY <2>f, <2>c
      <4>. QED
        BY <1>0, <2>2, <4>1
    <3>. QED
      BY <3>1, <3>2
  <2>13. ReadPacket(bs) = ReadFull(bs)
    BY <1>2 DEF ReadPacket
  <2>14. ~(Len(bs) < Word) /\ ~(Len(bs) < e) /\ ~(e < 3 * Word)
    BY <1>0, <2>2
  <2>15. CASE e > MaxLen
    <3>1. ~Fits(p)
      BY <1>0, <1>2, <2>2, <2>15 DEF Fits
    <3>2. ReadFull(bs) = Refused("length")
      BY <2>9, <2>14, <2>15 DEF ReadFull
    <3>. QED
      BY <2>13, <3>1, <3>2
  <2>16. CASE ~(e > MaxLen)
    <3>1. SubSeq(bs, e - Word + 1, e) = Checksum(Take(bs, e - Word))
      BY <2>c, <2>11, <2>12
    <3>2. ReadFull(bs) = Accepted(p, Drop(bs, e))
      BY <2>9, <2>10, <2>14, <2>16, <3>1 DEF ReadFull
    <3>3. IsPadded(p, p)
      <4>1. Take(p, Len(p)) = p
        BY <1>0 DEF Take, Bytes
      <4>. QED
        BY <1>0, <1>2, <4>1 DEF IsPadded
    <3>. QED
      BY <1>0, <2>13, <3>2, <3>3
  <2>. QED
    BY <2>15, <2>16
<1>. QED
  BY <1>1, <1>2

-----------------------------------------------------------------------------
(* Writing                                                                 *)

\* Behind the first pos bytes of str stands as much of a frame of p as has been
\* written, and ps are the Writes that are still to be made.
Begun(c, str, pos, ps, p) ==
  /\ Writable(c, p)
  /\ \/ /\ c = "full" /\ Len(str) = pos
        /\ \E seq \in Nat : ps = <<FullFrame(p, seq)>>
     \/ /\ c # "full"
        /\ \E pad \in Pads(c) :
             LET h == Header(c, p, pad)
             IN  \/ /\ Len(str) = pos
                    /\ \/ pad = 0 /\ ps = <<h, p>>
                       \/ pad > 0 /\ ps = <<h, p, Zeros(pad)>>
                 \/ /\ At(str, pos, h) /\ Len(str) = pos + Len(h)
                    /\ \/ pad = 0 /\ ps = <<p>>
                       \/ pad > 0 /\ ps = <<p, Zeros(pad)>>
                 \/ /\ At(str, pos, h) /\ At(str, pos + Len(h), p)
                    /\ Len(str) = pos + Len(h) + Len(p)
                    /\ pad > 0 /\ ps = <<Zeros(pad)>>

\* When WritePacket begins, nothing of the frame has been written.
LEMMA BeginIs ==
  ASSUME NEW str, NEW p, Writable(codec, p), NEW pad \in Pads(codec),
         sendSeq \in Nat, codec \in AllCodecs
  PROVE  Begun(codec, str, Len(str), WritePacket(p, pad), p)
<1>0. Len(p) \in Nat /\ MaxPad \in Nat
  BY PayloadIs, Numbers DEF Writable
<1>1. pad \in Nat /\ (codec # "padded" => pad = 0)
  BY <1>0 DEF Pads
<1>2. CASE codec = "full"
  <2>1. WritePacket(p, pad) = <<FullFrame(p, sendSeq)>>
    BY <1>2 DEF WritePacket
  <2>. QED
    BY <1>2, <2>1 DEF Begun
<1>3. CASE codec # "full"
  <2>1. CASE pad = 0
    <3>1. WritePacket(p, pad) = <<Header(codec, p, pad), p>>
      <4>1. CASE codec = "abridged"
        BY <4>1 DEF WritePacket, Header
      <4>2. CASE codec = "intermediate"
        <5>1. Len(p) + pad = Len(p)
          BY <1>0, <2>1
        <5>. QED
          BY <4>2, <5>1 DEF WritePacket, Header
      <4>3. CASE codec = "padded"
        <5>1. ~(pad > 0)
          BY <2>1
        <5>. QED
          BY <4>3, <5>1 DEF WritePacket, Header
      <4>. QED
        BY <1>3, <4>1, <4>2, <4>3 DEF AllCodecs
    <3>. QED
      BY <1>3, <2>1, <3>1 DEF Begun
  <2>2. CASE pad > 0
    <3>1. codec = "padded"
      BY <1>1, <2>2
    <3>2. WritePacket(p, pad) = <<Header(codec, p, pad), p, Zeros(pad)>>
      BY <2>2, <3>1 DEF WritePacket, Header, Zeros
    <3>. QED
      BY <1>3, <2>2, <3>2 DEF Begun
  <2>. QED
    BY <1>1, <2>1, <2>2
<1>. QED
  BY <1>2, <1>3

\* What has been written of a frame is not read, unless for its length.
LEMMA ReadBegun ==
  ASSUME NEW bs \in Bytes, NEW p, NEW ps, Begun(codec, bs, 0, ps, p), codec \in AllCodecs
  PROVE  \/ ReadPacket(bs) = NeedMore
         \/ ReadPacket(bs) = Refused("length") /\ ~Fits(p)
<1>0. /\ Len(p) \in Nat /\ Word \in Nat /\ Word > 0 /\ MaxPad \in Nat /\ MaxLen \in Nat
      /\ Len(bs) \in Nat /\ IsPacket(p)
  BY PayloadIs, Numbers DEF Bytes, Begun, Writable
<1>1. CASE Len(bs) = 0
  BY <1>0, <1>1 DEF ReadPacket, ReadAbridged, ReadFull, ReadPrefixed, AllCodecs
<1>2. CASE Len(bs) # 0
  <2>1. PICK pad \in Pads(codec) :
           /\ codec # "full" /\ At(bs, 0, Header(codec, p, pad))
           /\ \/ Len(bs) = 0 + Len(Header(codec, p, pad))
              \/ pad > 0 /\ Len(bs) = 0 + Len(Header(codec, p, pad)) + Len(p)
    BY <1>2 DEF Begun
  <2>2. pad \in Nat /\ pad <= MaxPad /\ (codec # "padded" => pad = 0)
    BY <1>0 DEF Pads
  <2>3. PICK h : h \in Bytes /\ h = Header(codec, p, pad) /\ Len(h) \in Nat
    BY <1>0, <2>2, HeaderIs
  <2>4. ReadPacket(bs) = ReadBody(Len(p) + pad, Drop(bs, Len(h)))
    <3>1. codec \in {"abridged", "intermediate", "padded"}
      BY <2>1 DEF AllCodecs
    <3>2. codec = "abridged" => Len(p) % Unit = 0
      BY DEF Begun, Writable
    <3>. QED
      BY <1>0, <2>1, <2>3, <3>1, <3>2, ReadHeader
  <2>5. PICK l : l = Len(p) + pad /\ l \in Nat
    BY <1>0, <2>2
  <2>6. PICK r : r = Drop(bs, Len(h)) /\ Len(r) = Len(bs) - Len(h)
    <3>1. Len(h) <= Len(bs)
      BY <1>0, <2>1, <2>2, <2>3
    <3>. QED
      BY <2>3, <3>1, DropIs
  <2>7. Len(r) = 0 \/ (pad > 0 /\ Len(r) = Len(p))
    BY <1>0, <2>1, <2>3, <2>6
  <2>8. l = 0 \/ Len(r) < l
    BY <1>0, <2>2, <2>5, <2>7
  <2>9. l <= 0 \/ l > MaxLen => ~Fits(p)
    BY <1>0, <2>1, <2>2, <2>5 DEF Fits
  <2>10. ReadPacket(bs) = ReadBody(l, r)
    BY <2>4, <2>5, <2>6
  <2>11. l = 0 => l <= 0
    OBVIOUS
  <2>. QED
    BY <2>8, <2>9, <2>10, <2>11 DEF ReadBody
<1>. QED
  BY <1>1, <1>2

\* More bytes behind it change nothing about what stands in front.
LEMMA AtLonger ==
  ASSUME NEW str \in Bytes, NEW x \in Bytes, NEW pos \in Nat, NEW f \in Bytes
  PROVE  /\ str \o x \in Bytes /\ Len(str \o x) = Len(str) + Len(x)
         /\ At(str, pos, f) => At(str \o x, pos, f)
         /\ At(str \o x, Len(str), x)
<1>1. str \o x \in Bytes /\ Len(str \o x) = Len(str) + Len(x)
  BY DEF Bytes
<1>2. /\ Len(str) \in Nat /\ Len(x) \in Nat /\ Len(f) \in Nat
      /\ \A k \in 1 .. Len(str) : (str \o x)[k] = str[k]
      /\ \A k \in 1 .. Len(x) : (str \o x)[Len(str) + k] = x[k]
  BY DEF Bytes
<1>3. ASSUME At(str, pos, f) PROVE At(str \o x, pos, f)
  <2>1. pos + Len(f) <= Len(str) /\ \A k \in 1 .. Len(f) : str[pos + k] = f[k]
    BY <1>3 DEF At
  <2>2. \A k \in 1 .. Len(f) : pos + k \in 1 .. Len(str)
    BY <1>2, <2>1
  <2>3. \A k \in 1 .. Len(f) : (str \o x)[pos + k] = f[k]
    BY <1>2, <2>1, <2>2
  <2>. QED
    BY <1>1, <1>2, <2>1, <2>3 DEF At
<1>4. At(str \o x, Len(str), x)
  BY <1>1, <1>2 DEF At
<1>. QED
  BY <1>1, <1>3, <1>4

\* Nor about a frame.
LEMMA FrameLonger ==
  ASSUME NEW str \in Bytes, NEW x \in Bytes, NEW pos \in Nat, NEW p, NEW end \in Nat,
         FrameAt(codec, str, pos, p, end)
  PROVE  FrameAt(codec, str \o x, pos, p, end)
<1>0. /\ Len(p) \in Nat /\ IsPacket(p) /\ p \in Bytes /\ MaxPad \in Nat
      /\ Len(str) \in Nat /\ Len(x) \in Nat
  BY PayloadIs, Numbers DEF FrameAt, Writable, Bytes
<1>1. end <= Len(str \o x)
  <2>1. Len(str \o x) = Len(str) + Len(x)
    BY DEF Bytes
  <2>. QED
    BY <1>0, <2>1 DEF FrameAt
<1>2. CASE codec # "full"
  <2>1. PICK pad \in Pads(codec) :
           LET h == Header(codec, p, pad)
           IN  /\ At(str, pos, h) /\ At(str, pos + Len(h), p)
               /\ end = pos + Len(h) + Len(p) + pad
    BY <1>2 DEF FrameAt
  <2>2. PICK h \in Bytes : h = Header(codec, p, pad) /\ Len(h) \in Nat
    <3>1. pad \in Nat
      BY <1>0 DEF Pads
    <3>. QED
      BY <1>0, <3>1, HeaderIs
  <2>3. At(str \o x, pos, h)
    BY <2>1, <2>2, AtLonger
  <2>4. At(str \o x, pos + Len(h), p)
    <3>1. pos + Len(h) \in Nat
      BY <2>2
    <3>. QED
      BY <1>0, <2>1, <2>2, <3>1, AtLonger
  <2>. QED
    BY <1>1, <1>2, <2>1, <2>2, <2>3, <2>4 DEF FrameAt
<1>3. CASE codec = "full"
  <2>1. PICK seq \in Nat : At(str, pos, FullFrame(p, seq))
    BY <1>3 DEF FrameAt
  <2>2. At(str \o x, pos, FullFrame(p, seq))
    BY <1>0, <2>1, FullIs, AtLonger
  <2>. QED
    BY <1>1, <1>3, <2>2 DEF FrameAt
<1>. QED
  BY <1>2, <1>3

\* There is a piece to write as long as a frame is begun.
LEMMA PiecesAre ==
  ASSUME NEW str, NEW pos, NEW ps, NEW p, Begun(codec, str, pos, ps, p)
  PROVE  /\ ps \in Seq(Bytes) /\ Len(ps) > 0 /\ Head(ps) \in Bytes
<1>0. IsPacket(p) /\ p \in Bytes /\ MaxPad \in Nat
  BY PayloadIs, Numbers DEF Begun, Writable
<1>1. CASE codec = "full"
  <2>1. PICK seq \in Nat : ps = <<FullFrame(p, seq)>>
    BY <1>1 DEF Begun
  <2>2. FullFrame(p, seq) \in Bytes
    BY <1>0, FullIs
  <2>. QED
    BY <2>1, <2>2
<1>2. CASE codec # "full"
  <2>1. PICK pad \in Pads(codec) :
           \/ ps = <<Header(codec, p, pad), p>>
           \/ ps = <<Header(codec, p, pad), p, Zeros(pad)>>
           \/ ps = <<p>> \/ ps = <<p, Zeros(pad)>> \/ ps = <<Zeros(pad)>>
    BY <1>2 DEF Begun
  <2>2. PICK h \in Bytes, z \in Bytes : h = Header(codec, p, pad) /\ z = Zeros(pad)
    <3>1. pad \in Nat
      BY <1>0 DEF Pads
    <3>. QED
      BY <1>0, <3>1, HeaderIs, ZerosAre
  <2>3. ps = <<h, p>> \/ ps = <<h, p, z>> \/ ps = <<p>> \/ ps = <<p, z>> \/ ps = <<z>>
    BY <2>1, <2>2
  <2>4. CASE ps = <<h, p>>
    BY <1>0, <2>4
  <2>5. CASE ps = <<h, p, z>>
    BY <1>0, <2>5
  <2>6. CASE ps = <<p>>
    BY <1>0, <2>6
  <2>7. CASE ps = <<p, z>>
    BY <1>0, <2>7
  <2>8. CASE ps = <<z>>
    BY <2>8
  <2>. QED
    BY <2>3, <2>4, <2>5, <2>6, <2>7, <2>8
<1>. QED
  BY <1>1, <1>2

\* One Write: the frame has grown by a piece, or is complete.
LEMMA PieceWritten ==
  ASSUME NEW str \in Bytes, NEW pos \in Nat, NEW ps, NEW p, Begun(codec, str, pos, ps, p)
  PROVE  /\ Len(ps) > 1 => Begun(codec, str \o Head(ps), pos, Tail(ps), p)
         /\ Len(ps) = 1 => FrameAt(codec, str \o Head(ps), pos, p, Len(str \o Head(ps)))
<1>0. /\ IsPacket(p) /\ p \in Bytes /\ Len(p) \in Nat /\ MaxPad \in Nat /\ Len(str) \in Nat
      /\ Writable(codec, p) /\ Word \in Nat
  BY PayloadIs, Numbers DEF Begun, Writable, Bytes
<1>1. CASE codec = "full"
  <2>1. PICK seq \in Nat : ps = <<FullFrame(p, seq)>> /\ Len(str) = pos
    BY <1>1 DEF Begun
  <2>2. PICK f \in Bytes : f = FullFrame(p, seq) /\ Len(f) = Len(p) + 3 * Word
    BY <1>0, FullIs
  <2>3. Len(ps) = 1 /\ Head(ps) = f
    BY <2>1, <2>2
  <2>4. At(str \o f, pos, f) /\ Len(str \o f) = Len(str) + Len(f)
    BY <2>1, AtLonger
  <2>5. Len(str \o f) = pos + Len(p) + 3 * Word
    BY <1>0, <2>1, <2>2, <2>4
  <2>6. FrameAt(codec, str \o f, pos, p, Len(str \o f))
    <3>1. Len(str \o f) <= Len(str \o f)
      BY <1>0, <2>2, <2>4
    <3>. QED
      BY <1>0, <1>1, <2>2, <2>4, <2>5, <3>1 DEF FrameAt
  <2>7. ~(Len(ps) > 1)
    BY <2>3
  <2>. QED
    BY <2>3, <2>6, <2>7
<1>2. CASE codec # "full"
  <2>1. PICK pad, h, z :
          /\ pad \in Pads(codec) /\ h = Header(codec, p, pad) /\ z = Zeros(pad)
          /\ \/ /\ Len(str) = pos
                /\ \/ pad = 0 /\ ps = <<h, p>>
                   \/ pad > 0 /\ ps = <<h, p, z>>
             \/ /\ At(str, pos, h) /\ Len(str) = pos + Len(h)
                /\ \/ pad = 0 /\ ps = <<p>>
                   \/ pad > 0 /\ ps = <<p, z>>
             \/ /\ At(str, pos, h) /\ At(str, pos + Len(h), p)
                /\ Len(str) = pos + Len(h) + Len(p)
                /\ pad > 0 /\ ps = <<z>>
    BY <1>2 DEF Begun
  <2>2. pad \in Nat
    BY <1>0, <2>1 DEF Pads
  <2>3. h \in Bytes /\ Len(h) \in Nat /\ z \in Bytes /\ Len(z) = pad
    BY <1>0, <2>1, <2>2, HeaderIs, ZerosAre
  <2>4. ASSUME Len(str) = pos, ps = <<h, p>> \/ ps = <<h, p, z>>
        PROVE  At(str \o h, pos, h) /\ Len(str \o h) = pos + Len(h) /\ Head(ps) = h
    <3>1. At(str \o h, pos, h) /\ Len(str \o h) = Len(str) + Len(h)
      BY <2>3, <2>4, AtLonger
    <3>. QED
      BY <2>4, <3>1
  <2>5. CASE Len(str) = pos /\ pad = 0 /\ ps = <<h, p>>
    <3>1. Len(ps) = 2 /\ Tail(ps) = <<p>>
      BY <2>5
    <3>. QED
      BY <1>0, <1>2, <2>1, <2>4, <2>5, <3>1 DEF Begun
  <2>6. CASE Len(str) = pos /\ pad > 0 /\ ps = <<h, p, z>>
    <3>1. Len(ps) = 3 /\ Tail(ps) = <<p, z>>
      BY <2>6
    <3>. QED
      BY <1>0, <1>2, <2>1, <2>4, <2>6, <3>1 DEF Begun
  <2>7. ASSUME At(str, pos, h), Len(str) = pos + Len(h), ps = <<p>> \/ ps = <<p, z>>
        PROVE  /\ At(str \o p, pos, h) /\ At(str \o p, pos + Len(h), p) /\ Head(ps) = p
               /\ Len(str \o p) = pos + Len(h) + Len(p)
    <3>1. /\ At(str \o p, pos, h) /\ At(str \o p, Len(str), p)
          /\ Len(str \o p) = Len(str) + Len(p)
      BY <1>0, <2>3, <2>7, AtLonger
    <3>. QED
      BY <2>7, <3>1
  <2>8. CASE At(str, pos, h) /\ Len(str) = pos + Len(h) /\ pad = 0 /\ ps = <<p>>
    <3>1. Len(ps) = 1 /\ ~(Len(ps) > 1)
      BY <2>8
    <3>2. Len(str \o p) = pos + Len(h) + Len(p) + pad /\ Len(str \o p) <= Len(str \o p)
      BY <1>0, <2>3, <2>7, <2>8
    <3>3. FrameAt(codec, str \o p, pos, p, Len(str \o p))
      BY <1>0, <1>2, <2>1, <2>7, <2>8, <3>2 DEF FrameAt
    <3>. QED
      BY <2>7, <2>8, <3>1, <3>3
  <2>9. CASE At(str, pos, h) /\ Len(str) = pos + Len(h) /\ pad > 0 /\ ps = <<p, z>>
    <3>1. Len(ps) = 2 /\ Tail(ps) = <<z>>
      BY <2>9
    <3>. QED
      BY <1>0, <1>2, <2>1, <2>7, <2>9, <3>1 DEF Begun
  <2>10. CASE /\ At(str, pos, h) /\ At(str, pos + Len(h), p)
              /\ Len(str) = pos + Len(h) + Len(p)
              /\ pad > 0 /\ ps = <<z>>
    <3>1. Len(ps) = 1 /\ ~(Len(ps) > 1) /\ Head(ps) = z
      BY <2>10
    <3>2. At(str \o z, pos, h) /\ Len(str \o z) = Len(str) + Len(z)
      BY <2>3, <2>10, AtLonger
    <3>3. At(str \o z, pos + Len(h), p)
      <4>1. pos + Len(h) \in Nat
        BY <2>3
      <4>. QED
        BY <1>0, <2>3, <2>10, <4>1, AtLonger
    <3>4. Len(str \o z) = pos + Len(h) + Len(p) + pad /\ Len(str \o z) <= Len(str \o z)
      BY <1>0, <2>2, <2>3, <2>10, <3>2
    <3>5. FrameAt(codec, str \o z, pos, p, Len(str \o z))
      BY <1>0, <1>2, <2>1, <3>2, <3>3, <3>4 DEF FrameAt
    <3>. QED
      BY <3>1, <3>5
  <2>. QED
    BY <2>1, <2>5, <2>6, <2>8, <2>9, <2>10
<1>. QED
  BY <1>1, <1>2

\* Reading takes bytes away in front, and moves what stands behind.
LEMMA AtDrop ==
  ASSUME NEW str \in Bytes, NEW n \in Nat, n <= Len(str), NEW pos \in Nat, NEW f \in Bytes,
         At(str, n + pos, f)
  PROVE  At(Drop(str, n), pos, f)
<1>1. /\ Len(str) \in Nat /\ Len(f) \in Nat /\ n + pos + Len(f) <= Len(str)
      /\ \A k \in 1 .. Len(f) : str[n + pos + k] = f[k]
  BY DEF At, Bytes
<1>2. /\ Len(Drop(str, n)) = Len(str) - n
      /\ \A k \in 1 .. Len(str) - n : Drop(str, n)[k] = str[n + k]
  BY DropIs
<1>3. ASSUME NEW k \in 1 .. Len(f) PROVE Drop(str, n)[pos + k] = f[k]
  <2>1. pos + k \in 1 .. Len(str) - n /\ n + (pos + k) = n + pos + k
    BY <1>1
  <2>. QED
    BY <1>1, <1>2, <2>1
<1>4. pos + Len(f) <= Len(Drop(str, n))
  BY <1>1, <1>2
<1>. QED
  BY <1>3, <1>4, Zenon DEF At

\* A frame moves as a whole.
LEMMA FrameDrop ==
  ASSUME NEW str \in Bytes, NEW n \in Nat, n <= Len(str), NEW pos \in Nat, NEW end \in Nat, NEW p,
         FrameAt(codec, str, n + pos, p, n + end)
  PROVE  FrameAt(codec, Drop(str, n), pos, p, end)
<1>0. /\ Len(p) \in Nat /\ IsPacket(p) /\ p \in Bytes /\ MaxPad \in Nat /\ Len(str) \in Nat
      /\ Word \in Nat
  BY PayloadIs, Numbers DEF FrameAt, Writable, Bytes
<1>1. end <= Len(Drop(str, n)) /\ Writable(codec, p)
  <2>1. Len(Drop(str, n)) = Len(str) - n
    BY DropIs
  <2>. QED
    BY <1>0, <2>1 DEF FrameAt
<1>2. CASE codec # "full"
  <2>1. PICK pad \in Pads(codec) :
           LET h == Header(codec, p, pad)
           IN  /\ At(str, n + pos, h) /\ At(str, n + pos + Len(h), p)
               /\ n + end = n + pos + Len(h) + Len(p) + pad
    BY <1>2 DEF FrameAt
  <2>2. pad \in Nat
    BY <1>0 DEF Pads
  <2>3. PICK h \in Bytes : h = Header(codec, p, pad) /\ Len(h) \in Nat
    BY <1>0, <2>2, HeaderIs
  <2>4. At(Drop(str, n), pos, h)
    BY <2>1, <2>3, AtDrop
  <2>5. At(Drop(str, n), pos + Len(h), p)
    <3>1. pos + Len(h) \in Nat /\ n + (pos + Len(h)) = n + pos + Len(h)
      BY <2>3
    <3>2. At(str, n + (pos + Len(h)), p)
      BY <2>1, <2>3, <3>1
    <3>. QED
      BY <1>0, <3>1, <3>2, AtDrop
  <2>6. end = pos + Len(h) + Len(p) + pad
    BY <1>0, <2>1, <2>2, <2>3
  <2>. QED
    BY <1>1, <1>2, <2>3, <2>4, <2>5, <2>6 DEF FrameAt
<1>3. CASE codec = "full"
  <2>1. PICK seq \in Nat : At(str, n + pos, FullFrame(p, seq))
    BY <1>3 DEF FrameAt
  <2>2. At(Drop(str, n), pos, FullFrame(p, seq))
    BY <1>0, <2>1, FullIs, AtDrop
  <2>3. end = pos + Len(p) + 3 * Word
    <3>1. n + end = n + pos + Len(p) + 3 * Word
      BY <1>3 DEF FrameAt
    <3>. QED
      BY <1>0, <3>1
  <2>. QED
    BY <1>1, <1>3, <2>2, <2>3 DEF FrameAt
<1>. QED
  BY <1>2, <1>3

\* So does one that is begun.
LEMMA BegunDrop ==
  ASSUME NEW str \in Bytes, NEW n \in Nat, n <= Len(str), NEW pos \in Nat, NEW ps, NEW p,
         Begun(codec, str, n + pos, ps, p)
  PROVE  Begun(codec, Drop(str, n), pos, ps, p)
<1>0. /\ Len(p) \in Nat /\ IsPacket(p) /\ p \in Bytes /\ MaxPad \in Nat /\ Len(str) \in Nat
      /\ Writable(codec, p)
  BY PayloadIs, Numbers DEF Begun, Writable, Bytes
<1>1. Len(Drop(str, n)) = Len(str) - n
  BY DropIs
<1>2. CASE codec = "full"
  <2>1. n + pos = Len(str) /\ \E seq \in Nat : ps = <<FullFrame(p, seq)>>
    BY <1>2 DEF Begun
  <2>2. Len(Drop(str, n)) = pos
    BY <1>0, <1>1, <2>1
  <2>. QED
    BY <1>0, <1>2, <2>1, <2>2 DEF Begun
<1>3. CASE codec # "full"
  <2>1. PICK pad, h :
          /\ pad \in Pads(codec) /\ h = Header(codec, p, pad)
          /\ \/ /\ Len(str) = n + pos
                /\ \/ pad = 0 /\ ps = <<h, p>>
                   \/ pad > 0 /\ ps = <<h, p, Zeros(pad)>>
             \/ /\ At(str, n + pos, h) /\ Len(str) = n + pos + Len(h)
                /\ \/ pad = 0 /\ ps = <<p>>
                   \/ pad > 0 /\ ps = <<p, Zeros(pad)>>
             \/ /\ At(str, n + pos, h) /\ At(str, n + pos + Len(h), p)
                /\ Len(str) = n + pos + Len(h) + Len(p)
                /\ pad > 0 /\ ps = <<Zeros(pad)>>
    BY <1>3 DEF Begun
  <2>2. h \in Bytes /\ Len(h) \in Nat
    <3>1. pad \in Nat
      BY <1>0, <2>1 DEF Pads
    <3>. QED
      BY <1>0, <2>1, <3>1, HeaderIs
  <2>3. At(str, n + pos, h) => At(Drop(str, n), pos, h)
    BY <2>2, AtDrop
  <2>4. At(str, n + pos + Len(h), p) => At(Drop(str, n), pos + Len(h), p)
    <3>1. pos + Len(h) \in Nat /\ n + (pos + Len(h)) = n + pos + Len(h)
      BY <2>2
    <3>2. At(str, n + (pos + Len(h)), p) => At(Drop(str, n), pos + Len(h), p)
      BY <1>0, <3>1, AtDrop
    <3>. QED
      BY <3>1, <3>2
  <2>5. /\ Len(str) = n + pos => Len(Drop(str, n)) = pos
        /\ Len(str) = n + pos + Len(h) => Len(Drop(str, n)) = pos + Len(h)
        /\ Len(str) = n + pos + Len(h) + Len(p) => Len(Drop(str, n)) = pos + Len(h) + Len(p)
    BY <1>0, <1>1, <2>2
  <2>. QED
    BY <1>0, <1>3, <2>1, <2>3, <2>4, <2>5 DEF Begun
<1>. QED
  BY <1>2, <1>3

\* A frame ends behind its beginning, within the stream.
LEMMA FrameEnds ==
  ASSUME NEW str, NEW pos \in Nat, NEW p, NEW end, FrameAt(codec, str, pos, p, end)
  PROVE  pos <= end /\ end \in Nat /\ end <= Len(str)
<1>0. Len(p) \in Nat /\ IsPacket(p) /\ MaxPad \in Nat /\ Word \in Nat /\ end <= Len(str)
  BY PayloadIs, Numbers DEF FrameAt, Writable
<1>1. CASE codec = "full"
  BY <1>0, <1>1 DEF FrameAt
<1>2. CASE codec # "full"
  <2>1. PICK pad \in Pads(codec) : end = pos + Len(Header(codec, p, pad)) + Len(p) + pad
    BY <1>2 DEF FrameAt
  <2>2. pad \in Nat
    BY <1>0 DEF Pads
  <2>3. Len(Header(codec, p, pad)) \in Nat
    BY <1>0, <2>2, HeaderIs DEF Bytes
  <2>. QED
    BY <1>0, <2>1, <2>2, <2>3
<1>. QED
  BY <1>1, <1>2

\* One that is begun begins within it.
LEMMA BegunEnds ==
  ASSUME NEW str, NEW pos \in Nat, NEW ps, NEW p, Begun(codec, str, pos, ps, p)
  PROVE  pos <= Len(str)
<1>0. Len(p) \in Nat /\ IsPacket(p) /\ MaxPad \in Nat
  BY PayloadIs, Numbers DEF Begun, Writable
<1>1. CASE Len(str) = pos
  BY <1>1
<1>2. CASE Len(str) # pos
  <2>1. PICK pad \in Pads(codec) : \/ Len(str) = pos + Len(Header(codec, p, pad))
                                   \/ Len(str) = pos + Len(Header(codec, p, pad)) + Len(p)
    BY <1>2 DEF Begun
  <2>2. pad \in Nat
    BY <1>0 DEF Pads
  <2>3. Len(Header(codec, p, pad)) \in Nat
    BY <1>0, <2>2, HeaderIs DEF Bytes
  <2>. QED
    BY <1>0, <2>1, <2>3
<1>. QED
  BY <1>1, <1>2

-----------------------------------------------------------------------------
(* The frames on the wire                                                  *)

\* The frames of the packets of wh behind the first g stand in str one behind
\* the other; that of wh[i] reaches up to cut[i].
Laid(c, cut, str, g, wh) ==
  /\ cut \in [g .. Len(wh) -> Nat] /\ cut[g] = 0
  /\ \A i, j \in g .. Len(wh) : i <= j => cut[i] <= cut[j]
  /\ \A i \in g + 1 .. Len(wh) : FrameAt(c, str, cut[i - 1], wh[i], cut[i])

\* All that has been written and not been read: complete frames and, while
\* a sender holds writeMu, what there is of the one it writes.
OnWire(c, str, g, wh, mu, ps, pk) ==
  \E cut : /\ Laid(c, cut, str, g, wh)
           /\ \/ mu = Nobody /\ Len(str) = cut[Len(wh)]
              \/ mu \in Senders /\ Begun(c, str, cut[Len(wh)], ps[mu], pk[mu])

\* More bytes change nothing about the frames in front.
LEMMA LaidLonger ==
  ASSUME NEW str \in Bytes, NEW x \in Bytes, NEW g \in Nat, NEW wh \in Seq(Bytes), NEW cut,
         Laid(codec, cut, str, g, wh)
  PROVE  Laid(codec, cut, str \o x, g, wh)
<1>1. ASSUME NEW i \in g + 1 .. Len(wh)
      PROVE  FrameAt(codec, str \o x, cut[i - 1], wh[i], cut[i])
  <2>1. i \in g .. Len(wh) /\ i - 1 \in g .. Len(wh)
    OBVIOUS
  <2>2. cut[i - 1] \in Nat /\ cut[i] \in Nat /\ FrameAt(codec, str, cut[i - 1], wh[i], cut[i])
    BY <2>1 DEF Laid
  <2>. QED
    BY <2>2, FrameLonger
<1>. QED
  BY <1>1 DEF Laid

\* A frame has been completed.
LEMMA LaidAppend ==
  ASSUME NEW str \in Bytes, NEW g \in Nat, NEW wh \in Seq(Bytes), g <= Len(wh), NEW cut,
         Laid(codec, cut, str, g, wh), NEW p \in Bytes,
         FrameAt(codec, str, cut[Len(wh)], p, Len(str)), NEW ps, NEW pk
  PROVE  OnWire(codec, str, g, Append(wh, p), Nobody, ps, pk)
<1> DEFINE n  == Len(wh)
           w2 == Append(wh, p)
           c2 == [i \in g .. n + 1 |-> IF i = n + 1 THEN Len(str) ELSE cut[i]]
<1>1. n \in Nat /\ Len(w2) = n + 1 /\ w2[n + 1] = p /\ \A i \in 1 .. n : w2[i] = wh[i]
  OBVIOUS
<1>2. Len(str) \in Nat
  BY DEF Bytes
<1>3. /\ \A i \in g .. n : cut[i] \in Nat
      /\ cut[g] = 0
      /\ \A i, j \in g .. n : i <= j => cut[i] <= cut[j]
      /\ \A i \in g + 1 .. n : FrameAt(codec, str, cut[i - 1], wh[i], cut[i])
  BY DEF Laid
<1>4. n \in g .. n /\ g \in g .. n
  BY <1>1
<1>5. cut[n] <= Len(str)
  BY <1>3, <1>4, FrameEnds
<1> HIDE DEF n, w2
<1>6. c2[n + 1] = Len(str) /\ \A i \in g .. n : c2[i] = cut[i]
  BY <1>1, <1>4
<1>7. c2 \in [g .. n + 1 -> Nat]
  BY <1>1, <1>2, <1>3
<1> HIDE DEF c2
<1>8. c2[g] = 0
  BY <1>3, <1>4, <1>6
<1>9. ASSUME NEW i \in g .. n + 1, NEW j \in g .. n + 1, i <= j PROVE c2[i] <= c2[j]
  <2>1. CASE j \in g .. n
    <3>1. i \in g .. n
      BY <1>1, <1>9, <2>1
    <3>. QED
      BY <1>3, <1>6, <1>9, <2>1, <3>1
  <2>2. CASE j = n + 1 /\ i \in g .. n
    <3>1. cut[i] <= cut[n] /\ cut[i] \in Nat /\ cut[n] \in Nat
      <4>1. i <= n
        BY <1>1, <2>2
      <4>. QED
        BY <1>3, <1>4, <2>2, <4>1
    <3>. QED
      BY <1>2, <1>5, <1>6, <2>2, <3>1
  <2>3. CASE j = n + 1 /\ i = n + 1
    BY <1>2, <1>6, <2>3
  <2>. QED
    BY <1>1, <2>1, <2>2, <2>3
<1>10. ASSUME NEW i \in g + 1 .. n + 1 PROVE FrameAt(codec, str, c2[i - 1], w2[i], c2[i])
  <2>1. CASE i = n + 1
    <3>1. i - 1 = n /\ c2[i - 1] = cut[n] /\ c2[i] = Len(str) /\ w2[i] = p
      BY <1>1, <1>4, <1>6, <2>1
    <3>. QED
      BY <3>1 DEF n
  <2>2. CASE i # n + 1
    <3>1. i \in g + 1 .. n /\ i \in g .. n /\ i - 1 \in g .. n /\ i \in 1 .. n
      BY <1>1, <2>2
    <3>. QED
      BY <1>1, <1>3, <1>6, <3>1
  <2>. QED
    BY <2>1, <2>2
<1>11. Laid(codec, c2, str, g, w2)
  BY <1>1, <1>7, <1>8, <1>9, <1>10 DEF Laid
<1>. QED
  BY <1>1, <1>6, <1>11 DEF OnWire, w2

\* The first frame has been read.
LEMMA LaidDrop ==
  ASSUME NEW str \in Bytes, NEW g \in Nat, NEW wh \in Seq(Bytes), g < Len(wh), NEW cut,
         Laid(codec, cut, str, g, wh)
  PROVE  \E n, c2 :
           /\ n \in Nat
           /\ FrameAt(codec, str, 0, wh[g + 1], n)
           /\ n <= Len(str) /\ n <= cut[Len(wh)]
           /\ Laid(codec, c2, Drop(str, n), g + 1, wh) /\ c2[Len(wh)] = cut[Len(wh)] - n
<1> DEFINE m  == Len(wh)
           n  == cut[g + 1]
           c2 == [i \in g + 1 .. m |-> cut[i] - n]
<1>1. /\ m \in Nat /\ g + 1 \in g .. m /\ g + 1 \in g + 1 .. m /\ m \in g .. m
      /\ m \in g + 1 .. m /\ (g + 1) - 1 = g /\ g \in g .. m
  OBVIOUS
<1>2. /\ \A i \in g .. m : cut[i] \in Nat
      /\ cut[g] = 0
      /\ \A i, j \in g .. m : i <= j => cut[i] <= cut[j]
      /\ \A i \in g + 1 .. m : FrameAt(codec, str, cut[i - 1], wh[i], cut[i])
  BY DEF Laid
<1> HIDE DEF m
<1>3. n \in Nat /\ FrameAt(codec, str, 0, wh[g + 1], n)
  <2>1. FrameAt(codec, str, cut[(g + 1) - 1], wh[g + 1], cut[g + 1]) /\ cut[(g + 1) - 1] = 0
    BY <1>1, <1>2
  <2>. QED
    BY <1>1, <1>2, <2>1
<1>4. n <= Len(str)
  BY <1>3, FrameEnds, 0 \in Nat
<1>5. \A i \in g + 1 .. m : i \in g .. m /\ n <= cut[i] /\ cut[i] - n \in Nat
  <2> TAKE i \in g + 1 .. m
  <2>1. i \in g .. m /\ g + 1 <= i
    BY <1>1
  <2>2. cut[g + 1] <= cut[i] /\ cut[i] \in Nat /\ cut[g + 1] \in Nat
    BY <1>1, <1>2, <2>1
  <2>. QED
    BY <2>1, <2>2
<1> HIDE DEF n
<1>6. c2 \in [g + 1 .. m -> Nat] /\ \A i \in g + 1 .. m : c2[i] = cut[i] - n /\ n + c2[i] = cut[i]
  <2>1. \A i \in g + 1 .. m : cut[i] \in Nat
    BY <1>2, <1>5
  <2>. QED
    BY <1>3, <1>5, <2>1
<1> HIDE DEF c2
<1>7. c2[g + 1] = 0
  <2>1. c2[g + 1] = n - n
    BY <1>1, <1>6 DEF n
  <2>. QED
    BY <1>3, <2>1
<1>8. ASSUME NEW i \in g + 1 .. m, NEW j \in g + 1 .. m, i <= j PROVE c2[i] <= c2[j]
  <2>1. cut[i] <= cut[j] /\ cut[i] \in Nat /\ cut[j] \in Nat
    BY <1>2, <1>5, <1>8
  <2>. QED
    BY <1>3, <1>6, <2>1
<1>9. ASSUME NEW i \in (g + 1) + 1 .. m
      PROVE  FrameAt(codec, Drop(str, n), c2[i - 1], wh[i], c2[i])
  <2>1. i \in g + 1 .. m /\ i - 1 \in g + 1 .. m
    BY <1>1
  <2>2. FrameAt(codec, str, n + c2[i - 1], wh[i], n + c2[i])
    BY <1>2, <1>6, <2>1
  <2>3. c2[i - 1] \in Nat /\ c2[i] \in Nat
    BY <1>6, <2>1
  <2>. QED
    BY <1>3, <1>4, <2>2, <2>3, FrameDrop
<1>10. Laid(codec, c2, Drop(str, n), g + 1, wh)
  BY <1>6, <1>7, <1>8, <1>9 DEF Laid, m
<1>11. n <= cut[m] /\ c2[m] = cut[m] - n
  BY <1>1, <1>5, <1>6
<1>. QED
  BY <1>3, <1>4, <1>10, <1>11 DEF m

\* Where the complete frames end.
LEMMA LaidEnds ==
  ASSUME NEW c, NEW cut, NEW str, NEW g \in Nat, NEW wh \in Seq(Bytes), g <= Len(wh),
         Laid(c, cut, str, g, wh)
  PROVE  cut[Len(wh)] \in Nat /\ (g = Len(wh) => cut[Len(wh)] = 0)
<1>1. Len(wh) \in g .. Len(wh)
  OBVIOUS
<1>. QED
  BY <1>1 DEF Laid

\* A sender takes the mutex and begins.
LEMMA WireBegins ==
  ASSUME NEW str, NEW g, NEW wh, NEW ps, NEW pk, OnWire(codec, str, g, wh, Nobody, ps, pk),
         NEW s \in Senders, NEW ps2, NEW pk2, Begun(codec, str, Len(str), ps2[s], pk2[s])
  PROVE  OnWire(codec, str, g, wh, s, ps2, pk2)
<1>1. PICK cut : Laid(codec, cut, str, g, wh) /\ Len(str) = cut[Len(wh)]
  BY Numbers DEF OnWire
<1>2. Begun(codec, str, cut[Len(wh)], ps2[s], pk2[s])
  BY <1>1
<1>. QED
  BY <1>1, <1>2 DEF OnWire

\* It writes a piece, and there are more.
LEMMA WireGrows ==
  ASSUME NEW str \in Bytes, NEW g \in Nat, NEW wh \in Seq(Bytes), g <= Len(wh), NEW ps, NEW pk,
         NEW s \in Senders, OnWire(codec, str, g, wh, s, ps, pk), Len(ps[s]) > 1,
         NEW ps2, ps2[s] = Tail(ps[s])
  PROVE  OnWire(codec, str \o Head(ps[s]), g, wh, s, ps2, pk)
<1>1. PICK cut : Laid(codec, cut, str, g, wh) /\ Begun(codec, str, cut[Len(wh)], ps[s], pk[s])
  BY Numbers DEF OnWire
<1>2. cut[Len(wh)] \in Nat
  BY <1>1, LaidEnds
<1>3. Head(ps[s]) \in Bytes
  BY <1>1, PiecesAre
<1>4. Laid(codec, cut, str \o Head(ps[s]), g, wh)
  BY <1>1, <1>3, LaidLonger
<1>5. Begun(codec, str \o Head(ps[s]), cut[Len(wh)], ps2[s], pk[s])
  BY <1>1, <1>2, PieceWritten
<1>. QED
  BY <1>4, <1>5 DEF OnWire

\* It writes the last one.
LEMMA WireCompletes ==
  ASSUME NEW str \in Bytes, NEW g \in Nat, NEW wh \in Seq(Bytes), g <= Len(wh), NEW ps, NEW pk,
         NEW s \in Senders, OnWire(codec, str, g, wh, s, ps, pk), Len(ps[s]) = 1,
         NEW ps2, NEW pk2
  PROVE  /\ pk[s] \in Bytes
         /\ OnWire(codec, str \o Head(ps[s]), g, Append(wh, pk[s]), Nobody, ps2, pk2)
<1>1. PICK cut : Laid(codec, cut, str, g, wh) /\ Begun(codec, str, cut[Len(wh)], ps[s], pk[s])
  BY Numbers DEF OnWire
<1>2. cut[Len(wh)] \in Nat
  BY <1>1, LaidEnds
<1>3. PICK h, t : h = Head(ps[s]) /\ h \in Bytes /\ t = str \o h /\ t \in Bytes
  BY <1>1, PiecesAre, AtLonger
<1>4. Laid(codec, cut, t, g, wh)
  BY <1>1, <1>3, LaidLonger
<1>5. FrameAt(codec, t, cut[Len(wh)], pk[s], Len(t))
  BY <1>1, <1>2, <1>3, PieceWritten
<1>6. PICK p \in Bytes : p = pk[s]
  BY <1>5, PayloadIs DEF FrameAt, Writable
<1>7. FrameAt(codec, t, cut[Len(wh)], p, Len(t))
  BY <1>5, <1>6
<1>8. OnWire(codec, t, g, Append(wh, p), Nobody, ps2, pk2)
  BY <1>3, <1>4, <1>7, LaidAppend
<1>. QED
  BY <1>3, <1>6, <1>8

\* What the reader makes of the wire.
LEMMA WireRead ==
  ASSUME NEW str \in Bytes, NEW g \in Nat, NEW wh \in Seq(Bytes), g <= Len(wh), NEW ps, NEW pk,
         NEW mu, OnWire(codec, str, g, wh, mu, ps, pk), codec \in AllCodecs
  PROVE  \/ ReadPacket(str) = NeedMore
         \/ /\ ReadPacket(str) = Refused("length")
            /\ \/ g < Len(wh) /\ ~Fits(wh[g + 1])
               \/ mu \in Senders /\ ~Fits(pk[mu])
         \/ /\ g < Len(wh)
            /\ \E q \in Bytes, rest \in Bytes :
                 /\ ReadPacket(str) = Accepted(q, rest) /\ IsPadded(wh[g + 1], q)
                 /\ OnWire(codec, rest, g + 1, wh, mu, ps, pk)
<1>1. PICK cut : /\ Laid(codec, cut, str, g, wh)
                 /\ \/ mu = Nobody /\ Len(str) = cut[Len(wh)]
                    \/ mu \in Senders /\ Begun(codec, str, cut[Len(wh)], ps[mu], pk[mu])
  BY DEF OnWire
<1>2. CASE g < Len(wh)
  <2>1. PICK n, c2 :
           /\ n \in Nat
           /\ FrameAt(codec, str, 0, wh[g + 1], n)
           /\ n <= Len(str) /\ n <= cut[Len(wh)]
           /\ Laid(codec, c2, Drop(str, n), g + 1, wh) /\ c2[Len(wh)] = cut[Len(wh)] - n
    BY <1>1, <1>2, LaidDrop
  <2>2. \/ ReadPacket(str) = Refused("length") /\ ~Fits(wh[g + 1])
        \/ \E q \in Bytes : ReadPacket(str) = Accepted(q, Drop(str, n)) /\ IsPadded(wh[g + 1], q)
    BY <2>1, ReadFrame
  <2>3. Drop(str, n) \in Bytes /\ Len(Drop(str, n)) = Len(str) - n
    BY <2>1, DropIs
  <2>4. cut[Len(wh)] \in Nat /\ c2[Len(wh)] \in Nat /\ cut[Len(wh)] = n + c2[Len(wh)]
    <3>1. cut[Len(wh)] \in Nat
      BY <1>1, LaidEnds
    <3>. QED
      BY <2>1, <3>1
  <2>5. OnWire(codec, Drop(str, n), g + 1, wh, mu, ps, pk)
    <3>1. CASE mu = Nobody /\ Len(str) = cut[Len(wh)]
      <4>1. Len(Drop(str, n)) = c2[Len(wh)]
        BY <2>1, <2>3, <3>1
      <4>. QED
        BY <2>1, <3>1, <4>1 DEF OnWire
    <3>2. CASE mu \in Senders /\ Begun(codec, str, cut[Len(wh)], ps[mu], pk[mu])
      <4>1. Begun(codec, str, n + c2[Len(wh)], ps[mu], pk[mu])
        BY <2>4, <3>2
      <4>2. Begun(codec, Drop(str, n), c2[Len(wh)], ps[mu], pk[mu])
        BY <2>1, <2>4, <4>1, BegunDrop
      <4>. QED
        BY <2>1, <3>2, <4>2 DEF OnWire
    <3>. QED
      BY <1>1, <3>1, <3>2
  <2>. QED
    BY <1>2, <2>2, <2>3, <2>5
<1>3. CASE g = Len(wh)
  <2>1. cut[Len(wh)] = 0
    BY <1>1, <1>3, LaidEnds
  <2>2. CASE mu = Nobody /\ Len(str) = 0
    <3>1. ReadPacket(str) = NeedMore
      BY <2>2, Numbers DEF ReadPacket, ReadAbridged, ReadFull, ReadPrefixed, AllCodecs
    <3>. QED
      BY <3>1
  <2>3. CASE mu \in Senders /\ Begun(codec, str, 0, ps[mu], pk[mu])
    BY <2>3, ReadBegun
  <2>. QED
    BY <1>1, <2>1, <2>2, <2>3
<1>. QED
  BY <1>2, <1>3

-----------------------------------------------------------------------------
(***************************************************************************)
(* The inductive invariant, as long as no Write has failed: the bytes on   *)
(* the wire are the frames of the packets written and not yet read, and    *)
(* the begun one of the sender that holds writeMu, which is alone in       *)
(* writing.                                                                *)
(***************************************************************************)
WireTypes ==
  /\ codec \in AllCodecs /\ writeMu \in Senders \cup {Nobody} /\ sendSeq \in Nat
  /\ at \in [Senders -> {"idle", "locking", "writing"}]
  /\ DOMAIN packet = Senders /\ DOMAIN pieces = Senders
  /\ stream \in Bytes /\ got \in Seq(Bytes) /\ whole \in Seq(Bytes)

OneWrites ==
  \A s \in Senders : /\ at[s] = "writing" <=> writeMu = s
                     /\ at[s] # "idle" => IsPacket(packet[s])

FramesOnWire ==
  /\ Len(got) <= Len(whole)
  /\ OnWire(codec, stream, Len(got), whole, writeMu, pieces, packet)

ReadIsWritten == \A i \in 1 .. Len(got) : IsPadded(whole[i], got[i])

\* A frame has been refused for its length, unread as it is.
RefusedForLength ==
  reader \notin {"reading", "failed"} =>
    \/ \E i \in 1 .. Len(whole) : ~Fits(whole[i])
    \/ writeMu \in Senders /\ ~Fits(packet[writeMu])

WireSafe ==
  ~torn => WireTypes /\ OneWrites /\ FramesOnWire /\ ReadIsWritten /\ RefusedForLength

\* Nothing is on the wire at first.
LEMMA WireStarts == WireInit => WireSafe
<1> SUFFICES ASSUME WireInit
             PROVE  WireTypes /\ OneWrites /\ FramesOnWire /\ ReadIsWritten /\ RefusedForLength
  BY DEF WireSafe
<1>1. /\ codec \in AllCodecs /\ stream = << >> /\ got = << >> /\ whole = << >> /\ writeMu = Nobody
      /\ reader = "reading" /\ \A s \in Senders : at[s] = "idle"
  BY WireAssumption DEF WireInit, AllCodecs
<1>2. WireTypes
  BY <1>1 DEF WireInit, WireTypes, Bytes
<1>3. OneWrites
  BY <1>1, Numbers DEF OneWrites
<1>4. OnWire(codec, << >>, 0, << >>, Nobody, pieces, packet)
  <2> DEFINE cut == [i \in 0 .. 0 |-> 0]
  <2>1. Laid(codec, cut, << >>, 0, << >>)
    BY DEF Laid
  <2>2. Len(<< >>) = cut[Len(<< >>)]
    OBVIOUS
  <2>. QED
    BY <2>1, <2>2 DEF OnWire
<1>5. FramesOnWire
  <2>1. Len(<< >>) = 0 /\ Len(<< >>) <= Len(<< >>)
    OBVIOUS
  <2>. QED
    BY <1>1, <1>4, <2>1 DEF FramesOnWire
<1>6. ReadIsWritten /\ RefusedForLength
  BY <1>1 DEF ReadIsWritten, RefusedForLength
<1>. QED
  BY <1>2, <1>3, <1>5, <1>6

\* The wire is untouched, and so are the packet and the pieces of the sender
\* that holds the mutex.
LEMMA WireKept ==
  ASSUME WireSafe, ~torn, UNCHANGED <<codec, writeMu, stream, reader, whole, got>>,
         writeMu \in Senders => /\ pieces'[writeMu] = pieces[writeMu]
                                /\ packet'[writeMu] = packet[writeMu]
  PROVE  FramesOnWire' /\ ReadIsWritten' /\ RefusedForLength'
<1>1. FramesOnWire'
  <2>1. PICK ps, pk : ps = pieces' /\ pk = packet'
    OBVIOUS
  <2>2. OnWire(codec, stream, Len(got), whole, writeMu, ps, pk)
    BY <2>1 DEF WireSafe, FramesOnWire, OnWire
  <2>. QED
    BY <2>1, <2>2 DEF WireSafe, FramesOnWire
<1>2. ReadIsWritten'
  BY DEF WireSafe, ReadIsWritten, IsPadded
<1>3. RefusedForLength'
  BY DEF WireSafe, RefusedForLength, Fits
<1>. QED
  BY <1>1, <1>2, <1>3

\* Send touches no packet but its own.
LEMMA SendTypes ==
  ASSUME WireTypes, OneWrites, NEW s \in Senders, NEW n \in Lens, Send(s, n)
  PROVE  WireTypes' /\ OneWrites'
<1>1. at[s] = "idle" /\ writeMu # s
  BY DEF OneWrites, Send
<1>2. WireTypes'
  BY <1>1 DEF WireTypes, Send
<1>3. OneWrites'
  <2> SUFFICES ASSUME NEW t \in Senders
               PROVE  /\ at'[t] = "writing" <=> writeMu' = t
                      /\ at'[t] # "idle" => IsPacket(packet'[t])
    BY DEF OneWrites, IsPacket
  <2>1. CASE t = s
    <3>1. at'[s] = "locking" /\ packet'[s] = Payload(s, n) /\ writeMu' = writeMu
      BY <1>1 DEF WireTypes, Send
    <3>2. IsPacket(Payload(s, n))
      BY DEF IsPacket
    <3>. QED
      BY <1>1, <2>1, <3>1, <3>2
  <2>2. CASE t # s
    <3>1. at'[t] = at[t] /\ packet'[t] = packet[t] /\ writeMu' = writeMu
      BY <1>1, <2>2 DEF WireTypes, Send
    <3>. QED
      BY <1>1, <3>1 DEF OneWrites
  <2>. QED
    BY <2>1, <2>2
<1>. QED
  BY <1>2, <1>3

\* So the wire stays as it is.
LEMMA SendSafe ==
  ASSUME WireSafe, ~torn, NEW s \in Senders, NEW n \in Lens, Send(s, n)
  PROVE  WireTypes' /\ OneWrites' /\ FramesOnWire' /\ ReadIsWritten' /\ RefusedForLength'
<1>1. WireTypes /\ OneWrites /\ at[s] = "idle" /\ writeMu # s
  BY DEF WireSafe, OneWrites, Send
<1>2. WireTypes' /\ OneWrites'
  BY <1>1, SendTypes
<1>4. writeMu \in Senders => /\ pieces'[writeMu] = pieces[writeMu]
                             /\ packet'[writeMu] = packet[writeMu]
  BY <1>1 DEF WireTypes, Send
<1>5. UNCHANGED <<codec, writeMu, stream, reader, whole, got>>
  BY DEF Send
<1>. QED
  BY <1>2, <1>4, <1>5, WireKept

\* The mutex is taken, or the packet is refused.
LEMMA LockTypes ==
  ASSUME WireTypes, OneWrites, NEW s \in Senders, Lock(s)
  PROVE  WireTypes' /\ OneWrites'
<1>1. /\ at[s] = "locking" /\ writeMu = Nobody /\ IsPacket(packet[s])
      /\ writeMu \notin Senders /\ BeginWrite(s)
      /\ UNCHANGED <<codec, stream, whole, got>>
  BY Numbers DEF OneWrites, Lock, BeginWrite
<1>2. sendSeq' \in Nat
  BY <1>1 DEF BeginWrite, NextSeq, WireTypes
<1>3. CASE /\ at' = [at EXCEPT ![s] = "idle"]
           /\ packet' = [packet EXCEPT ![s] = << >>]
           /\ UNCHANGED <<writeMu, pieces>>
  <2>1. WireTypes'
    BY <1>1, <1>2, <1>3 DEF WireTypes
  <2>2. OneWrites'
    <3> SUFFICES ASSUME NEW t \in Senders
                 PROVE  /\ at'[t] = "writing" <=> writeMu' = t
                        /\ at'[t] # "idle" => IsPacket(packet'[t])
      BY DEF OneWrites, IsPacket
    <3>1. CASE t = s
      BY <1>1, <1>3, <3>1 DEF WireTypes
    <3>2. CASE t # s
      <4>1. at'[t] = at[t] /\ packet'[t] = packet[t] /\ writeMu' = writeMu
        BY <1>1, <1>3, <3>2 DEF WireTypes
      <4>. QED
        BY <1>1, <4>1 DEF OneWrites
    <3>. QED
      BY <3>1, <3>2
  <2>. QED
    BY <2>1, <2>2
<1>4. CASE /\ codec = "abridged" => Len(packet[s]) % Unit = 0
           /\ \E pad \in 0 .. (IF codec = "padded" THEN MaxPad ELSE 0) :
                pieces' = [pieces EXCEPT ![s] = WritePacket(packet[s], pad)]
           /\ writeMu' = s
           /\ at' = [at EXCEPT ![s] = "writing"]
           /\ UNCHANGED packet
  <2>1. WireTypes'
    BY <1>1, <1>2, <1>4 DEF WireTypes
  <2>2. OneWrites'
    <3> SUFFICES ASSUME NEW t \in Senders
                 PROVE  /\ at'[t] = "writing" <=> writeMu' = t
                        /\ at'[t] # "idle" => IsPacket(packet'[t])
      BY DEF OneWrites, IsPacket
    <3>1. CASE t = s
      BY <1>1, <1>4, <3>1 DEF WireTypes
    <3>2. CASE t # s
      <4>1. at'[t] = at[t] /\ packet'[t] = packet[t] /\ writeMu' # t /\ writeMu # t
        BY <1>1, <1>4, <3>2 DEF WireTypes
      <4>. QED
        BY <1>1, <4>1 DEF OneWrites
    <3>. QED
      BY <3>1, <3>2
  <2>. QED
    BY <2>1, <2>2
<1>. QED
  BY <1>1, <1>3, <1>4 DEF BeginWrite

\* Then the frame begins behind all the others.
LEMMA LockSafe ==
  ASSUME WireSafe, ~torn, NEW s \in Senders, Lock(s)
  PROVE  WireTypes' /\ OneWrites' /\ FramesOnWire' /\ ReadIsWritten' /\ RefusedForLength'
<1>1. /\ WireTypes /\ OneWrites /\ at[s] = "locking" /\ writeMu = Nobody /\ IsPacket(packet[s])
      /\ writeMu \notin Senders /\ BeginWrite(s)
      /\ UNCHANGED <<codec, stream, reader, whole, got>>
  BY Numbers DEF WireSafe, OneWrites, Lock, BeginWrite
<1>2. WireTypes' /\ OneWrites'
  BY <1>1, LockTypes
<1>3. CASE /\ at' = [at EXCEPT ![s] = "idle"]
           /\ packet' = [packet EXCEPT ![s] = << >>]
           /\ UNCHANGED <<writeMu, pieces>>
  BY <1>1, <1>2, <1>3, WireKept
<1>4. CASE /\ codec = "abridged" => Len(packet[s]) % Unit = 0
           /\ \E pad \in 0 .. (IF codec = "padded" THEN MaxPad ELSE 0) :
                pieces' = [pieces EXCEPT ![s] = WritePacket(packet[s], pad)]
           /\ writeMu' = s
           /\ at' = [at EXCEPT ![s] = "writing"]
           /\ UNCHANGED packet
  <2>3. FramesOnWire'
    <3>1. PICK pad, ps2 :
             /\ pad \in Pads(codec) /\ ps2 = pieces' /\ ps2[s] = WritePacket(packet[s], pad)
      BY <1>1, <1>4 DEF WireTypes, Pads
    <3>2. Writable(codec, packet[s])
      BY <1>1, <1>4 DEF Writable
    <3>3. Begun(codec, stream, Len(stream), ps2[s], packet[s])
      BY <1>1, <3>1, <3>2, BeginIs DEF WireTypes
    <3>4. OnWire(codec, stream, Len(got), whole, Nobody, pieces, packet) /\ Len(got) <= Len(whole)
      BY <1>1 DEF WireSafe, FramesOnWire
    <3>5. OnWire(codec, stream, Len(got), whole, s, ps2, packet)
      BY <3>3, <3>4, WireBegins
    <3>. QED
      BY <1>1, <1>4, <3>1, <3>4, <3>5 DEF FramesOnWire
  <2>4. ReadIsWritten'
    BY <1>1 DEF WireSafe, ReadIsWritten, IsPadded
  <2>5. RefusedForLength'
    BY <1>1 DEF WireSafe, RefusedForLength, Fits
  <2>. QED
    BY <1>2, <2>3, <2>4, <2>5
<1>. QED
  BY <1>1, <1>3, <1>4 DEF BeginWrite

\* The mutex is given up.
LEMMA UnlockTypes ==
  ASSUME WireTypes, OneWrites, NEW s \in Senders, at[s] = "writing", Unlock(s),
         UNCHANGED <<codec, sendSeq, got>>, stream' \in Bytes, whole' \in Seq(Bytes)
  PROVE  WireTypes' /\ OneWrites'
<1>1. writeMu = s
  BY DEF OneWrites
<1>2. WireTypes'
  BY <1>1 DEF WireTypes, Unlock
<1>3. OneWrites'
  <2> SUFFICES ASSUME NEW t \in Senders
               PROVE  /\ at'[t] = "writing" <=> writeMu' = t
                      /\ at'[t] # "idle" => IsPacket(packet'[t])
    BY DEF OneWrites, IsPacket
  <2>1. CASE t = s
    BY <1>1, <2>1, Numbers DEF WireTypes, Unlock
  <2>2. CASE t # s
    <3>1. at'[t] = at[t] /\ packet'[t] = packet[t] /\ writeMu' # t /\ writeMu # t
      BY <1>1, <2>2, Numbers DEF WireTypes, Unlock
    <3>. QED
      BY <1>1, <3>1 DEF OneWrites
  <2>. QED
    BY <2>1, <2>2
<1>. QED
  BY <1>2, <1>3

\* The stream grows by a piece of the frame of the sender that holds the mutex.
LEMMA WriteSafe ==
  ASSUME WireSafe, ~torn, NEW s \in Senders, Write(s)
  PROVE  WireTypes' /\ OneWrites' /\ FramesOnWire' /\ ReadIsWritten' /\ RefusedForLength'
<1>1. /\ WireTypes /\ OneWrites /\ at[s] = "writing" /\ writeMu = s
      /\ stream' = stream \o Head(pieces[s])
      /\ UNCHANGED <<codec, sendSeq, reader, got>>
  BY DEF WireSafe, OneWrites, Write
<1>2. /\ OnWire(codec, stream, Len(got), whole, s, pieces, packet)
      /\ Len(got) <= Len(whole) /\ Len(got) \in Nat /\ stream \in Bytes /\ whole \in Seq(Bytes)
  BY <1>1 DEF WireSafe, FramesOnWire, WireTypes
<1>3. stream' \in Bytes
  <2>1. PICK pos : Begun(codec, stream, pos, pieces[s], packet[s])
    BY <1>2, Numbers DEF OnWire
  <2>2. Head(pieces[s]) \in Bytes
    BY <2>1, PiecesAre
  <2>. QED
    BY <1>1, <1>2, <2>2, AtLonger
<1>4. CASE /\ Len(pieces[s]) > 1
           /\ pieces' = [pieces EXCEPT ![s] = Tail(@)]
           /\ UNCHANGED <<writeMu, at, packet, whole, seqs>>
  <2>1. WireTypes'
    BY <1>1, <1>3, <1>4 DEF WireTypes
  <2>2. OneWrites'
    BY <1>1, <1>4 DEF OneWrites, IsPacket
  <2>3. FramesOnWire'
    <3>1. PICK ps2 : ps2 = pieces' /\ ps2[s] = Tail(pieces[s])
      BY <1>1, <1>4 DEF WireTypes
    <3>2. OnWire(codec, stream \o Head(pieces[s]), Len(got), whole, s, ps2, packet)
      BY <1>2, <1>4, <3>1, WireGrows
    <3>. QED
      BY <1>1, <1>2, <1>4, <3>1, <3>2 DEF FramesOnWire
  <2>4. ReadIsWritten'
    BY <1>1, <1>4 DEF WireSafe, ReadIsWritten, IsPadded
  <2>5. RefusedForLength'
    BY <1>1, <1>4 DEF WireSafe, RefusedForLength, Fits
  <2>. QED
    BY <2>1, <2>2, <2>3, <2>4, <2>5
<1>5. CASE /\ Len(pieces[s]) = 1
           /\ whole' = Append(whole, packet[s])
           /\ Unlock(s)
  <2>1. PICK ps2, pk2 : ps2 = pieces' /\ pk2 = packet'
    OBVIOUS
  <2>2. /\ packet[s] \in Bytes
        /\ OnWire(codec, stream \o Head(pieces[s]), Len(got), Append(whole, packet[s]),
                  Nobody, ps2, pk2)
    BY <1>2, <1>5, WireCompletes
  <2>3. /\ whole' \in Seq(Bytes) /\ Len(whole') = Len(whole) + 1 /\ Len(whole) \in Nat
        /\ whole'[Len(whole) + 1] = packet[s] /\ \A i \in 1 .. Len(whole) : whole'[i] = whole[i]
    BY <1>2, <1>5, <2>2
  <2>4. WireTypes' /\ OneWrites'
    BY <1>1, <1>3, <1>5, <2>3, UnlockTypes
  <2>6. FramesOnWire'
    <3>1. Len(got') <= Len(whole')
      BY <1>1, <1>2, <2>3
    <3>2. OnWire(codec', stream', Len(got'), whole', writeMu', pieces', packet')
      BY <1>1, <1>5, <2>1, <2>2 DEF Unlock
    <3>. QED
      BY <3>1, <3>2 DEF FramesOnWire
  <2>7. ReadIsWritten'
    <3> SUFFICES ASSUME NEW i \in 1 .. Len(got) PROVE IsPadded(whole[i], got[i])'
      BY <1>1 DEF ReadIsWritten
    <3>1. IsPadded(whole[i], got[i])
      BY DEF WireSafe, ReadIsWritten
    <3>2. i \in 1 .. Len(whole)
      BY <1>2, <2>3
    <3>3. whole'[i] = whole[i] /\ got'[i] = got[i] /\ codec' = codec
      BY <1>1, <2>3, <3>2
    <3>. QED
      BY <3>1, <3>3 DEF IsPadded
  <2>8. RefusedForLength'
    <3> SUFFICES ASSUME reader \notin {"reading", "failed"}
                 PROVE  \E i \in 1 .. Len(whole') : ~Fits(whole[i])'
      BY <1>1 DEF RefusedForLength
    <3>1. CASE \E i \in 1 .. Len(whole) : ~Fits(whole[i])
      <4>1. PICK i \in 1 .. Len(whole) : ~Fits(whole[i])
        BY <3>1
      <4>2. i \in 1 .. Len(whole') /\ whole'[i] = whole[i] /\ codec' = codec
        BY <1>1, <2>3
      <4>3. ~Fits(whole[i])'
        BY <4>1, <4>2 DEF Fits
      <4>. QED
        BY <4>2, <4>3
    <3>2. CASE ~Fits(packet[s])
      <4>1. PICK i : i = Len(whole) + 1
        OBVIOUS
      <4>2. i \in 1 .. Len(whole') /\ whole'[i] = packet[s] /\ codec' = codec
        BY <1>1, <2>3, <4>1
      <4>3. ~Fits(whole[i])'
        BY <3>2, <4>2 DEF Fits
      <4>. QED
        BY <4>2, <4>3
    <3>. QED
      BY <1>1, <3>1, <3>2 DEF WireSafe, RefusedForLength
  <2>. QED
    BY <2>4, <2>6, <2>7, <2>8
<1>. QED
  BY <1>4, <1>5 DEF Write

\* The reader takes the first frame, or refuses it.
LEMMA RecvSafe ==
  ASSUME WireSafe, ~torn, Recv
  PROVE  WireTypes' /\ OneWrites' /\ FramesOnWire' /\ ReadIsWritten' /\ RefusedForLength'
<1>1. /\ WireTypes /\ OneWrites /\ reader = "reading" /\ ReadPacket(stream).is # "more"
      /\ UNCHANGED <<codec, writeMu, sendSeq, at, packet, pieces, whole>>
  BY DEF WireSafe, Recv, sendVars
<1>2. /\ OnWire(codec, stream, Len(got), whole, writeMu, pieces, packet) /\ codec \in AllCodecs
      /\ Len(got) <= Len(whole) /\ Len(got) \in Nat /\ stream \in Bytes /\ whole \in Seq(Bytes)
      /\ Len(whole) \in Nat /\ got \in Seq(Bytes)
  BY <1>1 DEF WireSafe, FramesOnWire, WireTypes
<1>3. OneWrites'
  BY <1>1 DEF OneWrites, IsPacket
<1>4. PICK g : g = Len(got)
  OBVIOUS
<1>5. CASE /\ ReadPacket(stream) = Refused("length")
           /\ \/ g < Len(whole) /\ ~Fits(whole[g + 1])
              \/ writeMu \in Senders /\ ~Fits(packet[writeMu])
  <2>1. UNCHANGED <<got, stream>>
    BY <1>5 DEF Recv, Refused
  <2>2. WireTypes' /\ FramesOnWire'
    BY <1>1, <1>2, <2>1 DEF WireTypes, FramesOnWire
  <2>3. ReadIsWritten'
    BY <1>1, <2>1 DEF WireSafe, ReadIsWritten, IsPadded
  <2>4. RefusedForLength'
    <3>1. CASE g < Len(whole) /\ ~Fits(whole[g + 1])
      <4>1. g + 1 \in 1 .. Len(whole)
        BY <1>2, <1>4, <3>1
      <4>2. \E i \in 1 .. Len(whole) : ~Fits(whole[i])
        BY <3>1, <4>1
      <4>. QED
        BY <1>1, <4>2 DEF RefusedForLength, Fits
    <3>2. CASE writeMu \in Senders /\ ~Fits(packet[writeMu])
      BY <1>1, <3>2 DEF RefusedForLength, Fits
    <3>. QED
      BY <1>5, <3>1, <3>2
  <2>. QED
    BY <1>3, <2>2, <2>3, <2>4
<1>6. CASE /\ g < Len(whole)
           /\ \E q \in Bytes, rest \in Bytes :
                /\ ReadPacket(stream) = Accepted(q, rest) /\ IsPadded(whole[g + 1], q)
                /\ OnWire(codec, rest, g + 1, whole, writeMu, pieces, packet)
  <2>1. PICK q \in Bytes, rest \in Bytes :
                /\ ReadPacket(stream) = Accepted(q, rest) /\ IsPadded(whole[g + 1], q)
                /\ OnWire(codec, rest, g + 1, whole, writeMu, pieces, packet)
    BY <1>6
  <2>2. got' = Append(got, q) /\ stream' = rest /\ reader' = reader
    BY <2>1 DEF Recv, Accepted
  <2>3. /\ got' \in Seq(Bytes) /\ Len(got') = g + 1 /\ got'[g + 1] = q /\ g \in Nat
        /\ \A i \in 1 .. g : got'[i] = got[i]
    BY <1>2, <1>4, <2>2
  <2>4. WireTypes'
    BY <1>1, <2>2, <2>3 DEF WireTypes
  <2>5. FramesOnWire'
    <3>1. Len(got') <= Len(whole')
      BY <1>1, <1>2, <1>6, <2>3
    <3>2. OnWire(codec', stream', Len(got'), whole', writeMu', pieces', packet')
      BY <1>1, <2>1, <2>2, <2>3
    <3>. QED
      BY <3>1, <3>2 DEF FramesOnWire
  <2>6. ReadIsWritten'
    <3> SUFFICES ASSUME NEW i \in 1 .. g + 1 PROVE IsPadded(whole[i], got[i])'
      BY <2>3 DEF ReadIsWritten
    <3>1. CASE i = g + 1
      <4>1. whole'[i] = whole[i] /\ got'[i] = q /\ codec' = codec /\ IsPadded(whole[i], q)
        BY <1>1, <2>1, <2>3, <3>1
      <4>. QED
        BY <4>1 DEF IsPadded
    <3>2. CASE i \in 1 .. g
      <4>1. IsPadded(whole[i], got[i])
        BY <1>4, <3>2 DEF WireSafe, ReadIsWritten
      <4>2. whole'[i] = whole[i] /\ got'[i] = got[i] /\ codec' = codec
        BY <1>1, <2>3, <3>2
      <4>. QED
        BY <4>1, <4>2 DEF IsPadded
    <3>. QED
      BY <2>3, <3>1, <3>2
  <2>7. RefusedForLength'
    BY <1>1, <2>2 DEF RefusedForLength
  <2>. QED
    BY <1>3, <2>4, <2>5, <2>6, <2>7
<1>7. ReadPacket(stream) # NeedMore
  BY <1>1 DEF NeedMore
<1>. QED
  BY <1>2, <1>4, <1>5, <1>6, <1>7, WireRead

\* Every step that is no failed Write preserves the invariant.
LEMMA WireStep == WireSafe /\ [WireNext]_wireVars => WireSafe'
<1> SUFFICES ASSUME WireSafe, [WireNext]_wireVars, ~torn'
             PROVE  WireTypes' /\ OneWrites' /\ FramesOnWire' /\ ReadIsWritten' /\ RefusedForLength'
  BY DEF WireSafe
<1>0. ~torn
  BY DEF WireNext, Send, SendStep, Lock, BeginWrite, Write, WriteFails, Close, Recv, RecvFails,
         wireVars, sendVars
<1>1. ASSUME NEW s \in Senders, NEW n \in Lens, Send(s, n) PROVE
        WireTypes' /\ OneWrites' /\ FramesOnWire' /\ ReadIsWritten' /\ RefusedForLength'
  BY <1>0, <1>1, SendSafe
<1>2. ASSUME NEW s \in Senders, SendStep(s) PROVE
        WireTypes' /\ OneWrites' /\ FramesOnWire' /\ ReadIsWritten' /\ RefusedForLength'
  <2>1. ~WriteFails(s)
    BY DEF WriteFails
  <2>. QED
    BY <1>0, <1>2, <2>1, LockSafe, WriteSafe DEF SendStep
<1>3. CASE Close \/ RecvFails \/ UNCHANGED wireVars
  <2>1. /\ UNCHANGED <<codec, writeMu, sendSeq, at, packet, pieces, stream, whole, got>>
        /\ reader' = reader \/ reader' = "failed"
    BY <1>3 DEF Close, RecvFails, wireVars, sendVars
  <2>2. WireTypes' /\ OneWrites' /\ FramesOnWire' /\ ReadIsWritten'
    BY <1>0, <2>1 DEF WireSafe, WireTypes, OneWrites, IsPacket, FramesOnWire, ReadIsWritten,
                      IsPadded
  <2>3. RefusedForLength'
    BY <1>0, <2>1 DEF WireSafe, RefusedForLength, Fits
  <2>. QED
    BY <2>2, <2>3
<1>4. CASE Recv
  BY <1>0, <1>4, RecvSafe
<1>. QED
  BY <1>1, <1>2, <1>3, <1>4 DEF WireNext

(***************************************************************************)
(* For every number of senders and every set of lengths, with each of the  *)
(* four codecs: as long as no Write has failed, what the other end of a    *)
(* Conn has read are the packets sent, whole and in the order in which     *)
(* Send held writeMu, with nothing behind them but the padding of one      *)
(* codec.                                                                  *)
(***************************************************************************)
THEOREM FramesAreWhole == WireSpec => []FramesIntact
<1>1. WireSafe => FramesIntact
  BY DEF WireSafe, FramesIntact, FramesOnWire, ReadIsWritten, WireTypes
<1>. QED
  BY <1>1, WireStarts, WireStep, PTL DEF WireSpec

(***************************************************************************)
(* And the ReadPacket of the codec refuses none of these frames if the     *)
(* packets are within the limits it checks.                                *)
(***************************************************************************)
THEOREM ReaderRefusesNothing == WireSpec => []NoFrameRefused
<1>1. ASSUME WireSafe PROVE NoFrameRefused
  <2> SUFFICES ASSUME ~torn, reader \notin {"reading", "failed"},
                      \A s \in Senders : at[s] # "idle" => Fits(packet[s]),
                      \A i \in DOMAIN whole : Fits(whole[i])
               PROVE  FALSE
    BY DEF NoFrameRefused
  <2>1. /\ \/ \E i \in 1 .. Len(whole) : ~Fits(whole[i])
           \/ writeMu \in Senders /\ ~Fits(packet[writeMu])
        /\ OneWrites /\ whole \in Seq(Bytes)
    BY <1>1 DEF WireSafe, RefusedForLength, WireTypes
  <2>2. DOMAIN whole = 1 .. Len(whole)
    BY <2>1
  <2>3. writeMu \in Senders => at[writeMu] = "writing"
    BY <2>1 DEF OneWrites
  <2>. QED
    BY <2>1, <2>2, <2>3
<1>. QED
  BY <1>1, WireStarts, WireStep, PTL DEF WireSpec

-----------------------------------------------------------------------------
(***************************************************************************)
(* Broken frames of the full codec                                         *)
(***************************************************************************)

\* How many bytes a byte is a checksum of.
Sum(b) == Len(b[2])

\* Bytes that are a checksum stand behind at least as many as they are one of.
Grounded(x) == \A k \in 1 .. Len(x) : Sum(x[k]) > 0 => k > Sum(x[k])

\* Behind the first d bytes of str stand n bytes of a frame that was cut off, and
\* what came later.  The checksums there end the n bytes too late, or begin
\* behind them.
DeadAt(str, d) ==
  \E n \in Nat :
    /\ n > 0 /\ d + n <= Len(str)
    /\ \A k \in d + 1 .. Len(str) :
         Sum(str[k]) > 0 => \/ k <= d + n /\ n < Sum(str[k]) + Word
                            \/ k > d + n + Sum(str[k])

LEMMA SumIs ==
  ASSUME NEW str \in Bytes, NEW k \in 1 .. Len(str)
  PROVE  Sum(str[k]) \in Nat
<1>1. str[k] \in AnyByte
  BY DEF Bytes
<1>2. str[k][2] \in Seq(Value \X {<< >>})
  BY <1>1 DEF AnyByte
<1>. QED
  BY <1>2 DEF Sum

\* Only the end of a frame is a checksum, and it is one of all the rest.
LEMMA FrameSums ==
  ASSUME NEW p, IsPacket(p), NEW seq \in Nat, NEW k \in 1 .. Len(FullFrame(p, seq))
  PROVE  LET b == FullFrame(p, seq)[k]
         IN  Sum(b) = 0 \/ (Sum(b) = Len(p) + 2 * Word /\ k > Sum(b))
<1>0. Len(p) \in Nat /\ Word \in Nat /\ Word > 0
  BY PayloadIs, Numbers
<1>1. PICK f \in Bytes, c \in Bytes :
        /\ f = Front(p, seq) /\ c = Checksum(f) /\ FullFrame(p, seq) = f \o c
        /\ Len(f) = Len(p) + 2 * Word /\ Len(c) = Word
  BY FullIs
<1>2. PICK n \in Nat : n = Len(f) /\ k \in 1 .. n + Word
  BY <1>0, <1>1 DEF Bytes
<1>3. CASE k <= n
  <2>1. k \in 1 .. Len(f) /\ FullFrame(p, seq)[k] = f[k]
    BY <1>1, <1>2, <1>3 DEF Bytes
  <2>2. f \in Seq(Value \X {<< >>})
    <3>a. PICK a : a = PutUint(Len(p) + 3 * Word, Word) /\ a \in Seq(Value \X {<< >>})
      <4>1. Len(p) + 3 * Word \in Nat
        BY <1>0
      <4>. QED
        BY <1>0, <4>1, WordIs, Zenon
    <3>b. PICK b : b = PutUint(seq, Word) /\ b \in Seq(Value \X {<< >>})
      BY <1>0, WordIs, Zenon
    <3>1. p \in Seq(Value \X {<< >>}) /\ f = (a \o b) \o p
      BY <1>1, <3>a, <3>b, PayloadIs DEF Front
    <3>. QED
      BY <3>a, <3>b, <3>1
  <2>3. f[k][2] = << >>
    BY <2>1, <2>2
  <2>. QED
    BY <2>1, <2>3 DEF Sum
<1>4. CASE k > n
  <2>1. PICK j \in 1 .. Word : k = n + j
    <3>1. k - n \in 1 .. Word /\ k = n + (k - n)
      BY <1>0, <1>2, <1>4
    <3>. QED
      BY <3>1
  <2>2. FullFrame(p, seq)[k] = c[j]
    <3>1. j \in 1 .. Len(c) /\ k = Len(f) + j
      BY <1>1, <1>2, <2>1
    <3>2. (f \o c)[Len(f) + j] = c[j]
      BY <3>1 DEF Bytes
    <3>. QED
      BY <1>1, <3>1, <3>2
  <2>3. c[j][2] = f
    BY <1>1, <2>1 DEF Checksum
  <2>. QED
    BY <1>1, <1>2, <1>4, <2>2, <2>3 DEF Sum
<1>. QED
  BY <1>2, <1>3, <1>4

\* So in what has been written of a frame.
LEMMA PartGrounded ==
  ASSUME NEW p, IsPacket(p), NEW seq \in Nat, NEW x \in Bytes, Len(x) <= Len(FullFrame(p, seq)),
         \A k \in 1 .. Len(x) : x[k] = FullFrame(p, seq)[k]
  PROVE  Grounded(x)
<1> SUFFICES ASSUME NEW k \in 1 .. Len(x), Sum(x[k]) > 0 PROVE k > Sum(x[k])
  BY DEF Grounded
<1>1. k \in 1 .. Len(FullFrame(p, seq)) /\ x[k] = FullFrame(p, seq)[k]
  BY FullIs DEF Bytes
<1>2. Sum(x[k]) = 0 \/ k > Sum(x[k])
  BY <1>1, FrameSums
<1>. QED
  BY <1>2

\* A broken frame stays broken, whatever frames follow.
LEMMA DeadLonger ==
  ASSUME NEW str \in Bytes, NEW d \in Nat, DeadAt(str, d), NEW x \in Bytes, Grounded(x)
  PROVE  DeadAt(str \o x, d)
<1>1. PICK n \in Nat :
        /\ n > 0 /\ d + n <= Len(str)
        /\ \A k \in d + 1 .. Len(str) :
             Sum(str[k]) > 0 => \/ k <= d + n /\ n < Sum(str[k]) + Word
                                \/ k > d + n + Sum(str[k])
  BY DEF DeadAt
<1>2. PICK t \in Bytes : t = str \o x
  BY AtLonger, 0 \in Nat
<1>3. PICK a \in Nat, b \in Nat : a = Len(str) /\ b = Len(x) /\ Len(t) = a + b
  BY <1>2 DEF Bytes
<1>4. /\ \A k \in 1 .. a : t[k] = str[k]
      /\ \A k \in 1 .. b : t[a + k] = x[k]
  BY <1>2, <1>3 DEF Bytes
<1>5. ASSUME NEW k \in d + 1 .. a + b, Sum(t[k]) > 0
      PROVE  \/ k <= d + n /\ n < Sum(t[k]) + Word
             \/ k > d + n + Sum(t[k])
  <2>1. CASE k <= a
    <3>1. k \in 1 .. a /\ k \in d + 1 .. a
      BY <2>1
    <3>2. t[k] = str[k]
      BY <1>4, <3>1
    <3>. QED
      BY <1>1, <1>3, <1>5, <3>1, <3>2
  <2>2. CASE k > a
    <3>1. PICK j \in 1 .. b : k = a + j
      <4>1. k - a \in 1 .. b /\ k = a + (k - a)
        BY <2>2
      <4>. QED
        BY <4>1
    <3>2. t[k] = x[j]
      BY <1>4, <3>1
    <3>3. j > Sum(x[j]) /\ Sum(x[j]) \in Nat
      BY <1>3, <1>5, <3>1, <3>2, SumIs DEF Grounded
    <3>. QED
      BY <1>1, <1>3, <3>1, <3>2, <3>3
  <2>. QED
    BY <2>1, <2>2
<1>6. d + n <= Len(t)
  BY <1>1, <1>3
<1>. QED
  BY <1>1, <1>2, <1>3, <1>5, <1>6 DEF DeadAt

\* A Write fails after some bytes of a frame.
LEMMA DeadBegins ==
  ASSUME NEW str \in Bytes, NEW p, IsPacket(p), NEW seq \in Nat, NEW x \in Bytes,
         Len(x) > 0, Len(x) < Len(FullFrame(p, seq)),
         \A k \in 1 .. Len(x) : x[k] = FullFrame(p, seq)[k]
  PROVE  DeadAt(str \o x, Len(str))
<1>0. Len(p) \in Nat /\ Word \in Nat /\ Len(FullFrame(p, seq)) = Len(p) + 3 * Word
  BY PayloadIs, FullIs, Numbers
<1>1. PICK t \in Bytes : t = str \o x
  BY AtLonger, 0 \in Nat
<1>2. PICK d \in Nat, n \in Nat : d = Len(str) /\ n = Len(x) /\ Len(t) = d + n
  BY <1>1 DEF Bytes
<1>3. \A k \in 1 .. n : t[d + k] = x[k]
  BY <1>1, <1>2 DEF Bytes
<1>4. ASSUME NEW k \in d + 1 .. d + n, Sum(t[k]) > 0
      PROVE  k <= d + n /\ n < Sum(t[k]) + Word
  <2>1. PICK j \in 1 .. n : k = d + j
    <3>1. k - d \in 1 .. n /\ k = d + (k - d)
      OBVIOUS
    <3>. QED
      BY <3>1
  <2>2. t[k] = FullFrame(p, seq)[j] /\ j \in 1 .. Len(FullFrame(p, seq))
    BY <1>0, <1>2, <1>3, <2>1
  <2>3. Sum(t[k]) = Len(p) + 2 * Word
    BY <1>4, <2>2, FrameSums
  <2>. QED
    BY <1>0, <1>2, <2>3
<1>5. n > 0 /\ d + n <= Len(t)
  BY <1>2
<1>6. DeadAt(t, d)
  BY <1>2, <1>4, <1>5 DEF DeadAt
<1>. QED
  BY <1>1, <1>2, <1>6

\* Frames in front of it are read.
LEMMA DeadDrop ==
  ASSUME NEW str \in Bytes, NEW m \in Nat, NEW d \in Nat, m <= Len(str), DeadAt(str, m + d)
  PROVE  DeadAt(Drop(str, m), d)
<1>1. PICK n \in Nat :
        /\ n > 0 /\ (m + d) + n <= Len(str)
        /\ \A k \in (m + d) + 1 .. Len(str) :
             Sum(str[k]) > 0 => \/ k <= (m + d) + n /\ n < Sum(str[k]) + Word
                                \/ k > (m + d) + n + Sum(str[k])
  BY DEF DeadAt
<1>2. PICK t \in Bytes : /\ t = Drop(str, m) /\ Len(t) = Len(str) - m
                         /\ \A k \in 1 .. Len(str) - m : t[k] = str[m + k]
  BY DropIs
<1>3. Len(str) \in Nat
  BY DEF Bytes
<1>4. ASSUME NEW k \in d + 1 .. Len(t), Sum(t[k]) > 0
      PROVE  \/ k <= d + n /\ n < Sum(t[k]) + Word
             \/ k > d + n + Sum(t[k])
  <2>1. PICK j : j = m + k /\ j \in (m + d) + 1 .. Len(str) /\ k \in 1 .. Len(str) - m
    BY <1>2, <1>3
  <2>2. t[k] = str[j] /\ Sum(str[j]) \in Nat
    <3>1. j \in 1 .. Len(str)
      BY <2>1
    <3>. QED
      BY <1>2, <2>1, <3>1, SumIs
  <2>3. \/ j <= (m + d) + n /\ n < Sum(str[j]) + Word
        \/ j > (m + d) + n + Sum(str[j])
    BY <1>1, <1>4, <2>1, <2>2
  <2>. QED
    BY <2>1, <2>2, <2>3
<1>5. d + n <= Len(t)
  BY <1>1, <1>2, <1>3
<1>. QED
  BY <1>1, <1>2, <1>4, <1>5 DEF DeadAt

\* No reader takes what begins with a broken frame.
LEMMA DeadRefused ==
  ASSUME codec = "full", NEW bs \in Bytes, DeadAt(bs, 0)
  PROVE  ReadPacket(bs).is # "ok"
<1> SUFFICES ASSUME ReadPacket(bs).is = "ok" PROVE FALSE
  OBVIOUS
<1>0. Word \in Nat /\ Word > 0 /\ Len(bs) \in Nat
  BY Numbers DEF Bytes
<1>1. PICK total : total = GetUint(Take(bs, Word))
  OBVIOUS
<1>2. /\ ~(Len(bs) < Word) /\ ~(total < 3 * Word \/ total > MaxLen) /\ ~(Len(bs) < total)
      /\ SubSeq(bs, total - Word + 1, total) = Checksum(Take(bs, total - Word))
  BY <1>1 DEF ReadPacket, ReadFull, NeedMore, Refused
<1>3. total \in Nat
  <2>1. PICK h \in Bytes : h = Take(bs, Word) /\ Len(h) = Word
    BY <1>0, <1>2, TakeIs
  <2>2. \A k \in 1 .. Word : h[k] \in AnyByte
    BY <2>1 DEF Bytes
  <2>3. \A k \in 1 .. Word : h[k][1] \in Nat
    BY <2>2 DEF AnyByte, Value
  <2>4. Word \in 0 .. Word
    BY <1>0
  <2>5. PICK sum \in [0 .. Word -> Nat] : GetUint(h) = sum[Word]
    BY <2>1, <2>3, <2>4, GetUintIs
  <2>. QED
    BY <1>1, <2>1, <2>4, <2>5
<1>4. PICK L \in Nat : total = L + Word /\ L > 0 /\ L + Word <= Len(bs)
  <2>1. total - Word \in Nat /\ total = (total - Word) + Word /\ total - Word > 0
    BY <1>0, <1>2, <1>3
  <2>. QED
    BY <1>0, <1>2, <1>3, <2>1
<1>5. SubSeq(bs, L + 1, L + Word) = Checksum(Take(bs, L))
  <2>1. total - Word = L /\ total - Word + 1 = L + 1
    BY <1>0, <1>4
  <2>. QED
    BY <1>2, <1>4, <2>1
<1>6. ASSUME NEW k \in L + 1 .. L + Word PROVE Sum(bs[k]) = L
  <2>1. PICK j \in 1 .. Word : k = L + j
    <3>1. k - L \in 1 .. Word /\ k = L + (k - L)
      BY <1>0
    <3>. QED
      BY <3>1
  <2>2. SubSeq(bs, L + 1, L + Word)[j] = bs[L + j]
    BY <1>0, <1>4, <2>1 DEF Bytes
  <2>3. bs[k][2] = Take(bs, L)
    BY <1>5, <2>1, <2>2 DEF Checksum
  <2>4. Len(Take(bs, L)) = L
    BY <1>0, <1>4, TakeIs
  <2>. QED
    BY <2>3, <2>4 DEF Sum
<1>7. PICK n \in Nat :
        /\ n > 0 /\ n <= Len(bs)
        /\ \A k \in 1 .. Len(bs) :
             Sum(bs[k]) > 0 => \/ k <= n /\ n < Sum(bs[k]) + Word
                               \/ k > n + Sum(bs[k])
  <2>1. PICK n \in Nat :
          /\ n > 0 /\ 0 + n <= Len(bs)
          /\ \A k \in 0 + 1 .. Len(bs) :
               Sum(bs[k]) > 0 => \/ k <= 0 + n /\ n < Sum(bs[k]) + Word
                                 \/ k > 0 + n + Sum(bs[k])
    BY DEF DeadAt
  <2>2. 0 + n = n /\ 0 + 1 = 1
    OBVIOUS
  <2>. QED
    BY <2>1, <2>2
<1>8. ASSUME NEW k \in L + 1 .. L + Word PROVE (k <= n /\ n < L + Word) \/ k > n + L
  <2>1. k \in 1 .. Len(bs) /\ Sum(bs[k]) = L
    BY <1>0, <1>4, <1>6
  <2>. QED
    BY <1>4, <1>7, <2>1
<1>9. L + 1 <= n /\ n < L + Word
  <2>1. L + 1 \in L + 1 .. L + Word
    BY <1>0
  <2>2. (L + 1 <= n /\ n < L + Word) \/ L + 1 > n + L
    BY <1>8, <2>1
  <2>. QED
    BY <1>7, <2>2
<1>10. n + 1 \in L + 1 .. L + Word
  BY <1>0, <1>9
<1>11. (n + 1 <= n /\ n < L + Word) \/ n + 1 > n + L
  BY <1>8, <1>10
<1>. QED
  BY <1>4, <1>11


-----------------------------------------------------------------------------
(* The stream of the full codec, broken or not                             *)

\* All that has been written and not been read is the frames of the packets of
\* wh behind the first g.
Unbroken(c, str, g, wh) == \E cut : Laid(c, cut, str, g, wh) /\ Len(str) = cut[Len(wh)]

\* Or it is some of them, and behind these the beginning of another.
Broken(c, str, g, wh) ==
  \E w, cut :
    /\ w \in Seq(Bytes) /\ g <= Len(w) /\ Len(w) <= Len(wh) /\ \A i \in 1 .. Len(w) : w[i] = wh[i]
    /\ Laid(c, cut, str, g, w) /\ DeadAt(str, cut[Len(w)])

FullWire(c, str, g, wh) == Unbroken(c, str, g, wh) \/ Broken(c, str, g, wh)

\* A broken stream stays broken.
LEMMA BrokenLonger ==
  ASSUME NEW str \in Bytes, NEW g \in Nat, NEW wh \in Seq(Bytes), Broken(codec, str, g, wh),
         NEW x \in Bytes, Grounded(x), NEW v \in Seq(Bytes), Len(wh) <= Len(v),
         \A i \in 1 .. Len(wh) : v[i] = wh[i]
  PROVE  Broken(codec, str \o x, g, v)
<1>1. PICK w, cut :
        /\ w \in Seq(Bytes) /\ g <= Len(w) /\ Len(w) <= Len(wh) /\ \A i \in 1 .. Len(w) : w[i] = wh[i]
        /\ Laid(codec, cut, str, g, w) /\ DeadAt(str, cut[Len(w)])
  BY DEF Broken
<1>2. Laid(codec, cut, str \o x, g, w)
  BY <1>1, LaidLonger
<1>3. PICK d \in Nat : d = cut[Len(w)]
  BY <1>1, LaidEnds
<1>4. DeadAt(str \o x, d)
  BY <1>1, <1>3, DeadLonger
<1>5. Len(w) <= Len(v) /\ \A i \in 1 .. Len(w) : w[i] = v[i]
  BY <1>1
<1>. QED
  BY <1>1, <1>2, <1>3, <1>4, <1>5 DEF Broken

\* A whole frame is written.
LEMMA FullWritten ==
  ASSUME codec = "full", NEW str \in Bytes, NEW g \in Nat, NEW wh \in Seq(Bytes), g <= Len(wh),
         FullWire(codec, str, g, wh), NEW p, IsPacket(p), NEW seq \in Nat
  PROVE  FullWire(codec, str \o FullFrame(p, seq), g, Append(wh, p))
<1>1. PICK x \in Bytes : x = FullFrame(p, seq) /\ Len(x) = Len(p) + 3 * Word
  BY FullIs
<1>2. /\ p \in Bytes /\ Append(wh, p) \in Seq(Bytes) /\ Len(wh) <= Len(Append(wh, p))
      /\ \A i \in 1 .. Len(wh) : Append(wh, p)[i] = wh[i]
  BY PayloadIs
<1>3. CASE Broken(codec, str, g, wh)
  <2>1. Grounded(x)
    <3>1. Len(x) <= Len(FullFrame(p, seq)) /\ \A k \in 1 .. Len(x) : x[k] = FullFrame(p, seq)[k]
      BY <1>1 DEF Bytes
    <3>. QED
      BY <3>1, PartGrounded
  <2>. QED
    BY <1>1, <1>2, <1>3, <2>1, BrokenLonger DEF FullWire
<1>4. CASE Unbroken(codec, str, g, wh)
  <2>1. PICK cut : Laid(codec, cut, str, g, wh) /\ Len(str) = cut[Len(wh)]
    BY <1>4 DEF Unbroken
  <2>2. PICK t \in Bytes : t = str \o x /\ Len(t) = Len(str) + Len(x) /\ At(t, Len(str), x)
    BY AtLonger, 0 \in Nat
  <2>3. Laid(codec, cut, t, g, wh)
    BY <2>1, <2>2, LaidLonger
  <2>4. FrameAt(codec, t, Len(str), p, Len(t))
    <3>1. Writable(codec, p)
      BY DEF Writable
    <3>2. Len(t) = Len(str) + Len(p) + 3 * Word /\ Len(t) <= Len(t)
      <4>1. Len(str) \in Nat /\ Len(p) \in Nat /\ Word \in Nat
        BY PayloadIs, Numbers DEF Bytes
      <4>. QED
        BY <1>1, <2>2, <4>1
    <3>3. At(t, Len(str), FullFrame(p, seq))
      BY <1>1, <2>2
    <3>. QED
      BY <3>1, <3>2, <3>3 DEF FrameAt
  <2>5. OnWire(codec, t, g, Append(wh, p), Nobody, pieces, packet)
    BY <1>2, <2>1, <2>3, <2>4, LaidAppend
  <2>6. Unbroken(codec, t, g, Append(wh, p))
    BY <2>5, Numbers DEF OnWire, Unbroken
  <2>. QED
    BY <1>1, <2>2, <2>6 DEF FullWire
<1>. QED
  BY <1>3, <1>4 DEF FullWire

\* A Write fails after n bytes.
LEMMA FullTorn ==
  ASSUME codec = "full", NEW str \in Bytes, NEW g \in Nat, NEW wh \in Seq(Bytes), g <= Len(wh),
         FullWire(codec, str, g, wh), NEW p, IsPacket(p), NEW seq \in Nat,
         NEW n \in Nat, n < Len(FullFrame(p, seq))
  PROVE  /\ str \o Take(FullFrame(p, seq), n) \in Bytes
         /\ FullWire(codec, str \o Take(FullFrame(p, seq), n), g, wh)
<1>1. PICK f \in Bytes : f = FullFrame(p, seq) /\ n < Len(f) /\ Len(f) \in Nat
  BY FullIs DEF Bytes
<1>2. PICK x \in Bytes : x = Take(f, n) /\ Len(x) = n /\ \A k \in 1 .. n : x[k] = f[k]
  BY <1>1, TakeIs
<1>3. str \o x \in Bytes
  BY AtLonger, 0 \in Nat
<1>4. Grounded(x)
  <2>1. Len(x) <= Len(FullFrame(p, seq)) /\ \A k \in 1 .. Len(x) : x[k] = FullFrame(p, seq)[k]
    BY <1>1, <1>2
  <2>. QED
    BY <2>1, PartGrounded
<1>5. CASE Broken(codec, str, g, wh)
  <2>1. Len(wh) <= Len(wh)
    OBVIOUS
  <2>. QED
    BY <1>1, <1>2, <1>3, <1>4, <1>5, <2>1, BrokenLonger DEF FullWire
<1>6. CASE Unbroken(codec, str, g, wh) /\ n = 0
  <2>1. str \o x = str
    BY <1>2, <1>6 DEF Bytes
  <2>. QED
    BY <1>1, <1>2, <1>3, <2>1
<1>7. CASE Unbroken(codec, str, g, wh) /\ n > 0
  <2>1. PICK cut : Laid(codec, cut, str, g, wh) /\ Len(str) = cut[Len(wh)]
    BY <1>7 DEF Unbroken
  <2>2. Laid(codec, cut, str \o x, g, wh)
    BY <2>1, LaidLonger
  <2>3. DeadAt(str \o x, Len(str))
    <3>1. /\ Len(x) > 0 /\ Len(x) < Len(FullFrame(p, seq))
          /\ \A k \in 1 .. Len(x) : x[k] = FullFrame(p, seq)[k]
      BY <1>1, <1>2, <1>7
    <3>. QED
      BY <3>1, DeadBegins
  <2>4. Len(wh) <= Len(wh)
    OBVIOUS
  <2>5. Broken(codec, str \o x, g, wh)
    BY <2>1, <2>2, <2>3, <2>4 DEF Broken
  <2>. QED
    BY <1>1, <1>2, <1>3, <2>5 DEF FullWire
<1>. QED
  BY <1>5, <1>6, <1>7 DEF FullWire

\* What is behind the first frame, once it is read.
FullRest(c, g, wh, rest) == rest \in Bytes /\ FullWire(c, rest, g + 1, wh)

\* The reader takes nothing but the packet of the first whole frame.
LEMMA FullRead ==
  ASSUME codec = "full", NEW str \in Bytes, NEW g \in Nat, NEW wh \in Seq(Bytes), g <= Len(wh),
         FullWire(codec, str, g, wh), ReadPacket(str).is = "ok"
  PROVE  g < Len(wh) /\ \E rest : /\ ReadPacket(str) = Accepted(wh[g + 1], rest)
                                  /\ FullRest(codec, g, wh, rest)
<1>1. PICK w, cut :
        /\ w \in Seq(Bytes) /\ g <= Len(w) /\ Len(w) <= Len(wh) /\ \A i \in 1 .. Len(w) : w[i] = wh[i]
        /\ Laid(codec, cut, str, g, w)
        /\ (w = wh /\ Len(str) = cut[Len(w)]) \/ DeadAt(str, cut[Len(w)])
  <2>1. CASE Unbroken(codec, str, g, wh)
    <3>1. Len(wh) <= Len(wh)
      OBVIOUS
    <3>. QED
      BY <2>1, <3>1 DEF Unbroken
  <2>2. CASE Broken(codec, str, g, wh)
    BY <2>2 DEF Broken
  <2>. QED
    BY <2>1, <2>2 DEF FullWire
<1>2. g < Len(w)
  <2> SUFFICES ASSUME g = Len(w) PROVE FALSE
    BY <1>1
  <2>1. cut[Len(w)] = 0
    BY <1>1, LaidEnds
  <2>2. CASE Len(str) = 0
    <3>1. ReadPacket(str) = NeedMore
      BY <2>2, Numbers DEF ReadPacket, ReadFull
    <3>. QED
      BY <3>1 DEF NeedMore
  <2>3. CASE DeadAt(str, 0)
    BY <2>3, DeadRefused
  <2>. QED
    BY <1>1, <2>1, <2>2, <2>3
<1>3. PICK n, c2 :
        /\ n \in Nat
        /\ FrameAt(codec, str, 0, w[g + 1], n)
        /\ n <= Len(str) /\ n <= cut[Len(w)]
        /\ Laid(codec, c2, Drop(str, n), g + 1, w) /\ c2[Len(w)] = cut[Len(w)] - n
  BY <1>1, <1>2, LaidDrop
<1>4. PICK rest \in Bytes : rest = Drop(str, n) /\ Len(rest) = Len(str) - n
  BY <1>3, DropIs
<1>5. ReadPacket(str) = Accepted(w[g + 1], rest)
  <2>1. \/ ReadPacket(str) = Refused("length") /\ ~Fits(w[g + 1])
        \/ \E q \in Bytes : ReadPacket(str) = Accepted(q, Drop(str, n)) /\ IsPadded(w[g + 1], q)
    BY <1>3, ReadFrame DEF AllCodecs
  <2>2. PICK q \in Bytes : ReadPacket(str) = Accepted(q, Drop(str, n)) /\ IsPadded(w[g + 1], q)
    BY <2>1 DEF Refused
  <2>3. PICK p \in Bytes : p = w[g + 1]
    BY <1>1, <1>2
  <2>4. Len(p) <= Len(q) /\ Take(q, Len(p)) = p /\ Len(q) - Len(p) <= 0 /\ Len(p) \in Nat /\ Len(q) \in Nat
    BY <2>2, <2>3 DEF IsPadded, Bytes
  <2>5. Len(p) = Len(q)
    BY <2>4
  <2>6. Take(q, Len(q)) = q
    BY <2>4 DEF Take, Bytes
  <2>. QED
    BY <1>4, <2>2, <2>3, <2>4, <2>5, <2>6
<1>6. cut[Len(w)] \in Nat /\ c2[Len(w)] \in Nat /\ cut[Len(w)] = n + c2[Len(w)]
  <2>1. cut[Len(w)] \in Nat
    BY <1>1, LaidEnds
  <2>. QED
    BY <1>3, <2>1
<1>7. FullWire(codec, rest, g + 1, wh)
  <2>1. CASE w = wh /\ Len(str) = cut[Len(w)]
    <3>1. Len(rest) = c2[Len(wh)]
      BY <1>3, <1>4, <2>1
    <3>. QED
      BY <1>3, <1>4, <2>1, <3>1 DEF FullWire, Unbroken
  <2>2. CASE DeadAt(str, cut[Len(w)])
    <3>1. DeadAt(rest, c2[Len(w)])
      BY <1>3, <1>4, <1>6, <2>2, DeadDrop
    <3>2. g + 1 <= Len(w)
      BY <1>2
    <3>. QED
      BY <1>1, <1>3, <1>4, <3>1, <3>2 DEF FullWire, Broken
  <2>. QED
    BY <1>1, <2>1, <2>2
<1>8. g < Len(wh) /\ w[g + 1] = wh[g + 1]
  <2>1. g + 1 \in 1 .. Len(w)
    BY <1>2
  <2>. QED
    BY <1>1, <1>2, <2>1
<1>. QED
  BY <1>5, <1>7, <1>8 DEF FullRest


\* The number of a frame is what stands behind its length.
LEMMA SeqRead ==
  ASSUME NEW p, IsPacket(p), NEW q \in Nat, q < Power(Word)
  PROVE  GetUint(SubSeq(FullFrame(p, q), Word + 1, 2 * Word)) = q
<1>0. Word \in Nat /\ Len(p) \in Nat /\ Len(p) + 3 * Word \in Nat /\ p \in Bytes
  BY PayloadIs, Numbers
<1>1. PICK a \in Bytes : a = PutUint(Len(p) + 3 * Word, Word) /\ Len(a) = Word
  BY <1>0, WordIs, Zenon
<1>2. PICK b \in Bytes : b = PutUint(q, Word) /\ Len(b) = Word
  BY <1>0, WordIs, Zenon
<1>3. PICK f \in Bytes, c \in Bytes, x \in Bytes :
        /\ f = (a \o b) \o p /\ x = FullFrame(p, q) /\ x = f \o c
  <2>1. PICK f \in Bytes, c \in Bytes, x \in Bytes :
          f = Front(p, q) /\ x = FullFrame(p, q) /\ x = f \o c
    BY FullIs
  <2>2. f = (a \o b) \o p
    BY <1>1, <1>2, <2>1 DEF Front
  <2>. QED
    BY <2>1, <2>2
<1>4. At(x, 0, f)
  <2>1. At(x, 0, f \o c)
    <3>1. At(x, 0, x)
      BY DEF At, Bytes
    <3>. QED
      BY <1>3, <3>1
  <2>. QED
    BY <1>3, <2>1, AtBoth, 0 \in Nat, Zenon
<1>5. a \o b \in Bytes
  BY DEF Bytes
<1>6. At(x, 0, a \o b)
  BY <1>0, <1>3, <1>4, <1>5, AtBoth, 0 \in Nat, Zenon
<1>7. At(x, 0 + Len(a), b)
  BY <1>6, AtBoth, 0 \in Nat, Zenon
<1>8. SubSeq(x, Word + 1, Word + Len(b)) = b
  <2>1. At(x, Word, b)
    <3>1. 0 + Len(a) = Word
      BY <1>0, <1>1
    <3>. QED
      BY <1>7, <3>1
  <2>. QED
    BY <1>0, <2>1, CutOut, Zenon
<1>9. Word + Len(b) = 2 * Word
  BY <1>0, <1>2
<1>. QED
  BY <1>2, <1>3, <1>8, <1>9, WordIs

-----------------------------------------------------------------------------
(***************************************************************************)
(* The inductive invariant of the full codec, whatever Write fails: frames *)
(* are on the wire up to the first that is broken; every frame begun has   *)
(* the next number, which is less than the number of the Sends that have   *)
(* begun, and so fits into a word.                                         *)
(***************************************************************************)
FullFrames ==
  /\ Len(got) <= Len(whole) /\ FullWire(codec, stream, Len(got), whole)
  /\ \A i \in 1 .. Len(got) : got[i] = whole[i]

Writing ==
  \A s \in Senders : at[s] = "writing" =>
    sendSeq > 0 /\ pieces[s] = <<FullFrame(packet[s], sendSeq - 1)>>

Waiting == {s \in Senders : at[s] = "locking"}

Counted == sends \in Nat /\ sends <= MaxSends /\ sendSeq + Cardinality(Waiting) <= sends

\* How many frames have been begun and are no longer being written.
Finished == IF writeMu = Nobody THEN sendSeq ELSE sendSeq - 1

Numbered ==
  /\ seqs \in Seq(Nat)
  /\ \A i \in 1 .. Len(seqs) : seqs[i] < Finished
  /\ \A i, j \in 1 .. Len(seqs) : i < j => seqs[i] < seqs[j]
  /\ ~torn => Len(seqs) = Finished /\ \A i \in 1 .. Len(seqs) : seqs[i] = i - 1

FullSafe ==
  codec = "full" =>
    WireTypes /\ OneWrites /\ FullFrames /\ Writing /\ Counted /\ Numbered

\* There are finitely many senders, and so few that wait.
LEMMA FewWait ==
  IsFiniteSet(Waiting) /\ Cardinality(Waiting) \in Nat
<1>1. IsFiniteSet(0 .. Radix - 1)
  BY Numbers, FS_Interval
<1>2. Waiting \in SUBSET (0 .. Radix - 1)
  BY WireAssumption DEF Waiting
<1>3. IsFiniteSet(Waiting)
  BY <1>1, <1>2, FS_Subset
<1>. QED
  BY <1>3, FS_CardinalityType

LEMMA FullStarts == WireInit => FullSafe
<1> SUFFICES ASSUME WireInit, codec = "full"
             PROVE  WireTypes /\ OneWrites /\ FullFrames /\ Writing /\ Counted /\ Numbered
  BY DEF FullSafe
<1>1. /\ stream = << >> /\ got = << >> /\ whole = << >> /\ seqs = << >> /\ writeMu = Nobody
      /\ sends = 0 /\ sendSeq = 0 /\ \A s \in Senders : at[s] = "idle"
  BY DEF WireInit
<1>2. WireTypes /\ OneWrites
  <2>1. ~torn
    BY DEF WireInit
  <2>. QED
    BY <2>1, WireStarts DEF WireSafe
<1>3. FullFrames
  <2> DEFINE cut == [i \in 0 .. 0 |-> 0]
  <2>1. Laid(codec, cut, << >>, 0, << >>)
    BY DEF Laid
  <2>2. Len(<< >>) = cut[Len(<< >>)]
    OBVIOUS
  <2>3. FullWire(codec, << >>, 0, << >>)
    BY <2>1, <2>2 DEF FullWire, Unbroken
  <2>4. Len(<< >>) = 0 /\ Len(<< >>) <= Len(<< >>) /\ 1 .. 0 = {}
    OBVIOUS
  <2>. QED
    BY <1>1, <2>3, <2>4 DEF FullFrames
<1>4. Writing
  BY <1>1 DEF Writing
<1>5. Counted
  <2>1. Waiting = {}
    BY <1>1 DEF Waiting
  <2>2. Cardinality(Waiting) = 0
    BY <2>1, FS_EmptySet
  <2>. QED
    BY <1>1, <2>2, WireAssumption DEF Counted
<1>6. Numbered
  BY <1>1 DEF Numbered, Finished
<1>. QED
  BY <1>2, <1>3, <1>4, <1>5, <1>6

\* Another Send begins to wait.
LEMMA FullSend ==
  ASSUME FullSafe, codec = "full", NEW s \in Senders, NEW n \in Lens, Send(s, n)
  PROVE  WireTypes' /\ OneWrites' /\ FullFrames' /\ Writing' /\ Counted' /\ Numbered'
<1>1. /\ WireTypes /\ OneWrites /\ FullFrames /\ Writing /\ Counted /\ Numbered
      /\ at[s] = "idle" /\ at' = [at EXCEPT ![s] = "locking"] /\ sends < MaxSends
      /\ sends' = sends + 1
      /\ UNCHANGED <<codec, writeMu, sendSeq, pieces, stream, whole, seqs, torn, got>>
  BY DEF FullSafe, Send
<1>2. WireTypes' /\ OneWrites'
  BY <1>1, SendTypes
<1>3. FullFrames' /\ Numbered'
  BY <1>1 DEF FullFrames, Numbered, Finished
<1>4. Writing'
  <2> SUFFICES ASSUME NEW t \in Senders, at'[t] = "writing"
               PROVE  sendSeq > 0 /\ pieces[t] = <<FullFrame(packet'[t], sendSeq - 1)>>
    BY <1>1 DEF Writing, FullFrame
  <2>1. t # s /\ at[t] = "writing"
    BY <1>1 DEF WireTypes
  <2>2. packet'[t] = packet[t]
    BY <1>1, <2>1 DEF Send, WireTypes
  <2>. QED
    BY <1>1, <2>1, <2>2 DEF Writing
<1>5. Counted'
  <2>1. Waiting' = Waiting \cup {s} /\ s \notin Waiting
    BY <1>1 DEF Waiting, WireTypes
  <2>2. Cardinality(Waiting') = Cardinality(Waiting) + 1
    BY <2>1, FewWait, FS_AddElement
  <2>3. MaxSends \in Nat /\ sendSeq \in Nat /\ Cardinality(Waiting) \in Nat
    BY <1>1, FewWait, WireAssumption DEF WireTypes
  <2>. QED
    BY <1>1, <2>2, <2>3 DEF Counted
<1>. QED
  BY <1>2, <1>3, <1>4, <1>5

\* A frame takes the next number.
LEMMA FullLock ==
  ASSUME FullSafe, codec = "full", NEW s \in Senders, Lock(s)
  PROVE  WireTypes' /\ OneWrites' /\ FullFrames' /\ Writing' /\ Counted' /\ Numbered'
<1>1. /\ WireTypes /\ OneWrites /\ FullFrames /\ Writing /\ Counted /\ Numbered
      /\ at[s] = "locking" /\ at' = [at EXCEPT ![s] = "writing"]
      /\ writeMu = Nobody /\ writeMu' = s /\ sendSeq' = sendSeq + 1
      /\ UNCHANGED <<codec, packet, stream, sends, whole, seqs, torn, got>>
  BY DEF FullSafe, Lock, BeginWrite, NextSeq
<1>2. WireTypes' /\ OneWrites'
  BY <1>1, LockTypes
<1>3. FullFrames'
  BY <1>1 DEF FullFrames
<1>4. sendSeq \in Nat /\ s # Nobody
  BY <1>1, Numbers DEF WireTypes
<1>5. Numbered'
  <2>1. Finished' = sendSeq /\ Finished = sendSeq
    BY <1>1, <1>4 DEF Finished
  <2>. QED
    BY <1>1, <2>1 DEF Numbered
<1>6. Writing'
  <2> SUFFICES ASSUME NEW t \in Senders, at'[t] = "writing"
               PROVE  sendSeq' > 0 /\ pieces'[t] = <<FullFrame(packet[t], sendSeq' - 1)>>
    BY <1>1 DEF Writing, FullFrame
  <2>1. t = s
    BY <1>1, Numbers DEF WireTypes, OneWrites
  <2>2. pieces'[s] = <<FullFrame(packet[s], sendSeq)>>
    BY <1>1 DEF Lock, BeginWrite, WritePacket, WireTypes
  <2>3. sendSeq' > 0 /\ sendSeq' - 1 = sendSeq
    BY <1>1, <1>4
  <2>. QED
    BY <2>1, <2>2, <2>3
<1>7. Counted'
  <2>1. Waiting' = Waiting \ {s} /\ s \in Waiting
    BY <1>1 DEF Waiting, WireTypes
  <2>2. Cardinality(Waiting') = Cardinality(Waiting) - 1
    BY <2>1, FewWait, FS_RemoveElement
  <2>3. MaxSends \in Nat /\ Cardinality(Waiting) \in Nat
    BY FewWait, WireAssumption
  <2>. QED
    BY <1>1, <1>4, <2>2, <2>3 DEF Counted
<1>. QED
  BY <1>2, <1>3, <1>5, <1>6, <1>7

\* Once the mutex is given up nobody writes.
LEMMA FullUnlock ==
  ASSUME FullSafe, codec = "full", NEW s \in Senders, at[s] = "writing", Unlock(s),
         UNCHANGED <<codec, sendSeq, sends, got>>, stream' \in Bytes, whole' \in Seq(Bytes)
  PROVE  WireTypes' /\ OneWrites' /\ Writing' /\ Counted' /\ Finished = sendSeq - 1
         /\ Finished' = sendSeq
<1>1. WireTypes /\ OneWrites /\ Counted /\ writeMu = s /\ writeMu' = Nobody /\ s # Nobody
  BY Numbers DEF FullSafe, OneWrites, Unlock
<1>2. WireTypes' /\ OneWrites'
  BY <1>1, UnlockTypes
<1>3. Writing'
  BY <1>1, <1>2, Numbers DEF OneWrites, Writing
<1>4. Counted'
  <2>1. Waiting' = Waiting
    BY <1>1 DEF Waiting, WireTypes, Unlock
  <2>. QED
    BY <1>1, <2>1 DEF Counted
<1>. QED
  BY <1>1, <1>2, <1>3, <1>4 DEF Finished


\* The whole frame is written.
LEMMA FullWrite ==
  ASSUME FullSafe, codec = "full", NEW s \in Senders, Write(s)
  PROVE  WireTypes' /\ OneWrites' /\ FullFrames' /\ Writing' /\ Counted' /\ Numbered'
<1>1. /\ WireTypes /\ OneWrites /\ FullFrames /\ Writing /\ Counted /\ Numbered
      /\ at[s] = "writing" /\ writeMu = s /\ IsPacket(packet[s])
      /\ UNCHANGED <<codec, sendSeq, sends, torn, got>>
  BY DEF FullSafe, OneWrites, Write
<1>p. PICK p : p = packet[s] /\ IsPacket(p)
  BY <1>1
<1>2. PICK q \in Nat : /\ q = sendSeq - 1 /\ sendSeq = q + 1 /\ IsPacket(p)
                       /\ pieces[s] = <<FullFrame(p, q)>>
  <2>1. sendSeq \in Nat /\ sendSeq > 0 /\ pieces[s] = <<FullFrame(packet[s], sendSeq - 1)>>
    BY <1>1 DEF Writing, WireTypes
  <2>2. sendSeq - 1 \in Nat /\ sendSeq = (sendSeq - 1) + 1
    BY <2>1
  <2>. QED
    BY <1>p, <2>1, <2>2
<1>3. /\ stream' = stream \o FullFrame(p, q) /\ whole' = Append(whole, p) /\ Unlock(s)
      /\ seqs' = Append(seqs, GetUint(SubSeq(FullFrame(p, q), Word + 1, 2 * Word)))
  <2>1. Len(pieces[s]) = 1 /\ Head(pieces[s]) = FullFrame(p, q) /\ pieces[s][1] = FullFrame(p, q)
    BY <1>2
  <2>. QED
    BY <1>p, <1>2, <2>1 DEF Write
<1>4. q < Power(Word)
  <2>1. Cardinality(Waiting) \in Nat /\ sends \in Nat /\ MaxSends \in Nat /\ MaxSends < Power(Word)
    BY <1>1, FewWait, WireAssumption, HeadersAssumption DEF Counted
  <2>2. q < MaxSends
    BY <1>1, <1>2, <2>1 DEF Counted
  <2>3. PICK B \in Nat : B = Power(Word)
    <3>1. Word \in 0 .. Word
      BY Numbers
    <3>. QED
      BY <3>1, PowerIs
  <2>. QED
    BY <2>1, <2>2, <2>3
<1>5. seqs' = Append(seqs, q)
  BY <1>2, <1>3, <1>4, SeqRead
<1>6. PICK g \in Nat : g = Len(got) /\ g <= Len(whole) /\ FullWire(codec, stream, g, whole)
  BY <1>1 DEF FullFrames, WireTypes
<1>7. /\ stream' \in Bytes /\ whole' \in Seq(Bytes) /\ Len(whole) <= Len(whole')
      /\ \A i \in 1 .. Len(whole) : whole'[i] = whole[i]
  <2>1. FullFrame(p, q) \in Bytes /\ p \in Bytes
    BY <1>2, FullIs, PayloadIs
  <2>2. stream \in Bytes /\ whole \in Seq(Bytes)
    BY <1>1 DEF WireTypes
  <2>3. stream' \in Bytes
    BY <1>3, <2>1, <2>2 DEF Bytes
  <2>. QED
    BY <1>3, <2>1, <2>2, <2>3
<1>8. WireTypes' /\ OneWrites' /\ Writing' /\ Counted' /\ Finished = q /\ Finished' = q + 1
  BY <1>1, <1>2, <1>3, <1>7, FullUnlock
<1>9. FullFrames'
  <2>1. FullWire(codec, stream \o FullFrame(p, q), g, Append(whole, p))
    BY <1>1, <1>2, <1>6, FullWritten DEF WireTypes
  <2>2. FullWire(codec, stream, Len(got), whole)'
    BY <1>1, <1>3, <1>6, <2>1
  <2>3. Len(whole) \in Nat /\ Len(whole') \in Nat
    BY <1>1, <1>7 DEF WireTypes
  <2>4. Len(got') <= Len(whole')
    BY <1>1, <1>6, <1>7, <2>3
  <2>5. ASSUME NEW i \in 1 .. g PROVE got'[i] = whole'[i]
    <3>1. i \in 1 .. Len(whole)
      BY <1>6, <2>3
    <3>. QED
      BY <1>1, <1>6, <1>7, <3>1 DEF FullFrames
  <2>. QED
    BY <1>1, <1>6, <2>2, <2>4, <2>5 DEF FullFrames
<1>10. Numbered'
  <2>1. /\ seqs \in Seq(Nat) /\ \A i \in 1 .. Len(seqs) : seqs[i] < q
        /\ \A i, j \in 1 .. Len(seqs) : i < j => seqs[i] < seqs[j]
        /\ ~torn => Len(seqs) = q /\ \A i \in 1 .. Len(seqs) : seqs[i] = i - 1
    BY <1>1, <1>8 DEF Numbered
  <2>2. PICK m \in Nat : m = Len(seqs)
    BY <2>1
  <2>3. /\ seqs' \in Seq(Nat) /\ Len(seqs') = m + 1 /\ seqs'[m + 1] = q
        /\ \A i \in 1 .. m : seqs'[i] = seqs[i] /\ seqs[i] \in Nat
    BY <1>5, <2>1, <2>2
  <2>4. ASSUME NEW i \in 1 .. m + 1 PROVE seqs'[i] < q + 1
    <3>1. i = m + 1 \/ i \in 1 .. m
      OBVIOUS
    <3>. QED
      BY <2>1, <2>2, <2>3, <3>1
  <2>5. ASSUME NEW i \in 1 .. m + 1, NEW j \in 1 .. m + 1, i < j PROVE seqs'[i] < seqs'[j]
    <3>1. i \in 1 .. m /\ (j = m + 1 \/ j \in 1 .. m)
      BY <2>5
    <3>. QED
      BY <2>1, <2>2, <2>3, <2>5, <3>1
  <2>6. ASSUME ~torn, NEW i \in 1 .. m + 1 PROVE seqs'[i] = i - 1 /\ m + 1 = q + 1
    <3>1. i = m + 1 \/ i \in 1 .. m
      OBVIOUS
    <3>2. m = q /\ \A k \in 1 .. m : seqs[k] = k - 1
      BY <2>1, <2>2, <2>6, Zenon
    <3>. QED
      BY <2>3, <3>1, <3>2
  <2>7. m + 1 \in 1 .. m + 1
    OBVIOUS
  <2>. QED
    BY <1>1, <1>8, <2>3, <2>4, <2>5, <2>6, <2>7 DEF Numbered
<1>. QED
  BY <1>8, <1>9, <1>10

\* Some of it is.
LEMMA FullWriteFails ==
  ASSUME FullSafe, codec = "full", NEW s \in Senders, WriteFails(s)
  PROVE  WireTypes' /\ OneWrites' /\ FullFrames' /\ Writing' /\ Counted' /\ Numbered'
<1>1. /\ WireTypes /\ OneWrites /\ FullFrames /\ Writing /\ Counted /\ Numbered
      /\ at[s] = "writing" /\ IsPacket(packet[s]) /\ Unlock(s) /\ torn'
      /\ UNCHANGED <<codec, sendSeq, sends, whole, seqs, got>>
  BY DEF FullSafe, OneWrites, WriteFails
<1>p. PICK p : p = packet[s] /\ IsPacket(p)
  BY <1>1
<1>2. PICK q \in Nat : /\ q = sendSeq - 1 /\ sendSeq = q + 1 /\ IsPacket(p)
                       /\ pieces[s] = <<FullFrame(p, q)>>
  <2>1. sendSeq \in Nat /\ sendSeq > 0 /\ pieces[s] = <<FullFrame(packet[s], sendSeq - 1)>>
    BY <1>1 DEF Writing, WireTypes
  <2>2. sendSeq - 1 \in Nat /\ sendSeq = (sendSeq - 1) + 1
    BY <2>1
  <2>. QED
    BY <1>p, <2>1, <2>2
<1>3. PICK n \in Nat : n < Len(FullFrame(p, q)) /\ stream' = stream \o Take(FullFrame(p, q), n)
  <2>1. Head(pieces[s]) = FullFrame(p, q)
    BY <1>2
  <2>2. Len(FullFrame(p, q)) \in Nat /\ Len(FullFrame(p, q)) > 0
    BY <1>2, FullIs, PayloadIs, Numbers
  <2>3. PICK n \in {0} \cup 0 .. Len(FullFrame(p, q)) - 1 : stream' = stream \o Take(FullFrame(p, q), n)
    BY <2>1 DEF WriteFails
  <2>4. n \in Nat /\ n < Len(FullFrame(p, q))
    BY <2>2
  <2>. QED
    BY <2>3, <2>4
<1>4. PICK g \in Nat : g = Len(got) /\ g <= Len(whole) /\ FullWire(codec, stream, g, whole)
  BY <1>1 DEF FullFrames, WireTypes
<1>5. /\ stream \o Take(FullFrame(p, q), n) \in Bytes
      /\ FullWire(codec, stream \o Take(FullFrame(p, q), n), g, whole)
  BY <1>1, <1>2, <1>3, <1>4, FullTorn DEF WireTypes
<1>6. WireTypes' /\ OneWrites' /\ Writing' /\ Counted' /\ Finished = q /\ Finished' = q + 1
  <2>1. stream' \in Bytes /\ whole' \in Seq(Bytes)
    BY <1>1, <1>3, <1>5 DEF WireTypes
  <2>. QED
    BY <1>1, <1>2, <2>1, FullUnlock
<1>7. FullFrames'
  BY <1>1, <1>3, <1>4, <1>5 DEF FullFrames
<1>8. Numbered'
  <2>1. /\ seqs \in Seq(Nat) /\ \A i \in 1 .. Len(seqs) : seqs[i] < q /\ seqs[i] \in Nat
        /\ \A i, j \in 1 .. Len(seqs) : i < j => seqs[i] < seqs[j]
    BY <1>1, <1>6 DEF Numbered
  <2>2. \A i \in 1 .. Len(seqs) : seqs[i] < q + 1
    BY <2>1
  <2>. QED
    BY <1>1, <1>6, <2>1, <2>2 DEF Numbered
<1>. QED
  BY <1>6, <1>7, <1>8

\* The reader takes a whole frame, or stops.
LEMMA FullRecv ==
  ASSUME FullSafe, codec = "full", Recv
  PROVE  WireTypes' /\ OneWrites' /\ FullFrames' /\ Writing' /\ Counted' /\ Numbered'
<1>1. /\ WireTypes /\ OneWrites /\ FullFrames /\ Writing /\ Counted /\ Numbered
      /\ UNCHANGED <<codec, writeMu, sendSeq, at, packet, pieces, sends, whole, seqs, torn>>
  BY DEF FullSafe, Recv, sendVars
<1>2. OneWrites' /\ Writing' /\ Counted' /\ Numbered'
  BY <1>1 DEF OneWrites, IsPacket, Writing, FullFrame, Counted, Waiting, Numbered, Finished
<1>3. CASE ReadPacket(stream).is # "ok"
  <2>1. UNCHANGED <<got, stream>>
    BY <1>3 DEF Recv
  <2>. QED
    BY <1>1, <1>2, <2>1 DEF WireTypes, FullFrames
<1>4. CASE ReadPacket(stream).is = "ok"
  <2>1. PICK g \in Nat : g = Len(got) /\ g <= Len(whole) /\ FullWire(codec, stream, g, whole)
    BY <1>1 DEF FullFrames, WireTypes
  <2>2. g < Len(whole) /\ \E rest : /\ ReadPacket(stream) = Accepted(whole[g + 1], rest)
                                    /\ FullRest(codec, g, whole, rest)
    BY <1>1, <1>4, <2>1, FullRead DEF WireTypes
  <2>3. PICK rest \in Bytes : /\ ReadPacket(stream) = Accepted(whole[g + 1], rest)
                              /\ FullWire(codec, rest, g + 1, whole)
    BY <2>2 DEF FullRest
  <2>4. got' = Append(got, whole[g + 1]) /\ stream' = rest
    BY <2>3 DEF Recv, Accepted
  <2>5. whole[g + 1] \in Bytes /\ got \in Seq(Bytes) /\ whole \in Seq(Bytes) /\ g + 1 <= Len(whole)
    BY <1>1, <2>1, <2>2 DEF WireTypes
  <2>6. /\ got' \in Seq(Bytes) /\ Len(got') = g + 1 /\ got'[g + 1] = whole[g + 1]
        /\ \A i \in 1 .. g : got'[i] = got[i]
    BY <2>1, <2>4, <2>5
  <2>7. WireTypes'
    BY <1>1, <2>4, <2>6 DEF WireTypes
  <2>8. FullFrames'
    <3>1. ASSUME NEW i \in 1 .. g + 1 PROVE got'[i] = whole[i]
      <4>1. i = g + 1 \/ i \in 1 .. g
        OBVIOUS
      <4>. QED
        BY <1>1, <2>1, <2>6, <4>1 DEF FullFrames
    <3>2. FullWire(codec, stream, Len(got), whole)'
      BY <1>1, <2>3, <2>4, <2>6
    <3>. QED
      BY <1>1, <2>5, <2>6, <3>1, <3>2 DEF FullFrames
  <2>. QED
    BY <1>2, <2>7, <2>8
<1>. QED
  BY <1>3, <1>4

\* Every step preserves the invariant, a failed Write included.
LEMMA FullStep == FullSafe /\ [WireNext]_wireVars => FullSafe'
<1> SUFFICES ASSUME FullSafe, [WireNext]_wireVars, codec' = "full"
             PROVE  WireTypes' /\ OneWrites' /\ FullFrames' /\ Writing' /\ Counted' /\ Numbered'
  BY DEF FullSafe
<1>0. codec = "full"
  BY DEF WireNext, Send, SendStep, Lock, BeginWrite, Write, WriteFails, Close, Recv, RecvFails,
         wireVars
<1>1. ASSUME NEW s \in Senders, NEW n \in Lens, Send(s, n)
      PROVE  WireTypes' /\ OneWrites' /\ FullFrames' /\ Writing' /\ Counted' /\ Numbered'
  BY <1>0, <1>1, FullSend
<1>2. ASSUME NEW s \in Senders, SendStep(s)
      PROVE  WireTypes' /\ OneWrites' /\ FullFrames' /\ Writing' /\ Counted' /\ Numbered'
  BY <1>0, <1>2, FullLock, FullWrite, FullWriteFails DEF SendStep
<1>3. CASE Close \/ RecvFails \/ UNCHANGED wireVars
  <2>1. UNCHANGED <<codec, writeMu, sendSeq, at, packet, pieces, stream, sends, whole, seqs, torn, got>>
    BY <1>3 DEF Close, RecvFails, wireVars, sendVars
  <2>. QED
    BY <1>0, <2>1 DEF FullSafe, WireTypes, OneWrites, IsPacket, FullFrames, Writing, FullFrame,
                      Counted, Waiting, Numbered, Finished
<1>4. CASE Recv
  BY <1>0, <1>4, FullRecv
<1>. QED
  BY <1>1, <1>2, <1>3, <1>4 DEF WireNext

(***************************************************************************)
(* For every number of senders and every set of lengths: whatever Writes   *)
(* of the full codec fail, and after however many of their bytes, the      *)
(* other end reads only packets that were sent, whole, in order and with   *)
(* none left out in between; the frames are numbered as they are on the    *)
(* wire, without a gap as long as no Write has failed.                     *)
(***************************************************************************)
THEOREM ChecksumsHold == WireSpec => []ChecksumsProtect
<1>1. ASSUME FullSafe PROVE ChecksumsProtect
  <2> SUFFICES ASSUME codec = "full"
               PROVE  /\ Len(got) <= Len(whole)
                      /\ \A i \in DOMAIN got : got[i] = whole[i]
                      /\ \A i, j \in DOMAIN seqs : i < j => seqs[i] < seqs[j]
                      /\ ~torn => \A i \in DOMAIN seqs : seqs[i] = i - 1
    BY DEF ChecksumsProtect
  <2>1. FullFrames /\ Numbered /\ got \in Seq(Bytes) /\ seqs \in Seq(Nat)
    BY <1>1 DEF FullSafe, WireTypes, Numbered
  <2>2. DOMAIN got = 1 .. Len(got) /\ DOMAIN seqs = 1 .. Len(seqs)
    BY <2>1
  <2>. QED
    BY <2>1, <2>2 DEF FullFrames, Numbered
<1>. QED
  BY <1>1, FullStarts, FullStep, PTL DEF WireSpec

=============================================================================
