---------------------------- MODULE CodecProofs ----------------------------
(***************************************************************************)
(* Codec for any numbers, strings and vectors, in any base: what Encode    *)
(* wrote decodes to the value it was, and no proper beginning of it        *)
(* decodes.                                                                *)
(*                                                                         *)
(* The run of an encoder is a sequence of stacks of fields, each with the  *)
(* bytes and the values written so far (Run).  The decoder goes through    *)
(* the same stacks (DecodeInv).                                            *)
(***************************************************************************)
EXTENDS Codec, NumberLemmas, SequenceTheorems, TLAPS

Octets == Seq(Nat)

-----------------------------------------------------------------------------
(* Numbers                                                                 *)

LEMMA Constants ==
  /\ Radix \in Nat /\ Radix > 1 /\ ShortMax \in Nat /\ ShortMax + 1 < Radix
  /\ MaxCount \in Nat /\ CRCVector \in Nat /\ CRCVector < Power(4)
BY CodecAssumption, NumbersAssumption

\* Powers are positive.
LEMMA PowerIs ==
  ASSUME NEW i \in 0 .. 8
  PROVE  Power(i) \in Nat /\ Power(i) > 0
<1> DEFINE Bad == {j \in 0 .. 8 : ~(Power(j) \in Nat /\ Power(j) > 0)}
<1>1. SUFFICES ASSUME Bad # {} PROVE FALSE
  BY <1>1
<1>2. PICK k \in Bad : \A y \in Bad : k <= y
  <2>1. Bad \in SUBSET Nat
    OBVIOUS
  <2>. QED
    BY <1>1, <2>1, LeastNumber
<1>3. CASE k = 0
  BY <1>3, PowerAssumption
<1>4. CASE k # 0
  <2>1. PICK j \in 0 .. 7 : k = j + 1 /\ j \in 0 .. 8 /\ ~(k <= j)
    <3>1. k - 1 \in 0 .. 7 /\ k = (k - 1) + 1 /\ k - 1 \in 0 .. 8 /\ ~(k <= k - 1)
      BY <1>4
    <3>. QED
      BY <3>1
  <2>2. PICK P \in Nat : P = Power(j) /\ P > 0
    BY <1>2, <2>1
  <2>3. Power(k) = Radix * P
    BY <2>1, <2>2, PowerAssumption
  <2>4. Radix * P \in Nat /\ Radix * P > 0
    BY <2>2, Constants
  <2>. QED
    BY <1>2, <2>3, <2>4
<1>. QED
  BY <1>3, <1>4

\* A number is written in as many bytes as asked for.
LEMMA PutFixedIs ==
  ASSUME NEW n \in Nat, NEW w \in 0 .. 8
  PROVE  /\ PutFixed(n, w) \in Octets /\ Len(PutFixed(n, w)) = w
         /\ \A k \in 1 .. w : PutFixed(n, w)[k] = (n \div Power(k - 1)) % Radix
<1>1. ASSUME NEW k \in 1 .. w PROVE (n \div Power(k - 1)) % Radix \in Nat
  <2>1. PICK P \in Nat : P = Power(k - 1) /\ P > 0
    <3>1. k - 1 \in 0 .. 8
      OBVIOUS
    <3>. QED
      BY <3>1, PowerIs
  <2>2. PICK q \in Nat : q = n \div P
    BY <2>1, Quotient
  <2>3. q % Radix \in Nat
    BY Constants
  <2>. QED
    BY <2>1, <2>2, <2>3
<1>. QED
  BY <1>1 DEF PutFixed, Octets

\* What stands in the buffer from pos on, as far as it reaches.
Agrees(bs, at, b) == \A k \in 1 .. Len(b) : at + k <= Len(bs) => bs[at + k] = b[k]

\* A number that is all there is the sum of its bytes, each with its weight.
LEMMA NumberAdds ==
  ASSUME buf \in Octets, pos \in Nat, NEW skip \in Nat, NEW w \in 0 .. 8, pos + skip + w <= Len(buf)
  PROVE  \E c \in [0 .. w -> Nat] :
           /\ Number(skip, w) = c[w] /\ c[0] = 0
           /\ \A i \in 1 .. w : c[i] = c[i - 1] + buf[pos + skip + i] * Power(i - 1)
<1> DEFINE G == [k \in 1 .. w |-> buf[pos + skip + k] * Power(k - 1)]
           H(s) == [k \in 0 .. w |-> IF k = 0 THEN 0
                                     ELSE s[k - 1] + buf[pos + skip + k] * Power(k - 1)]
           c == CHOOSE s : s = H(s)
<1>0. w \in Nat
  OBVIOUS
<1>1. G \in [1 .. w -> Nat]
  <2> SUFFICES ASSUME NEW k \in 1 .. w PROVE buf[pos + skip + k] * Power(k - 1) \in Nat
    OBVIOUS
  <2>1. buf[pos + skip + k] \in Nat
    <3>1. pos + skip + k \in 1 .. Len(buf)
      BY DEF Octets
    <3>. QED
      BY <3>1 DEF Octets
  <2>2. PICK d \in Nat, W \in Nat : d = buf[pos + skip + k] /\ W = Power(k - 1)
    <3>1. k - 1 \in 0 .. 8
      OBVIOUS
    <3>. QED
      BY <2>1, <3>1, PowerIs
  <2>. QED
    BY <2>2
<1>2. PICK f \in [0 .. w -> Nat] : f[0] = 0 /\ \A i \in 1 .. w : f[i] = f[i - 1] + G[i]
  <2> HIDE DEF G
  <2>. QED
    BY <1>0, <1>1, SumExists
<1>3. f = H(f)
  <2> SUFFICES ASSUME NEW i \in 0 .. w
               PROVE  f[i] = IF i = 0 THEN 0 ELSE f[i - 1] + buf[pos + skip + i] * Power(i - 1)
    OBVIOUS
  <2>1. i # 0 => i \in 1 .. w
    OBVIOUS
  <2>. QED
    BY <1>2, <2>1
<1>4. c = H(c)
  BY <1>3
<1>5. Number(skip, w) = c[w]
  BY DEF Number
<1> HIDE DEF c
<1>6. IsSum(c, G, w)
  <2>1. \A i \in 0 .. w : i # 0 => i \in 1 .. w
    OBVIOUS
  <2>. QED
    BY <1>4, <2>1 DEF IsSum
<1>7. c \in [0 .. w -> Nat] /\ c[0] = 0 /\ \A i \in 1 .. w : c[i] = c[i - 1] + G[i]
  <2> HIDE DEF G
  <2>. QED
    BY <1>0, <1>1, <1>6, SumIsRecursive
<1>8. \A i \in 1 .. w : c[i] = c[i - 1] + buf[pos + skip + i] * Power(i - 1)
  BY <1>7
<1>. QED
  BY <1>5, <1>7, <1>8

\* It is read as it was written.
LEMMA NumberIs ==
  ASSUME buf \in Octets, pos \in Nat, NEW skip \in Nat, NEW w \in 0 .. 8, NEW n \in Nat,
         n < Power(w), pos + skip + w <= Len(buf), Agrees(buf, pos + skip, PutFixed(n, w))
  PROVE  Number(skip, w) = n
<1> DEFINE P == [i \in 0 .. w |-> Power(i)]
<1>0. w \in Nat
  OBVIOUS
<1>1. P \in [0 .. w -> Nat] /\ P[0] = 1 /\ P[w] = Power(w) /\ \A k \in 1 .. w : P[k - 1] = Power(k - 1)
  <2>1. \A i \in 0 .. w : Power(i) \in Nat
    <3> TAKE i \in 0 .. w
    <3>1. i \in 0 .. 8
      OBVIOUS
    <3>. QED
      BY <3>1, PowerIs
  <2>2. \A k \in 1 .. w : k - 1 \in 0 .. w
    OBVIOUS
  <2>3. 0 \in 0 .. w /\ w \in 0 .. w
    OBVIOUS
  <2>. QED
    BY <2>1, <2>2, <2>3, PowerAssumption
<1>2. \A i \in 1 .. w : P[i] = Radix * P[i - 1] /\ P[i - 1] > 0
  <2> TAKE i \in 1 .. w
  <2>1. PICK j \in 0 .. 7 : j = i - 1 /\ i = j + 1 /\ j \in 0 .. 8 /\ i \in 0 .. w
    <3>1. i - 1 \in 0 .. 7 /\ i = (i - 1) + 1 /\ i - 1 \in 0 .. 8 /\ i \in 0 .. w
      OBVIOUS
    <3>. QED
      BY <3>1
  <2>2. P[i - 1] = Power(j) /\ P[i] = Power(j + 1)
    BY <1>1, <2>1
  <2>. QED
    BY <2>1, <2>2, PowerIs, PowerAssumption
<1>3. \A k \in 1 .. w : buf[pos + skip + k] = (n \div Power(k - 1)) % Radix
  <2> TAKE k \in 1 .. w
  <2>1. pos + skip + k <= Len(buf)
    BY DEF Octets
  <2>2. k \in 1 .. Len(PutFixed(n, w))
    BY PutFixedIs
  <2>3. buf[pos + skip + k] = PutFixed(n, w)[k]
    BY <2>1, <2>2 DEF Agrees
  <2>. QED
    BY <2>3, PutFixedIs
<1>4. PICK c \in [0 .. w -> Nat] :
        /\ Number(skip, w) = c[w] /\ c[0] = 0
        /\ \A i \in 1 .. w : c[i] = c[i - 1] + buf[pos + skip + i] * Power(i - 1)
  BY NumberAdds
<1>5. \A i \in 1 .. w : c[i] = c[i - 1] + ((n \div P[i - 1]) % Radix) * P[i - 1]
  BY <1>1, <1>3, <1>4
<1>6. n < P[w] /\ Radix \in Nat /\ Radix > 0
  BY <1>1, Constants
<1> HIDE DEF P
<1>7. c[w] = n
  <2>1. P \in [0 .. w -> Nat] /\ P[0] = 1 /\ c[0] = 0
    BY <1>1, <1>4
  <2>2. IsDigitSum(Radix, w, P, n, c)
    BY <1>0, <1>2, <1>5, <1>6, <2>1, Zenon DEF IsDigitSum
  <2>. QED
    BY <2>2, DigitSum, Zenon
<1>. QED
  BY <1>4, <1>7

LEMMA Joined ==
  ASSUME NEW a \in Octets, NEW b \in Octets
  PROVE  a \o b \in Octets /\ Len(a \o b) = Len(a) + Len(b) /\ Len(a) \in Nat /\ Len(b) \in Nat
BY DEF Octets

LEMMA FirstIn ==
  ASSUME NEW a \in Octets, NEW b \in Octets, Len(a) >= 1
  PROVE  (a \o b)[1] = a[1]
BY DEF Octets

\* What agrees with a text agrees with its parts.
LEMMA PartsAgree ==
  ASSUME NEW bs \in Octets, NEW at \in Nat, NEW a \in Octets, NEW b \in Octets, Agrees(bs, at, a \o b)
  PROVE  Agrees(bs, at, a) /\ Agrees(bs, at + Len(a), b)
<1>1. /\ Len(a) \in Nat /\ Len(b) \in Nat /\ Len(bs) \in Nat /\ Len(a \o b) = Len(a) + Len(b)
      /\ \A k \in 1 .. Len(a) : (a \o b)[k] = a[k]
      /\ \A k \in 1 .. Len(b) : (a \o b)[Len(a) + k] = b[k]
  BY DEF Octets
<1>2. Agrees(bs, at, a)
  <2> SUFFICES ASSUME NEW k \in 1 .. Len(a), at + k <= Len(bs) PROVE bs[at + k] = a[k]
    BY DEF Agrees
  <2>1. k \in 1 .. Len(a \o b)
    BY <1>1
  <2>. QED
    BY <1>1, <2>1 DEF Agrees
<1>3. Agrees(bs, at + Len(a), b)
  <2> SUFFICES ASSUME NEW k \in 1 .. Len(b), (at + Len(a)) + k <= Len(bs)
               PROVE  bs[(at + Len(a)) + k] = b[k]
    BY DEF Agrees
  <2>1. PICK j \in 1 .. Len(a \o b) : j = Len(a) + k /\ at + j = (at + Len(a)) + k
    <3>1. Len(a) + k \in 1 .. Len(a \o b) /\ at + (Len(a) + k) = (at + Len(a)) + k
      BY <1>1
    <3>. QED
      BY <3>1
  <2>2. bs[at + j] = (a \o b)[j]
    BY <2>1 DEF Agrees
  <2>. QED
    BY <1>1, <2>1, <2>2
<1>. QED
  BY <1>2, <1>3

\* All of a text that is there can be cut out.
LEMMA Cutting ==
  ASSUME NEW bs \in Octets, NEW at \in Nat, NEW b \in Octets, Agrees(bs, at, b), at + Len(b) <= Len(bs)
  PROVE  SubSeq(bs, at + 1, at + Len(b)) = b
<1>1. PICK n \in Nat, m \in Nat : n = Len(b) /\ m = Len(bs)
  BY DEF Octets
<1>2. /\ SubSeq(bs, at + 1, at + n) \in Octets /\ Len(SubSeq(bs, at + 1, at + n)) = n
      /\ \A k \in 1 .. n : SubSeq(bs, at + 1, at + n)[k] = bs[at + k]
  <2>2. \A i \in at + 1 .. at + n : bs[i] \in Nat
    BY <1>1 DEF Octets
  <2>3. at + 1 \in Int /\ at + n \in Int
    BY <1>1
  <2>4. /\ SubSeq(bs, at + 1, at + n) \in Seq(Nat)
        /\ Len(SubSeq(bs, at + 1, at + n)) =
             IF at + 1 <= at + n THEN (at + n) - (at + 1) + 1 ELSE 0
        /\ \A i \in 1 .. (at + n) - (at + 1) + 1 : SubSeq(bs, at + 1, at + n)[i] = bs[at + 1 + i - 1]
    BY <2>2, <2>3, SubSeqProperties
  <2>5. (at + n) - (at + 1) + 1 = n /\ (at + 1 <= at + n <=> n # 0)
    BY <1>1
  <2>6. \A k \in 1 .. n : at + 1 + k - 1 = at + k
    BY <1>1
  <2>. QED
    BY <2>4, <2>5, <2>6 DEF Octets
<1>3. \A k \in 1 .. n : bs[at + k] = b[k]
  BY <1>1 DEF Agrees
<1>. QED
  BY <1>1, <1>2, <1>3, SeqEqual, Zenon DEF Octets

-----------------------------------------------------------------------------
(* Fields                                                                  *)

LEMMA FieldIs ==
  ASSUME NEW f \in Field
  PROVE  /\ f[1] \in {"fixed", "raw", "bytes", "vector", "type", "class"}
         /\ f[1] = "fixed" => f[2] \in DOMAIN Width /\ Width[f[2]] \in {4, 8}
         /\ f[1] = "raw" => f[2] \in DOMAIN Width /\ Width[f[2]] \in {16, 32}
         /\ f[1] = "bytes" => f[2] \in {"bytes", "string"}
         /\ f[1] = "vector" => f[2] = "long" \/ f[2] \in DOMAIN Types
         /\ f[1] = "type" => f[2] \in DOMAIN Types
         /\ f[1] = "class" => f[2] \in DOMAIN Classes
<1>1. CASE f \in {Int32, Long, Flags, Int128, Int256, Bytes, String}
  BY <1>1 DEF Int32, Long, Flags, Int128, Int256, Bytes, String, Width
<1>2. CASE \E t \in {"long"} \cup DOMAIN Types : f = VectorOf(t)
  BY <1>2 DEF VectorOf
<1>3. CASE \E c \in DOMAIN Classes : f = Class(c)
  BY <1>3 DEF Class
<1>4. CASE \E t \in DOMAIN Types : f = <<"type", t>>
  BY <1>4
<1>. QED
  BY <1>1, <1>2, <1>3, <1>4 DEF Field

LEMMA TypeIs ==
  ASSUME NEW t \in DOMAIN Types
  PROVE  /\ <<"type", t>> \in Field /\ Types[t].fields \in Seq(Field)
         /\ Types[t].id \in Nat /\ Types[t].id < Power(4)
BY SchemaAssumption, NumbersAssumption DEF Field

LEMMA ClassIs ==
  ASSUME NEW c \in DOMAIN Classes, NEW t \in Classes[c]
  PROVE  t \in DOMAIN Types
BY SchemaAssumption

\* The elements of a vector are fields.
LEMMA CopiesAre ==
  ASSUME NEW n \in Nat, NEW t, t = "long" \/ t \in DOMAIN Types
  PROVE  Copies(n, t) \in Seq(Field) /\ Len(Copies(n, t)) = n
<1>1. \A k \in 1 .. n : Copies(n, t)[k] \in Field
  <2>1. CASE t = "long"
    <3>1. t \in DOMAIN Width /\ <<"fixed", t>> \in Field
      BY <2>1 DEF Width, Field, Long
    <3>. QED
      BY <3>1 DEF Copies
  <2>2. CASE t \in DOMAIN Types
    <3>1. t \notin DOMAIN Width
      BY <2>2, SchemaAssumption
    <3>. QED
      BY <2>2, <3>1, TypeIs DEF Copies
  <2>. QED
    BY <2>1, <2>2
<1>. QED
  BY <1>1 DEF Copies


-----------------------------------------------------------------------------
(* What is written for a field                                             *)

Held ==
  [kind : DOMAIN Width \cup DOMAIN Types \cup {"bytes", "string", "vector"}, num : Nat, str : Octets]

\* For field f the encoder writes b, which holds w, and has the fields r to write next.
Writes(f, b, w, r) ==
  \/ /\ f[1] = "fixed"
     /\ \E n \in Nat : /\ n < Power(Width[f[2]])
                       /\ b = PutFixed(n, Width[f[2]]) /\ w = Num(f[2], n) /\ r = <<>>
  \/ /\ f[1] = "raw"
     /\ b = [k \in 1 .. Width[f[2]] |-> k % Radix] /\ w = Str(f[2], b) /\ r = <<>>
  \/ /\ f[1] = "bytes"
     /\ \E s \in Octets : b = PutBytes(s) /\ w = Str(f[2], s) /\ r = <<>>
  \/ /\ f[1] = "vector"
     /\ \E n \in 0 .. MaxCount : /\ b = PutFixed(CRCVector, 4) \o PutFixed(n, 4)
                                 /\ w = Num("vector", n) /\ r = Copies(n, f[2])
  \/ /\ f[1] = "type"
     /\ b = PutFixed(Types[f[2]].id, 4) /\ w = Str(f[2], <<>>) /\ r = Types[f[2]].fields

LEMMA PadIs ==
  ASSUME NEW n \in Nat
  PROVE  PadOf(n) \in Nat /\ (n > 0 => n + PadOf(n) >= 4)
BY DEF PadOf

LEMMA ZeroesAre ==
  ASSUME NEW n \in Nat
  PROVE  Zeroes(n) \in Octets /\ Len(Zeroes(n)) = n /\ \A k \in 1 .. n : Zeroes(n)[k] = 0
BY DEF Zeroes, Octets

\* A header, a string and its padding.
Framed(b, h, s, pad) ==
  /\ h \in Octets /\ s \in Octets /\ pad \in Nat
  /\ b = h \o s \o Zeroes(pad) /\ Len(b) = Len(h) + Len(s) + pad

LEMMA PutBytesIs ==
  ASSUME NEW s \in Octets
  PROVE  /\ PutBytes(s) \in Octets /\ Len(PutBytes(s)) >= 4
         /\ Len(s) <= ShortMax => Framed(PutBytes(s), <<Len(s)>>, s, PadOf(1 + Len(s)))
         /\ Len(s) > ShortMax =>
              Framed(PutBytes(s), <<ShortMax + 1>> \o PutFixed(Len(s), 3), s, PadOf(Len(s)))
<1>1. Len(s) \in Nat /\ ShortMax \in Nat
  BY Constants DEF Octets
<1>2. CASE Len(s) <= ShortMax
  <2>1. PICK pad \in Nat : pad = PadOf(1 + Len(s)) /\ 1 + Len(s) + pad >= 4
    <3>1. 1 + Len(s) \in Nat /\ 1 + Len(s) > 0
      BY <1>1
    <3>. QED
      BY <3>1, PadIs
  <2>2. PICK z \in Octets : z = Zeroes(pad) /\ Len(z) = pad
    BY ZeroesAre
  <2>3. PutBytes(s) = <<Len(s)>> \o s \o z
    BY <1>2, <2>1, <2>2 DEF PutBytes
  <2>4. <<Len(s)>> \in Octets /\ Len(<<Len(s)>>) = 1
    BY <1>1 DEF Octets
  <2>5. <<Len(s)>> \o s \o z \in Octets /\ Len(<<Len(s)>> \o s \o z) = 1 + Len(s) + pad
    BY <2>2, <2>4 DEF Octets
  <2>. QED
    BY <1>1, <1>2, <2>1, <2>2, <2>3, <2>4, <2>5 DEF Framed
<1>3. CASE Len(s) > ShortMax
  <2>1. PICK pad \in Nat : pad = PadOf(Len(s)) /\ Len(s) + pad >= 4
    <3>1. Len(s) > 0
      BY <1>1, <1>3
    <3>. QED
      BY <1>1, <3>1, PadIs
  <2>2. PICK z \in Octets : z = Zeroes(pad) /\ Len(z) = pad
    BY ZeroesAre
  <2>3. PICK w \in Octets : w = PutFixed(Len(s), 3) /\ Len(w) = 3
    <3>1. 3 \in 0 .. 8
      OBVIOUS
    <3>. QED
      BY <1>1, <3>1, PutFixedIs
  <2>4. PICK h \in Octets : h = <<ShortMax + 1>> \o w /\ Len(h) = 4
    <3>1. PICK o \in Octets : o = <<ShortMax + 1>> /\ Len(o) = 1
      <4>1. <<ShortMax + 1>> \in Octets /\ Len(<<ShortMax + 1>>) = 1
        BY <1>1 DEF Octets
      <4>. QED
        BY <4>1, Zenon
    <3>2. PICK h \in Octets : h = o \o w /\ Len(h) = Len(o) + Len(w)
      BY Joined, Zenon
    <3>3. Len(h) = 4
      <4>1. Len(o) = 1 /\ Len(w) = 3 /\ Len(h) = Len(o) + Len(w)
        BY <2>3, <3>1, <3>2, Zenon
      <4>. QED
        BY <4>1
    <3>. QED
      BY <3>1, <3>2, <3>3, Zenon
  <2>5. PutBytes(s) = h \o s \o z
    <3>1. ~(Len(s) <= ShortMax)
      BY <1>1, <1>3
    <3>2. PutBytes(s) = <<ShortMax + 1>> \o PutFixed(Len(s), 3) \o s \o Zeroes(PadOf(Len(s)))
      BY <3>1 DEF PutBytes
    <3>. QED
      BY <2>1, <2>2, <2>3, <2>4, <3>2
  <2>6. h \o s \o z \in Octets /\ Len(h \o s \o z) = 4 + Len(s) + pad
    <3>1. h \o s \in Octets /\ Len(h \o s) = 4 + Len(s)
      BY <2>4, Joined
    <3>. QED
      BY <2>2, <3>1, Joined
  <2>. QED
    BY <1>1, <1>3, <2>1, <2>2, <2>3, <2>4, <2>5, <2>6 DEF Framed
<1>. QED
  BY <1>1, <1>2, <1>3

\* Every field takes four bytes or more.
LEMMA WritesIs ==
  ASSUME NEW f \in Field, NEW b, NEW w, NEW r, Writes(f, b, w, r)
  PROVE  b \in Octets /\ Len(b) >= 4 /\ w \in Held /\ r \in Seq(Field)
<1>0. 4 \in 0 .. 8 /\ 8 \in 0 .. 8 /\ <<>> \in Octets /\ <<>> \in Seq(Field)
  BY DEF Octets
<1>1. CASE f[1] = "fixed"
  <2>1. PICK n \in Nat : b = PutFixed(n, Width[f[2]]) /\ w = Num(f[2], n) /\ r = <<>>
    BY <1>1 DEF Writes
  <2>2. Width[f[2]] \in 0 .. 8 /\ Width[f[2]] >= 4 /\ f[2] \in DOMAIN Width
    BY <1>1, FieldIs
  <2>3. b \in Octets /\ Len(b) = Width[f[2]]
    BY <2>1, <2>2, PutFixedIs
  <2>4. w \in Held
    BY <1>0, <2>1, <2>2 DEF Num, Held
  <2>. QED
    BY <1>0, <2>1, <2>2, <2>3, <2>4
<1>2. CASE f[1] = "raw"
  <2>1. PICK v \in Nat : v = Width[f[2]] /\ v >= 4 /\ f[2] \in DOMAIN Width
    BY <1>2, FieldIs
  <2>2. b = [k \in 1 .. v |-> k % Radix] /\ w = Str(f[2], b) /\ r = <<>>
    BY <1>2, <2>1 DEF Writes
  <2>3. \A k \in 1 .. v : k % Radix \in Nat
    BY Constants
  <2>4. b \in Octets /\ Len(b) = v
    BY <2>2, <2>3 DEF Octets
  <2>5. w \in Held
    BY <2>1, <2>2, <2>4 DEF Str, Held
  <2>. QED
    BY <1>0, <2>1, <2>2, <2>4, <2>5
<1>3. CASE f[1] = "bytes"
  <2>1. PICK s \in Octets : b = PutBytes(s) /\ w = Str(f[2], s) /\ r = <<>>
    BY <1>3 DEF Writes
  <2>2. w \in Held
    BY <1>3, <2>1, FieldIs DEF Str, Held
  <2>. QED
    BY <1>0, <2>1, <2>2, PutBytesIs
<1>4. CASE f[1] = "vector"
  <2>1. PICK n \in 0 .. MaxCount : /\ b = PutFixed(CRCVector, 4) \o PutFixed(n, 4)
                                   /\ w = Num("vector", n) /\ r = Copies(n, f[2])
    BY <1>4 DEF Writes
  <2>2. n \in Nat
    BY Constants
  <2>3. PICK x \in Octets, y \in Octets : b = x \o y /\ Len(x) = 4 /\ Len(y) = 4
    <3>1. PutFixed(CRCVector, 4) \in Octets /\ Len(PutFixed(CRCVector, 4)) = 4
      BY <1>0, PutFixedIs, Constants
    <3>2. PutFixed(n, 4) \in Octets /\ Len(PutFixed(n, 4)) = 4
      BY <1>0, <2>2, PutFixedIs
    <3>. QED
      BY <2>1, <3>1, <3>2, Zenon
  <2>4. b \in Octets /\ Len(b) = 8
    <3>1. x \o y \in Octets /\ Len(x \o y) = Len(x) + Len(y)
      BY Joined, Zenon
    <3>. QED
      BY <2>3, <3>1
  <2>5. w \in Held
    BY <1>0, <2>1, <2>2 DEF Num, Held
  <2>6. r \in Seq(Field)
    BY <1>4, <2>1, <2>2, FieldIs, CopiesAre
  <2>. QED
    BY <2>4, <2>5, <2>6
<1>5. CASE f[1] = "type"
  <2>1. b = PutFixed(Types[f[2]].id, 4) /\ w = Str(f[2], <<>>) /\ r = Types[f[2]].fields
    BY <1>5 DEF Writes
  <2>2. f[2] \in DOMAIN Types
    BY <1>5, FieldIs
  <2>3. b \in Octets /\ Len(b) = 4
    BY <1>0, <2>1, <2>2, TypeIs, PutFixedIs
  <2>4. w \in Held
    BY <1>0, <2>1, <2>2 DEF Str, Held
  <2>. QED
    <3>1. r \in Seq(Field)
      BY <2>1, <2>2, TypeIs
    <3>. QED
      BY <2>3, <2>4, <3>1
<1>. QED
  BY <1>1, <1>2, <1>3, <1>4, <1>5 DEF Writes


-----------------------------------------------------------------------------
(* What is read where b stands, the end of the buffer aside                *)

\* Either all of b is there and is read, or the buffer is too short for b and what is to follow.
Follows(b, w, r) ==
  \/ Fail /\ Len(buf) < pos + Len(b) + 4 * Len(r)
  \/ Advance(Len(b), w, r) /\ pos + Len(b) <= Len(buf)

\* The decoder stands before b, of which as much is there as the buffer holds.
Before(b) == buf \in Octets /\ pos \in Nat /\ pos <= Len(buf) /\ Agrees(buf, pos, b)

LEMMA FixedFollows ==
  ASSUME DecodeFixed, NEW f \in Field, f = Head(todo), NEW b, NEW w, NEW r,
         Writes(f, b, w, r), Before(b)
  PROVE  Follows(b, w, r)
<1>1. f[1] = "fixed"
  BY DEF DecodeFixed, Reads
<1>2. PICK v \in 0 .. 8 : v = Width[f[2]]
  BY <1>1, FieldIs
<1>3. PICK n \in Nat : n < Power(v) /\ b = PutFixed(n, v) /\ w = Num(f[2], n) /\ r = <<>>
  BY <1>1, <1>2 DEF Writes
<1>4. Len(b) = v /\ Len(buf) \in Nat /\ pos \in Nat /\ Len(r) = 0
  <2>1. Len(b) = v
    BY <1>3, PutFixedIs
  <2>. QED
    BY <1>3, <2>1 DEF Before, Octets
<1>5. IF Remaining < v THEN Fail ELSE Advance(v, Num(f[2], Number(0, v)), <<>>)
  BY <1>2 DEF DecodeFixed
<1>6. CASE Len(buf) - pos < v
  <2>1. Fail
    BY <1>5, <1>6 DEF Remaining
  <2>2. Len(buf) < pos + Len(b) + 4 * Len(r)
    BY <1>4, <1>6
  <2>. QED
    BY <2>1, <2>2 DEF Follows
<1>7. CASE ~(Len(buf) - pos < v)
  <2>1. Advance(v, Num(f[2], Number(0, v)), <<>>)
    BY <1>5, <1>7 DEF Remaining
  <2>2. pos + 0 + v <= Len(buf) /\ pos + v <= Len(buf) /\ pos + 0 = pos
    BY <1>4, <1>7
  <2>3. Number(0, v) = n
    BY <1>3, <2>2, NumberIs DEF Before
  <2>. QED
    BY <1>3, <1>4, <2>1, <2>2, <2>3 DEF Follows
<1>. QED
  BY <1>6, <1>7

LEMMA RawFollows ==
  ASSUME DecodeRaw, NEW f \in Field, f = Head(todo), NEW b, NEW w, NEW r,
         Writes(f, b, w, r), Before(b)
  PROVE  Follows(b, w, r)
<1>1. f[1] = "raw"
  BY DEF DecodeRaw, Reads
<1>2. PICK v \in Nat : v = Width[f[2]]
  BY <1>1, FieldIs
<1>3. b = [k \in 1 .. v |-> k % Radix] /\ w = Str(f[2], b) /\ r = <<>>
  BY <1>1, <1>2 DEF Writes
<1>4. Len(b) = v /\ Len(buf) \in Nat /\ pos \in Nat /\ Len(r) = 0
  BY <1>3 DEF Before, Octets
<1>5. IF Remaining < v THEN Fail ELSE Advance(v, Str(f[2], SubSeq(buf, pos + 1, pos + v)), <<>>)
  BY <1>2 DEF DecodeRaw
<1>6. CASE Len(buf) - pos < v
  <2>1. Fail
    BY <1>5, <1>6 DEF Remaining
  <2>2. Len(buf) < pos + Len(b) + 4 * Len(r)
    BY <1>4, <1>6
  <2>. QED
    BY <2>1, <2>2 DEF Follows
<1>7. CASE ~(Len(buf) - pos < v)
  <2>1. Advance(v, Str(f[2], SubSeq(buf, pos + 1, pos + v)), <<>>)
    BY <1>5, <1>7 DEF Remaining
  <2>2. pos + v <= Len(buf)
    BY <1>4, <1>7
  <2>3. SubSeq(buf, pos + 1, pos + v) = b
    <3>1. b \in Octets
      BY WritesIs
    <3>. QED
      BY <1>4, <2>2, <3>1, Cutting DEF Before
  <2>. QED
    BY <1>3, <1>4, <2>1, <2>2, <2>3 DEF Follows
<1>. QED
  BY <1>6, <1>7


LEMMA FramedFollows ==
  ASSUME NEW b, NEW h, NEW s, NEW pad, Framed(b, h, s, pad), Before(b),
         ReadBytes(Len(h), Len(s), pad)
  PROVE  Follows(b, Str(Head(todo)[2], s), <<>>)
<1>1. /\ h \in Octets /\ s \in Octets /\ pad \in Nat /\ Zeroes(pad) \in Octets /\ h \o s \in Octets
      /\ Len(h \o s) = Len(h) + Len(s) /\ Len(Zeroes(pad)) = pad
      /\ b = h \o s \o Zeroes(pad)
  BY ZeroesAre, Joined DEF Framed
<1>2. PICK l \in Nat, n \in Nat, m \in Nat : l = Len(h) /\ n = Len(s) /\ m = Len(buf)
  BY <1>1 DEF Octets, Before
<1>3. Len(b) = l + n + pad /\ pos \in Nat
  BY <1>2 DEF Framed, Before
<1>4. IF m - pos < l + n + pad \/ \E k \in 1 .. pad : buf[(pos + l) + n + k] # 0 THEN Fail
      ELSE Advance(l + n + pad,
                   Str(Head(todo)[2], SubSeq(buf, (pos + l) + 1, (pos + l) + n)), <<>>)
  BY <1>2 DEF ReadBytes, Remaining
<1>5. CASE m - pos < l + n + pad
  <2>1. m < pos + (l + n + pad) + 4 * 0
    BY <1>3, <1>5
  <2>2. Len(<<>>) = 0
    OBVIOUS
  <2>. QED
    BY <1>2, <1>3, <1>4, <1>5, <2>1, <2>2 DEF Follows
<1>6. CASE ~(m - pos < l + n + pad)
  <2>1. /\ Agrees(buf, pos, h \o s) /\ Agrees(buf, pos + (l + n), Zeroes(pad))
        /\ Agrees(buf, pos + l, s)
    <3>1. buf \in Octets /\ Agrees(buf, pos, (h \o s) \o Zeroes(pad))
      BY <1>1 DEF Before
    <3>2. Agrees(buf, pos, h \o s) /\ Agrees(buf, pos + Len(h \o s), Zeroes(pad))
      BY <1>1, <1>3, <3>1, PartsAgree
    <3>3. Agrees(buf, pos + Len(h), s)
      BY <1>1, <1>3, <3>1, <3>2, PartsAgree
    <3>. QED
      BY <1>1, <1>2, <3>2, <3>3
  <2>2. \A k \in 1 .. pad : buf[(pos + l) + n + k] = 0
    <3> TAKE k \in 1 .. pad
    <3>1. (pos + l) + n + k = pos + (l + n) + k /\ pos + (l + n) + k <= m /\ k \in 1 .. Len(Zeroes(pad))
      BY <1>1, <1>3, <1>6
    <3>2. buf[pos + (l + n) + k] = Zeroes(pad)[k]
      BY <1>2, <2>1, <3>1 DEF Agrees
    <3>. QED
      BY <1>1, <3>1, <3>2, ZeroesAre, Zenon
  <2>3. SubSeq(buf, (pos + l) + 1, (pos + l) + n) = s
    <3>1. pos + l \in Nat /\ (pos + l) + n <= m
      BY <1>1, <1>3, <1>6
    <3>2. buf \in Octets
      BY DEF Before
    <3>. QED
      BY <1>1, <1>2, <2>1, <3>1, <3>2, Cutting
  <2>4. Advance(l + n + pad, Str(Head(todo)[2], s), <<>>)
    BY <1>4, <1>6, <2>2, <2>3
  <2>5. pos + (l + n + pad) <= m
    BY <1>3, <1>6
  <2>. QED
    BY <1>2, <1>3, <2>4, <2>5 DEF Follows
<1>. QED
  BY <1>5, <1>6

LEMMA BytesFollow ==
  ASSUME DecodeBytes, NEW f \in Field, f = Head(todo), NEW b, NEW w, NEW r,
         Writes(f, b, w, r), Before(b), Len(w.str) < Power(3)
  PROVE  Follows(b, w, r)
<1>1. f[1] = "bytes"
  BY DEF DecodeBytes, Reads
<1>2. PICK s \in Octets : b = PutBytes(s) /\ w = Str(f[2], s) /\ r = <<>>
  BY <1>1 DEF Writes
<1>3. PICK n \in Nat : n = Len(s) /\ n < Power(3)
  BY <1>2 DEF Octets, Str
<1>4. b \in Octets /\ Len(b) >= 4 /\ Len(b) \in Nat /\ Len(r) = 0
  <2>1. b \in Octets /\ Len(b) >= 4
    BY <1>2, PutBytesIs
  <2>. QED
    BY <1>2, <2>1 DEF Octets
<1>5. Len(buf) \in Nat /\ pos \in Nat /\ Len(buf) >= pos /\ buf \in Octets /\ ShortMax \in Nat
  BY Constants DEF Before, Octets
<1>6. ASSUME Fail, Len(buf) - pos < 4 PROVE Follows(b, w, r)
  <2>1. Len(buf) < pos + Len(b) + 4 * Len(r)
    BY <1>4, <1>5, <1>6
  <2>. QED
    BY <1>6, <2>1 DEF Follows
<1>7. CASE Len(buf) - pos < 1
  <2>1. Fail
    BY <1>7 DEF DecodeBytes, Remaining
  <2>2. Len(buf) - pos < 4
    BY <1>5, <1>7
  <2>. QED
    BY <1>6, <2>1, <2>2
<1>8. CASE ~(Len(buf) - pos < 1)
  <2>1. IF buf[pos + 1] <= ShortMax
        THEN ReadBytes(1, buf[pos + 1], PadOf(1 + buf[pos + 1]))
        ELSE IF Len(buf) - pos < 4 THEN Fail ELSE ReadBytes(4, Number(1, 3), PadOf(Number(1, 3)))
    BY <1>8 DEF DecodeBytes, Remaining
  <2>2. buf[pos + 1] = b[1]
    <3>1. 1 \in 1 .. Len(b) /\ pos + 1 <= Len(buf)
      BY <1>4, <1>5, <1>8
    <3>. QED
      BY <3>1 DEF Before, Agrees
  <2>3. CASE n <= ShortMax
    <3>1. Framed(b, <<n>>, s, PadOf(1 + n))
      BY <1>2, <1>3, <2>3, PutBytesIs
    <3>2. b[1] = n /\ Len(<<n>>) = 1
      <4>1. PICK z \in Octets : z = Zeroes(PadOf(1 + n))
        BY <3>1, ZeroesAre DEF Framed
      <4>2. b = <<n>> \o s \o z
        BY <3>1, <4>1 DEF Framed
      <4>3. PICK o \in Octets : o = <<n>> /\ Len(o) = 1 /\ o[1] = n
        <5>1. <<n>> \in Octets /\ Len(<<n>>) = 1 /\ <<n>>[1] = n
          BY DEF Octets
        <5>. QED
          BY <5>1, Zenon
      <4>4. o \o s \in Octets /\ Len(o \o s) >= 1 /\ (o \o s)[1] = n
        BY <4>3, FirstIn, Joined
      <4>5. b[1] = n
        BY <4>2, <4>3, <4>4, FirstIn
      <4>. QED
        BY <4>3, <4>5
    <3>3. ReadBytes(Len(<<n>>), Len(s), PadOf(1 + n))
      BY <1>3, <2>1, <2>2, <2>3, <3>2
    <3>. QED
      BY <1>2, <3>1, <3>3, FramedFollows
  <2>4. CASE n > ShortMax
    <3>1. PICK d \in Octets : d = PutFixed(n, 3) /\ Len(d) = 3
      <4>1. 3 \in 0 .. 8
        OBVIOUS
      <4>. QED
        BY <4>1, PutFixedIs
    <3>2. PICK o \in Octets : o = <<ShortMax + 1>> /\ Len(o) = 1 /\ o[1] = ShortMax + 1
      <4>1. <<ShortMax + 1>> \in Octets /\ Len(<<ShortMax + 1>>) = 1 /\ <<ShortMax + 1>>[1] = ShortMax + 1
        BY <1>5 DEF Octets
      <4>. QED
        BY <4>1, Zenon
    <3>3. Framed(b, o \o d, s, PadOf(n))
      BY <1>2, <1>3, <2>4, <3>1, <3>2, PutBytesIs
    <3>4. PICK z \in Octets, h \in Octets : z = Zeroes(PadOf(n)) /\ h = o \o d /\ b = (h \o s) \o z
      BY <3>3, ZeroesAre DEF Framed
    <3>5. Len(h) = 4 /\ h[1] = ShortMax + 1
      <4>1. Len(h) = Len(o) + Len(d)
        BY <3>4, Joined
      <4>2. h[1] = o[1]
        BY <3>2, <3>4, FirstIn
      <4>. QED
        BY <3>1, <3>2, <4>1, <4>2
    <3>6. b[1] = ShortMax + 1
      <4>1. h \o s \in Octets /\ Len(h \o s) >= 1 /\ (h \o s)[1] = h[1] /\ Len(h) >= 1
        <5>1. Len(h) >= 1
          BY <3>5
        <5>2. h \o s \in Octets /\ Len(h \o s) = Len(h) + Len(s) /\ Len(s) \in Nat
          BY Joined, Zenon
        <5>3. (h \o s)[1] = h[1]
          BY <5>1, FirstIn, Zenon
        <5>4. Len(h \o s) >= 1
          BY <3>5, <5>2
        <5>. QED
          BY <5>1, <5>2, <5>3, <5>4
      <4>2. b[1] = (h \o s)[1]
        BY <3>4, <4>1, FirstIn
      <4>. QED
        BY <3>5, <4>1, <4>2
    <3>7. IF Len(buf) - pos < 4 THEN Fail ELSE ReadBytes(4, Number(1, 3), PadOf(Number(1, 3)))
      <4>1. ~(buf[pos + 1] <= ShortMax)
        BY <1>5, <2>2, <3>6
      <4>. QED
        BY <2>1, <4>1
    <3>8. CASE Len(buf) - pos < 4
      BY <1>6, <3>7, <3>8
    <3>9. CASE ~(Len(buf) - pos < 4)
      <4>1. Agrees(buf, pos, (h \o s) \o z) /\ h \o s \in Octets
        BY <3>4, Joined DEF Before
      <4>2. Agrees(buf, pos, h \o s)
        BY <1>5, <4>1, PartsAgree
      <4>3. Agrees(buf, pos, h)
        BY <1>5, <4>2, PartsAgree
      <4>4. Agrees(buf, pos + 1, d)
        BY <1>5, <3>2, <3>4, <4>3, PartsAgree
      <4>5. Number(1, 3) = n
        <5>1. pos + 1 + 3 <= Len(buf) /\ 3 \in 0 .. 8 /\ 1 \in Nat
          BY <1>5, <3>9
        <5>. QED
          BY <1>3, <1>5, <3>1, <4>4, <5>1, NumberIs
      <4>6. ReadBytes(Len(h), Len(s), PadOf(n))
        BY <1>3, <3>5, <3>7, <3>9, <4>5
      <4>. QED
        BY <1>2, <3>3, <3>4, <4>6, FramedFollows
    <3>. QED
      BY <3>8, <3>9
  <2>. QED
    BY <1>5, <2>3, <2>4
<1>. QED
  BY <1>7, <1>8


\* A quarter of the bytes.
LEMMA Quarter ==
  ASSUME NEW a \in Nat, NEW n \in Nat
  PROVE  n <= a \div 4 <=> 4 * n <= a
<1>1. PICK q \in Nat, r \in 0 .. 3 : q = a \div 4 /\ a = 4 * q + r
  OBVIOUS
<1>. QED
  BY <1>1

LEMMA VectorFollows ==
  ASSUME DecodeVector, NEW f \in Field, f = Head(todo), NEW b, NEW w, NEW r,
         Writes(f, b, w, r), Before(b)
  PROVE  Follows(b, w, r)
<1>1. f[1] = "vector"
  BY DEF DecodeVector, Reads
<1>2. PICK n \in 0 .. MaxCount : /\ b = PutFixed(CRCVector, 4) \o PutFixed(n, 4)
                                 /\ w = Num("vector", n) /\ r = Copies(n, f[2])
  BY <1>1 DEF Writes
<1>3. n \in Nat /\ n < Power(4) \div 2 /\ n < Power(4) /\ 4 \in 0 .. 8
  <2>1. PICK P \in Nat : P = Power(4)
    BY PowerIs
  <2>2. n \in Nat /\ n < P \div 2
    BY <2>1, NumbersAssumption
  <2>. QED
    BY <2>1, <2>2
<1>4. PICK x \in Octets, y \in Octets : /\ x = PutFixed(CRCVector, 4) /\ Len(x) = 4
                                        /\ y = PutFixed(n, 4) /\ Len(y) = 4
  BY <1>3, PutFixedIs, Constants
<1>5. b = x \o y /\ Len(b) = 8
  <2>1. Len(x \o y) = Len(x) + Len(y)
    BY Joined, Zenon
  <2>2. b = x \o y
    BY <1>2, <1>4, Zenon
  <2>3. Len(x) = 4 /\ Len(y) = 4 /\ Len(b) = Len(x) + Len(y)
    BY <1>4, <2>1, <2>2, Zenon
  <2>. QED
    BY <2>2, <2>3
<1>6. Len(r) = n
  BY <1>1, <1>2, <1>3, FieldIs, CopiesAre
<1>7. PICK m \in Nat : m = Len(buf) /\ pos \in Nat /\ m >= pos /\ buf \in Octets
  BY DEF Before, Octets
<1>8. IF m - pos < 8 THEN Fail
      ELSE IF Number(0, 4) # CRCVector \/ ~CountFits(Number(4, 4), (m - pos) - 8) THEN Fail
      ELSE Advance(8, Num("vector", Number(4, 4)), Copies(Number(4, 4), f[2]))
  BY <1>7 DEF DecodeVector, Remaining
<1>9. CASE m - pos < 8
  <2>1. m < pos + 8 + 4 * n
    BY <1>3, <1>7, <1>9
  <2>. QED
    BY <1>5, <1>6, <1>7, <1>8, <1>9, <2>1 DEF Follows
<1>10. CASE ~(m - pos < 8)
  <2>1. Agrees(buf, pos, x) /\ Agrees(buf, pos + 4, y)
    BY <1>4, <1>5, <1>7, PartsAgree DEF Before
  <2>2. pos + 0 = pos /\ pos + 0 + 4 <= m /\ pos + 4 + 4 <= m /\ 0 \in Nat /\ 4 \in Nat
    BY <1>7, <1>10
  <2>3. Number(0, 4) = CRCVector
    BY <1>3, <1>4, <1>7, <2>1, <2>2, Constants, NumberIs
  <2>4. Number(4, 4) = n
    BY <1>3, <1>4, <1>7, <2>1, <2>2, NumberIs
  <2>5. CASE n <= ((m - pos) - 8) \div 4
    <3>1. CountFits(n, (m - pos) - 8)
      BY <1>3, <2>5 DEF CountFits
    <3>2. Advance(8, Num("vector", n), Copies(n, f[2])) /\ pos + 8 <= m
      BY <1>7, <1>8, <1>10, <2>3, <2>4, <3>1
    <3>. QED
      BY <1>2, <1>5, <1>7, <3>2 DEF Follows
  <2>6. CASE ~(n <= ((m - pos) - 8) \div 4)
    <3>1. Fail
      BY <1>8, <1>10, <2>4, <2>6 DEF CountFits
    <3>2. (m - pos) - 8 \in Nat
      BY <1>7, <1>10
    <3>3. ~(4 * n <= (m - pos) - 8)
      BY <1>3, <2>6, <3>2, Quarter
    <3>4. m < pos + 8 + 4 * n
      BY <1>3, <1>7, <3>3
    <3>. QED
      BY <1>5, <1>6, <1>7, <3>1, <3>4 DEF Follows
  <2>. QED
    BY <2>5, <2>6
<1>. QED
  BY <1>9, <1>10

LEMMA TypeFollows ==
  ASSUME DecodeType, NEW f \in Field, f = Head(todo), NEW b, NEW w, NEW r,
         Writes(f, b, w, r), Before(b)
  PROVE  Follows(b, w, r)
<1>1. f[1] = "type" /\ f[2] \in DOMAIN Types
  BY FieldIs DEF DecodeType, Reads
<1>2. PICK n \in Nat : n = Types[f[2]].id /\ n < Power(4)
  BY <1>1, TypeIs
<1>3. b = PutFixed(n, 4) /\ w = Str(f[2], <<>>) /\ r = Types[f[2]].fields
  BY <1>1, <1>2 DEF Writes
<1>4. Len(b) = 4 /\ 4 \in 0 .. 8
  BY <1>3, PutFixedIs
<1>5. PICK l \in Nat : l = Len(r)
  <2>1. r \in Seq(Field)
    BY <1>1, <1>3, TypeIs
  <2>. QED
    BY <2>1
<1>6. PICK m \in Nat : m = Len(buf) /\ pos \in Nat /\ m >= pos /\ buf \in Octets
  BY DEF Before, Octets
<1>7. IF m - pos < 4 THEN Fail
      ELSE IF Number(0, 4) # n THEN Fail ELSE Advance(4, Str(f[2], <<>>), r)
  BY <1>2, <1>3, <1>6 DEF DecodeType, Remaining
<1>8. CASE m - pos < 4
  <2>1. m < pos + 4 + 4 * l
    BY <1>6, <1>8
  <2>. QED
    BY <1>4, <1>5, <1>6, <1>7, <1>8, <2>1 DEF Follows
<1>9. CASE ~(m - pos < 4)
  <2>1. pos + 0 = pos /\ pos + 0 + 4 <= m /\ pos + 4 <= m /\ 0 \in Nat
    BY <1>6, <1>9
  <2>2. Number(0, 4) = n
    BY <1>2, <1>3, <1>4, <1>6, <2>1, NumberIs DEF Before
  <2>3. Advance(4, Str(f[2], <<>>), r)
    BY <1>7, <1>9, <2>2
  <2>. QED
    BY <1>3, <1>4, <1>6, <2>1, <2>3 DEF Follows
<1>. QED
  BY <1>8, <1>9


-----------------------------------------------------------------------------
(* The run of the encoder                                                  *)

\* From the stack s, l bytes and c values to the stack s2, l2 bytes and c2 values of fb and val.
Link(s, l, c, s2, l2, c2, fb, val) ==
  /\ s # <<>>
  /\ \/ /\ Head(s)[1] = "class" /\ l2 = l /\ c2 = c
        /\ \E t \in Classes[Head(s)[2]] : s2 = <<<<"type", t>>>> \o Tail(s)
     \/ \E b, w, r :
          /\ Writes(Head(s), b, w, r) /\ s2 = r \o Tail(s)
          /\ l2 = l + Len(b) /\ l2 <= Len(fb) /\ \A k \in 1 .. Len(b) : fb[l + k] = b[k]
          /\ c2 = c + 1 /\ c2 <= Len(val) /\ val[c2] = w

\* The n steps by which fb and val come of the field f.
Run(n, st, p, q, f, fb, val) ==
  /\ st \in [0 .. n -> Seq(Field)] /\ p \in [0 .. n -> Nat] /\ q \in [0 .. n -> Nat]
  /\ st[0] = <<f>> /\ p[0] = 0 /\ q[0] = 0
  /\ p[n] = Len(fb) /\ q[n] = Len(val)
  /\ \A i \in 1 .. n : Link(st[i - 1], p[i - 1], q[i - 1], st[i], p[i], q[i], fb, val)

\* The bytes and four for each field to come never get less.
LEMMA LinkGrows ==
  ASSUME NEW s \in Seq(Field), NEW l \in Nat, NEW c \in Nat, NEW s2 \in Seq(Field), NEW l2 \in Nat,
         NEW c2 \in Nat, NEW fb \in Octets, NEW val, Link(s, l, c, s2, l2, c2, fb, val)
  PROVE  l + 4 * Len(s) <= l2 + 4 * Len(s2)
<1>1. PICK n \in Nat : Len(s) = n + 1 /\ Len(Tail(s)) = n /\ Tail(s) \in Seq(Field) /\ Head(s) \in Field
  <2>1. s # <<>>
    BY DEF Link
  <2>2. Head(s) \in Field /\ Tail(s) \in Seq(Field) /\ Len(Tail(s)) = Len(s) - 1 /\ Len(s) \in Nat
    BY <2>1, HeadTailProperties
  <2>3. Len(s) # 0
    BY <2>1
  <2>4. Len(s) - 1 \in Nat /\ Len(s) = (Len(s) - 1) + 1
    BY <2>2, <2>3
  <2>. QED
    BY <2>2, <2>4, Zenon
<1>2. CASE l2 = l /\ \E t \in Classes[Head(s)[2]] : s2 = <<<<"type", t>>>> \o Tail(s)
  <2>1. PICK t : s2 = <<<<"type", t>>>> \o Tail(s)
    BY <1>2
  <2>2. Len(s2) = 1 + n
    BY <1>1, <2>1
  <2>. QED
    BY <1>1, <1>2, <2>2
<1>3. CASE \E b, w, r : Writes(Head(s), b, w, r) /\ s2 = r \o Tail(s) /\ l2 = l + Len(b)
  <2>1. PICK b, w, r : Writes(Head(s), b, w, r) /\ s2 = r \o Tail(s) /\ l2 = l + Len(b)
    BY <1>3
  <2>2. b \in Octets /\ Len(b) >= 4 /\ r \in Seq(Field)
    BY <1>1, <2>1, WritesIs
  <2>3. PICK j \in Nat, k \in Nat : j = Len(b) /\ k = Len(r)
    BY <2>2 DEF Octets
  <2>4. Len(s2) = k + n
    <3>1. Len(r \o Tail(s)) = Len(r) + Len(Tail(s))
      BY <1>1, <2>2, ConcatProperties
    <3>. QED
      BY <1>1, <2>1, <2>3, <3>1
  <2>. QED
    BY <1>1, <2>1, <2>2, <2>3, <2>4
<1>. QED
  BY <1>2, <1>3 DEF Link

\* There is room in the end for the fields to come.
LEMMA RunFits ==
  ASSUME NEW n \in Nat, NEW st, NEW p, NEW q, NEW f, NEW fb \in Octets, NEW val,
         Run(n, st, p, q, f, fb, val), st[n] = <<>>, NEW i \in 0 .. n
  PROVE  p[i] + 4 * Len(st[i]) <= Len(fb)
<1> DEFINE Bad == {j \in 0 .. n : ~(p[n - j] + 4 * Len(st[n - j]) <= Len(fb))}
<1>1. SUFFICES Bad = {}
  <2>1. n - i \in 0 .. n /\ n - (n - i) = i
    OBVIOUS
  <2>. QED
    BY <1>1, <2>1
<1>2. SUFFICES ASSUME Bad # {} PROVE FALSE
  BY <1>2
<1>3. PICK k \in Bad : \A y \in Bad : k <= y
  <2>1. Bad \in SUBSET Nat
    OBVIOUS
  <2>. QED
    BY <1>2, <2>1, LeastNumber
<1>4. CASE k = 0
  <2>1. n - k = n /\ p[n] = Len(fb) /\ Len(st[n]) = 0 /\ Len(fb) \in Nat
    BY <1>4 DEF Run, Octets
  <2>2. p[n - k] + 4 * Len(st[n - k]) <= Len(fb)
    BY <2>1
  <2>. QED
    BY <1>3, <2>2
<1>5. CASE k # 0
  <2>1. PICK j \in 1 .. n, m \in 0 .. n : j = n - (k - 1) /\ m = n - k /\ m = j - 1 /\ j \in 0 .. n /\ k - 1 \in 0 .. n
    <3>1. /\ n - (k - 1) \in 1 .. n /\ n - k \in 0 .. n /\ n - k = (n - (k - 1)) - 1
          /\ n - (k - 1) \in 0 .. n /\ k - 1 \in 0 .. n
      BY <1>5
    <3>. QED
      BY <3>1
  <2>2. p[j] + 4 * Len(st[j]) <= Len(fb)
    <3>1. ~(k <= k - 1)
      OBVIOUS
    <3>. QED
      BY <1>3, <2>1, <3>1
  <2>3. /\ st[m] \in Seq(Field) /\ p[m] \in Nat /\ q[m] \in Nat
        /\ st[j] \in Seq(Field) /\ p[j] \in Nat /\ q[j] \in Nat
        /\ Link(st[m], p[m], q[m], st[j], p[j], q[j], fb, val)
    BY <2>1 DEF Run
  <2>4. p[m] + 4 * Len(st[m]) <= p[j] + 4 * Len(st[j])
    BY <2>3, LinkGrows
  <2>5. PICK a \in Nat, b \in Nat, c \in Nat, d \in Nat, e \in Nat :
           a = p[m] /\ b = Len(st[m]) /\ c = p[j] /\ d = Len(st[j]) /\ e = Len(fb)
    <3>1. Len(st[m]) \in Nat /\ Len(st[j]) \in Nat /\ Len(fb) \in Nat
      BY <2>3 DEF Octets
    <3>. QED
      BY <2>3, <3>1, Zenon
  <2>6. p[m] + 4 * Len(st[m]) <= Len(fb)
    <3>1. a + 4 * b <= c + 4 * d /\ c + 4 * d <= e
      BY <2>2, <2>4, <2>5
    <3>2. a + 4 * b <= e
      BY <3>1
    <3>. QED
      BY <2>5, <3>2
  <2>. QED
    BY <1>3, <2>1, <2>6
<1>. QED
  BY <1>4, <1>5


Begins(a, b) == Len(a) <= Len(b) /\ \A k \in 1 .. Len(a) : b[k] = a[k]

\* What was written stays when more is.
LEMMA LinkStays ==
  ASSUME NEW s \in Seq(Field), NEW l \in Nat, NEW c \in Nat, NEW s2, NEW l2 \in Nat, NEW c2 \in Nat,
         NEW fb \in Octets, NEW val \in Seq(Held), Link(s, l, c, s2, l2, c2, fb, val),
         NEW fb2 \in Octets, NEW val2 \in Seq(Held), Begins(fb, fb2), Begins(val, val2)
  PROVE  Link(s, l, c, s2, l2, c2, fb2, val2)
<1>1. CASE /\ Head(s)[1] = "class" /\ l2 = l /\ c2 = c
           /\ \E t \in Classes[Head(s)[2]] : s2 = <<<<"type", t>>>> \o Tail(s)
  BY <1>1 DEF Link
<1>2. CASE \E b, w, r :
             /\ Writes(Head(s), b, w, r) /\ s2 = r \o Tail(s)
             /\ l2 = l + Len(b) /\ l2 <= Len(fb) /\ \A k \in 1 .. Len(b) : fb[l + k] = b[k]
             /\ c2 = c + 1 /\ c2 <= Len(val) /\ val[c2] = w
  <2>1. PICK b, w, r :
             /\ Writes(Head(s), b, w, r) /\ s2 = r \o Tail(s)
             /\ l2 = l + Len(b) /\ l2 <= Len(fb) /\ \A k \in 1 .. Len(b) : fb[l + k] = b[k]
             /\ c2 = c + 1 /\ c2 <= Len(val) /\ val[c2] = w
    BY <1>2
  <2>2. s # <<>> /\ Head(s) \in Field
    BY HeadTailProperties DEF Link
  <2>3. b \in Octets /\ Len(b) \in Nat
    BY <2>1, <2>2, WritesIs DEF Octets
  <2>4. Len(fb) \in Nat /\ Len(fb2) \in Nat /\ Len(val) \in Nat /\ Len(val2) \in Nat
    BY DEF Octets
  <2>5. l2 <= Len(fb2) /\ c2 <= Len(val2)
    BY <2>1, <2>4 DEF Begins
  <2>6. \A k \in 1 .. Len(b) : fb2[l + k] = b[k]
    <3> TAKE k \in 1 .. Len(b)
    <3>1. l + k \in 1 .. Len(fb)
      BY <2>1, <2>3, <2>4
    <3>. QED
      BY <2>1, <3>1 DEF Begins
  <2>7. val2[c2] = w
    <3>1. c2 \in 1 .. Len(val)
      BY <2>1, <2>4
    <3>. QED
      BY <2>1, <3>1 DEF Begins
  <2>. QED
    BY <2>1, <2>2, <2>5, <2>6, <2>7 DEF Link
<1>. QED
  BY <1>1, <1>2 DEF Link

\* Of the field f come fb and val, and the fields of s are to be encoded yet.
Encoded(f, fb, val, s) ==
  \E n \in Nat : \E st, p, q : Run(n, st, p, q, f, fb, val) /\ st[n] = s

LEMMA EncodedMore ==
  ASSUME NEW f, NEW fb \in Octets, NEW val \in Seq(Held), NEW s, Encoded(f, fb, val, s),
         NEW fb2 \in Octets, NEW val2 \in Seq(Held), NEW s2 \in Seq(Field),
         Begins(fb, fb2), Begins(val, val2),
         Link(s, Len(fb), Len(val), s2, Len(fb2), Len(val2), fb2, val2)
  PROVE  Encoded(f, fb2, val2, s2)
<1>1. PICK n \in Nat : \E st, p, q : Run(n, st, p, q, f, fb, val) /\ st[n] = s
  BY DEF Encoded
<1>2. PICK st, p, q : Run(n, st, p, q, f, fb, val) /\ st[n] = s
  BY <1>1
<1> DEFINE st2 == [i \in 0 .. n + 1 |-> IF i = n + 1 THEN s2 ELSE st[i]]
           p2 == [i \in 0 .. n + 1 |-> IF i = n + 1 THEN Len(fb2) ELSE p[i]]
           q2 == [i \in 0 .. n + 1 |-> IF i = n + 1 THEN Len(val2) ELSE q[i]]
<1>3. Len(fb2) \in Nat /\ Len(val2) \in Nat
  BY DEF Octets
<1>4. /\ st2[n + 1] = s2 /\ p2[n + 1] = Len(fb2) /\ q2[n + 1] = Len(val2)
      /\ \A i \in 0 .. n : st2[i] = st[i] /\ p2[i] = p[i] /\ q2[i] = q[i]
  OBVIOUS
<1>5. /\ st \in [0 .. n -> Seq(Field)] /\ p \in [0 .. n -> Nat] /\ q \in [0 .. n -> Nat]
      /\ st[0] = <<f>> /\ p[0] = 0 /\ q[0] = 0
      /\ p[n] = Len(fb) /\ q[n] = Len(val) /\ st[n] = s
      /\ \A i \in 1 .. n : Link(st[i - 1], p[i - 1], q[i - 1], st[i], p[i], q[i], fb, val)
  BY <1>2 DEF Run
<1>6. /\ st2 \in [0 .. n + 1 -> Seq(Field)] /\ p2 \in [0 .. n + 1 -> Nat]
      /\ q2 \in [0 .. n + 1 -> Nat]
  <2>1. \A i \in 0 .. n + 1 : i # n + 1 => i \in 0 .. n
    OBVIOUS
  <2>. QED
    BY <1>3, <1>5, <2>1
<1> HIDE DEF st2, p2, q2
<1>7. ASSUME NEW i \in 1 .. n + 1
      PROVE  Link(st2[i - 1], p2[i - 1], q2[i - 1], st2[i], p2[i], q2[i], fb2, val2)
  <2>1. CASE i = n + 1
    <3>1. i - 1 = n /\ n \in 0 .. n
      BY <2>1
    <3>. QED
      BY <1>4, <1>5, <2>1, <3>1
  <2>2. CASE i # n + 1
    <3>1. PICK j \in 0 .. n : j = i - 1 /\ i \in 1 .. n /\ i \in 0 .. n
      <4>1. i - 1 \in 0 .. n /\ i \in 1 .. n /\ i \in 0 .. n
        BY <2>2
      <4>. QED
        BY <4>1
    <3>2. Link(st[j], p[j], q[j], st[i], p[i], q[i], fb, val)
      BY <1>5, <3>1
    <3>3. st[j] \in Seq(Field) /\ p[j] \in Nat /\ q[j] \in Nat /\ p[i] \in Nat /\ q[i] \in Nat
      BY <1>5, <3>1
    <3>4. Link(st[j], p[j], q[j], st[i], p[i], q[i], fb2, val2)
      BY <3>2, <3>3, LinkStays
    <3>. QED
      BY <1>4, <3>1, <3>4
  <2>. QED
    BY <2>1, <2>2
<1>8. n + 1 \in Nat /\ 0 \in 0 .. n
  OBVIOUS
<1>9. Run(n + 1, st2, p2, q2, f, fb2, val2) /\ st2[n + 1] = s2
  BY <1>4, <1>5, <1>6, <1>7, <1>8 DEF Run
<1>. QED
  BY <1>8, <1>9 DEF Encoded


-----------------------------------------------------------------------------
(* Encoding                                                                *)

EncodeInv ==
  /\ buf \in Octets /\ value \in Seq(Held) /\ root \in Field
  /\ phase = "encode" =>
       /\ fault = "none" /\ pos = 0 /\ got = <<>> /\ todo \in Seq(Field)
       /\ Encoded(root, buf, value, todo)

LEMMA EncodeInit == Init => EncodeInv
<1> SUFFICES ASSUME Init PROVE EncodeInv
  OBVIOUS
<1>1. /\ root \in Field /\ buf = <<>> /\ value = <<>> /\ todo = <<root>>
      /\ fault = "none" /\ pos = 0 /\ got = <<>>
  BY CodecAssumption DEF Init
<1>2. buf \in Octets /\ value \in Seq(Held) /\ todo \in Seq(Field) /\ Len(buf) = 0 /\ Len(value) = 0
  BY <1>1 DEF Octets
<1> DEFINE st == [i \in 0 .. 0 |-> todo]
           p == [i \in 0 .. 0 |-> 0]
<1>3. Run(0, st, p, p, root, buf, value) /\ st[0] = todo
  BY <1>1, <1>2 DEF Run
<1>4. Encoded(root, buf, value, todo)
  <2> HIDE DEF st, p
  <2>1. 0 \in Nat
    OBVIOUS
  <2>. QED
    BY <1>3, <2>1 DEF Encoded
<1>. QED
  BY <1>1, <1>2, <1>4 DEF EncodeInv

\* What is appended leaves what was there.
LEMMA BeginsJoined ==
  ASSUME NEW S, NEW a \in Seq(S), NEW b \in Seq(S)
  PROVE  /\ a \o b \in Seq(S) /\ Begins(a, a \o b) /\ Len(a \o b) = Len(a) + Len(b)
         /\ \A k \in 1 .. Len(b) : (a \o b)[Len(a) + k] = b[k]
<1>1. Len(a) \in Nat /\ Len(b) \in Nat
  OBVIOUS
<1>2. Len(a \o b) = Len(a) + Len(b)
  BY ConcatProperties
<1>3. Begins(a, a \o b)
  <2>1. \A k \in 1 .. Len(a) : (a \o b)[k] = a[k]
    OBVIOUS
  <2>. QED
    BY <1>1, <1>2, <2>1 DEF Begins
<1>4. \A k \in 1 .. Len(b) : (a \o b)[Len(a) + k] = b[k]
  OBVIOUS
<1>. QED
  BY <1>2, <1>3, <1>4

LEMMA EncodePut ==
  ASSUME EncodeInv, phase = "encode", todo # <<>>, NEW b, NEW w, NEW r,
         Writes(Head(todo), b, w, r), Put(b, w, r)
  PROVE  EncodeInv'
<1>1. /\ buf \in Octets /\ value \in Seq(Held) /\ root \in Field /\ todo \in Seq(Field)
      /\ fault = "none" /\ pos = 0 /\ got = <<>> /\ Encoded(root, buf, value, todo)
  BY DEF EncodeInv
<1>2. Head(todo) \in Field /\ Tail(todo) \in Seq(Field)
  BY <1>1, HeadTailProperties
<1>3. b \in Octets /\ w \in Held /\ r \in Seq(Field)
  BY <1>2, WritesIs
<1>4. /\ buf' = buf \o b /\ value' = value \o <<w>> /\ todo' = r \o Tail(todo)
      /\ UNCHANGED <<root, phase, fault, pos, got>>
  BY <1>1, <1>3 DEF Put
<1>5. /\ buf \o b \in Octets /\ Begins(buf, buf \o b) /\ Len(buf \o b) = Len(buf) + Len(b)
      /\ \A k \in 1 .. Len(b) : (buf \o b)[Len(buf) + k] = b[k]
  BY <1>1, <1>3, BeginsJoined DEF Octets
<1>6. /\ value \o <<w>> \in Seq(Held) /\ Begins(value, value \o <<w>>)
      /\ Len(value \o <<w>>) = Len(value) + 1 /\ (value \o <<w>>)[Len(value) + 1] = w
  <2>1. <<w>> \in Seq(Held) /\ Len(<<w>>) = 1 /\ <<w>>[1] = w /\ 1 \in 1 .. 1
    BY <1>3
  <2>2. PICK o \in Seq(Held) : o = <<w>> /\ Len(o) = 1 /\ o[1] = w
    BY <2>1, Zenon
  <2>3. /\ value \o o \in Seq(Held) /\ Begins(value, value \o o)
        /\ Len(value \o o) = Len(value) + Len(o)
        /\ \A k \in 1 .. Len(o) : (value \o o)[Len(value) + k] = o[k]
    BY <1>1, BeginsJoined, Zenon
  <2>. QED
    BY <2>1, <2>2, <2>3, Zenon
<1>7. r \o Tail(todo) \in Seq(Field)
  BY <1>2, <1>3, ConcatProperties
<1>8. PICK fb \in Octets, val \in Seq(Held), s \in Seq(Field) :
         fb = buf \o b /\ val = value \o <<w>> /\ s = r \o Tail(todo)
  BY <1>5, <1>6, <1>7
<1>9. Link(todo, Len(buf), Len(value), s, Len(fb), Len(val), fb, val)
  <2>1. Len(fb) \in Nat /\ Len(val) \in Nat
    BY <1>8 DEF Octets
  <2>2. Len(fb) <= Len(fb) /\ Len(val) <= Len(val)
    BY <2>1
  <2>3. /\ Len(fb) = Len(buf) + Len(b) /\ Len(val) = Len(value) + 1 /\ val[Len(val)] = w
        /\ \A k \in 1 .. Len(b) : fb[Len(buf) + k] = b[k]
    BY <1>5, <1>6, <1>8, Zenon
  <2>. QED
    BY <1>8, <2>2, <2>3, Zenon DEF Link
<1>10. Encoded(root, fb, val, s)
  BY <1>1, <1>5, <1>6, <1>8, <1>9, EncodedMore
<1>. QED
  BY <1>1, <1>4, <1>8, <1>10 DEF EncodeInv

LEMMA EncodeStep ==
  ASSUME EncodeInv, Encode
  PROVE  EncodeInv'
<1>1. phase = "encode" /\ todo # <<>>
  BY DEF Encode, EncodeFixed, EncodeRaw, EncodeBytes, EncodeVector, EncodeType, EncodeClass
<1>2. todo \in Seq(Field) /\ Head(todo) \in Field
  BY <1>1, HeadTailProperties DEF EncodeInv
<1> DEFINE f == Head(todo)
<1>3. CASE EncodeFixed
  <2>1. PICK n \in IF f[2] = "flags" THEN 0 .. 3 ELSE Nums :
           n < Power(Width[f[2]]) /\ Put(PutFixed(n, Width[f[2]]), Num(f[2], n), <<>>)
    BY <1>3 DEF EncodeFixed
  <2>2. n \in Nat
    BY CodecAssumption
  <2>3. Writes(f, PutFixed(n, Width[f[2]]), Num(f[2], n), <<>>)
    BY <1>3, <2>1, <2>2 DEF EncodeFixed, Writes
  <2>. QED
    BY <1>1, <2>1, <2>3, EncodePut
<1>4. CASE EncodeRaw
  <2> DEFINE s == [k \in 1 .. Width[f[2]] |-> k % Radix]
  <2>1. Put(s, Str(f[2], s), <<>>) /\ Writes(f, s, Str(f[2], s), <<>>)
    BY <1>4 DEF EncodeRaw, Writes
  <2> HIDE DEF s
  <2>. QED
    BY <1>1, <2>1, EncodePut
<1>5. CASE EncodeBytes
  <2>1. PICK n \in ByteLens :
           LET s == [k \in 1 .. n |-> 1] IN Put(PutBytes(s), Str(f[2], s), <<>>)
    BY <1>5 DEF EncodeBytes
  <2>2. PICK s \in Octets : s = [k \in 1 .. n |-> 1]
    <3>1. n \in Nat
      BY CodecAssumption
    <3>2. [k \in 1 .. n |-> 1] \in Octets
      BY <3>1 DEF Octets
    <3>. QED
      BY <3>2
  <2>3. Put(PutBytes(s), Str(f[2], s), <<>>)
    BY <2>1, <2>2
  <2>4. Writes(f, PutBytes(s), Str(f[2], s), <<>>)
    BY <1>5 DEF EncodeBytes, Writes
  <2>. QED
    BY <1>1, <2>3, <2>4, EncodePut
<1>6. CASE EncodeVector
  <2>1. PICK n \in 0 .. MaxCount :
           Put(PutFixed(CRCVector, 4) \o PutFixed(n, 4), Num("vector", n), Copies(n, f[2]))
    BY <1>6 DEF EncodeVector
  <2>2. Writes(f, PutFixed(CRCVector, 4) \o PutFixed(n, 4), Num("vector", n), Copies(n, f[2]))
    BY <1>6 DEF EncodeVector, Writes
  <2>. QED
    BY <1>1, <2>1, <2>2, EncodePut
<1>7. CASE EncodeType
  <2>1. /\ Put(PutFixed(Types[f[2]].id, 4), Str(f[2], <<>>), Types[f[2]].fields)
        /\ Writes(f, PutFixed(Types[f[2]].id, 4), Str(f[2], <<>>), Types[f[2]].fields)
    BY <1>7 DEF EncodeType, Writes
  <2>. QED
    BY <1>1, <2>1, EncodePut
<1>8. CASE EncodeClass
  <2>1. PICK t \in Classes[f[2]] : todo' = <<<<"type", t>>>> \o Tail(todo)
    BY <1>8 DEF EncodeClass
  <2>2. f[1] = "class" /\ UNCHANGED <<root, phase, value, buf, fault, pos, got>>
    BY <1>8 DEF EncodeClass
  <2>3. <<"type", t>> \in Field
    BY <1>2, <2>2, FieldIs, ClassIs, TypeIs
  <2>4. PICK s \in Seq(Field) : s = <<<<"type", t>>>> \o Tail(todo)
    <3>1. <<<<"type", t>>>> \in Seq(Field) /\ Tail(todo) \in Seq(Field)
      BY <1>1, <1>2, <2>3, HeadTailProperties
    <3>2. <<<<"type", t>>>> \o Tail(todo) \in Seq(Field)
      BY <3>1, ConcatProperties
    <3>. QED
      BY <3>2
  <2>5. Link(todo, Len(buf), Len(value), s, Len(buf), Len(value), buf, value)
    BY <1>1, <2>2, <2>4, Zenon DEF Link
  <2>6. buf \in Octets /\ value \in Seq(Held) /\ Begins(buf, buf) /\ Begins(value, value)
    BY DEF EncodeInv, Octets, Begins
  <2>7. Encoded(root, buf, value, s)
    BY <1>1, <2>5, <2>6, EncodedMore DEF EncodeInv
  <2>. QED
    BY <1>1, <2>1, <2>2, <2>4, <2>7 DEF EncodeInv
<1>. QED
  BY <1>3, <1>4, <1>5, <1>6, <1>7, <1>8 DEF Encode


-----------------------------------------------------------------------------
(* Decoding                                                                *)

\* The buffer is all of fb or, when it was cut, a proper beginning.
Handed(fb) == Begins(buf, fb) /\ (fault = "none" => Len(buf) = Len(fb)) /\ (fault = "cut" => Len(buf) < Len(fb))

\* The decoder has come as far as the encoder was after i steps.
Reached(i, st, p, q) ==
  /\ todo = st[i] /\ pos = p[i] /\ pos <= Len(buf)
  /\ got \in Seq(Held) /\ Len(got) = q[i] /\ \A k \in 1 .. Len(got) : got[k] = value[k]

\* The run of the encoder that the decoder is at, or failed at.
Followed(n, st, p, q, fb) ==
  /\ Run(n, st, p, q, root, fb, value) /\ st[n] = <<>> /\ Handed(fb)
  /\ phase # "error" => \E i \in 0 .. n : Reached(i, st, p, q)

DecodeInv ==
  /\ phase \in {"encode", "decode", "ok", "error"} /\ fault \in {"none", "cut", "changed"}
  /\ phase = "ok" => todo = <<>>
  /\ phase # "encode" /\ Sized /\ fault # "changed" =>
       /\ phase = "error" => fault # "none"
       /\ \E fb \in Octets, n \in Nat : \E st, p, q : Followed(n, st, p, q, fb)

LEMMA HandStep ==
  ASSUME EncodeInv, NEW bytes \in Octets, NEW how, Hand(bytes, how),
         how \in {"none", "cut", "changed"},
         how = "none" => bytes = buf,
         how = "cut" => Begins(bytes, buf) /\ Len(bytes) < Len(buf)
  PROVE  EncodeInv' /\ DecodeInv'
<1>1. /\ phase = "encode" /\ todo = <<>> /\ buf' = bytes /\ fault' = how /\ phase' = "decode"
      /\ todo' = <<root>> /\ UNCHANGED <<root, value, pos, got>>
  BY DEF Hand
<1>2. /\ buf \in Octets /\ value \in Seq(Held) /\ root \in Field /\ pos = 0 /\ got = <<>>
      /\ Encoded(root, buf, value, <<>>)
  BY <1>1 DEF EncodeInv
<1>3. EncodeInv'
  BY <1>1, <1>2 DEF EncodeInv
<1>4. ASSUME how # "changed"
      PROVE  \E fb \in Octets, n \in Nat : \E st, p, q : Followed(n, st, p, q, fb)'
  <2>1. PICK fb \in Octets, n \in Nat : fb = buf /\ \E st, p, q :
           Run(n, st, p, q, root, fb, value) /\ st[n] = <<>>
    BY <1>2 DEF Encoded
  <2>2. PICK st, p, q : Run(n, st, p, q, root, fb, value) /\ st[n] = <<>>
    BY <2>1
  <2>3. Run(n, st, p, q, root', fb, value') /\ st[n] = <<>>
    BY <1>1, <2>2
  <2>4. Begins(bytes, fb) /\ (how = "none" => Len(bytes) = Len(fb)) /\ (how = "cut" => Len(bytes) < Len(fb))
    <3>1. Begins(buf, buf)
      BY <1>2 DEF Begins, Octets
    <3>. QED
      BY <1>4, <2>1, <3>1
  <2>5. Handed(fb)'
    BY <1>1, <2>4 DEF Handed
  <2>6. Reached(0, st, p, q)'
    <3>1. st[0] = <<root>> /\ p[0] = 0 /\ q[0] = 0
      BY <2>2 DEF Run
    <3>2. got' = <<>> /\ Len(got') = 0 /\ got' \in Seq(Held)
      BY <1>1, <1>2
    <3>3. 0 <= Len(bytes)
      BY DEF Octets
    <3>4. \A k \in 1 .. Len(got') : got'[k] = value'[k]
      BY <3>2
    <3>. QED
      BY <1>1, <1>2, <3>1, <3>2, <3>3, <3>4 DEF Reached
  <2>7. 0 \in 0 .. n
    OBVIOUS
  <2>8. Followed(n, st, p, q, fb)'
    BY <2>3, <2>5, <2>6, <2>7 DEF Followed
  <2>. QED
    BY <2>8
<1>5. DecodeInv'
  BY <1>1, <1>4 DEF DecodeInv
<1>. QED
  BY <1>3, <1>5

LEMMA DeliverStep ==
  ASSUME EncodeInv, Deliver
  PROVE  EncodeInv' /\ DecodeInv'
<1>1. buf \in Octets /\ Len(buf) \in Nat
  BY DEF EncodeInv, Octets
<1>2. CASE Hand(buf, "none")
  BY <1>1, <1>2, HandStep
<1>3. CASE \E n \in 0 .. Len(buf) - 1 : Hand(SubSeq(buf, 1, n), "cut")
  <2>1. PICK n \in 0 .. Len(buf) - 1 : Hand(SubSeq(buf, 1, n), "cut")
    BY <1>3
  <2>2. PICK bs \in Octets : bs = SubSeq(buf, 1, n) /\ Len(bs) = n /\ \A k \in 1 .. n : bs[k] = buf[k]
    <3>1. 1 \in Int /\ n \in Int /\ \A k \in 1 .. n : buf[k] \in Nat
      BY <1>1 DEF Octets
    <3>2. /\ SubSeq(buf, 1, n) \in Octets /\ Len(SubSeq(buf, 1, n)) = IF 1 <= n THEN n - 1 + 1 ELSE 0
          /\ \A k \in 1 .. n - 1 + 1 : SubSeq(buf, 1, n)[k] = buf[1 + k - 1]
      BY <3>1, SubSeqProperties DEF Octets
    <3>3. n - 1 + 1 = n /\ (~(1 <= n) => n = 0) /\ \A k \in 1 .. n : 1 + k - 1 = k
      BY <1>1
    <3>4. Len(SubSeq(buf, 1, n)) = n /\ \A k \in 1 .. n : SubSeq(buf, 1, n)[k] = buf[k]
      BY <3>2, <3>3
    <3>. QED
      BY <3>2, <3>4, Zenon
  <2>3. Begins(bs, buf) /\ Len(bs) < Len(buf)
    BY <1>1, <2>2 DEF Begins
  <2>. QED
    BY <2>1, <2>2, <2>3, HandStep
<1>4. CASE \E k \in DOMAIN buf, b \in 0 .. Radix - 1 : Hand([buf EXCEPT ![k] = b], "changed")
  <2>1. PICK k \in DOMAIN buf, b \in 0 .. Radix - 1 : Hand([buf EXCEPT ![k] = b], "changed")
    BY <1>4
  <2>2. [buf EXCEPT ![k] = b] \in Octets
    BY <1>1, Constants DEF Octets
  <2>. QED
    BY <2>1, <2>2, HandStep
<1>. QED
  BY <1>2, <1>3, <1>4 DEF Deliver


\* The decoder reads where the encoder's step i + 1 wrote.
Reading(n, st, p, q, fb, i) ==
  /\ phase = "decode" /\ todo # <<>> /\ buf \in Octets /\ value \in Seq(Held)
  /\ n \in Nat /\ fb \in Octets /\ Run(n, st, p, q, root, fb, value) /\ st[n] = <<>>
  /\ Handed(fb) /\ i \in 0 .. n /\ Reached(i, st, p, q)

LEMMA ReadingIs ==
  ASSUME NEW n, NEW st, NEW p, NEW q, NEW fb, NEW i, Reading(n, st, p, q, fb, i)
  PROVE  /\ i + 1 \in 1 .. n /\ i + 1 \in 0 .. n
         /\ Link(todo, pos, Len(got), st[i + 1], p[i + 1], q[i + 1], fb, value)
         /\ todo \in Seq(Field) /\ pos \in Nat /\ Len(got) \in Nat
         /\ st[i + 1] \in Seq(Field) /\ p[i + 1] \in Nat /\ q[i + 1] \in Nat
         /\ p[i + 1] + 4 * Len(st[i + 1]) <= Len(fb)
         /\ Head(todo) \in Field /\ Tail(todo) \in Seq(Field)
<1>1. n \in Nat /\ i \in 0 .. n /\ st[n] = <<>> /\ st[i] # <<>> /\ todo # <<>>
  BY DEF Reading, Reached
<1>2. PICK j \in 1 .. n : j = i + 1 /\ j - 1 = i /\ j \in 0 .. n
  <2>1. i # n
    BY <1>1
  <2>2. i + 1 \in 1 .. n /\ (i + 1) - 1 = i /\ i + 1 \in 0 .. n
    BY <1>1, <2>1
  <2>. QED
    BY <2>2
<1>3. Run(n, st, p, q, root, fb, value) /\ fb \in Octets
  BY DEF Reading
<1>4. /\ st[i] \in Seq(Field) /\ p[i] \in Nat /\ q[i] \in Nat
      /\ st[j] \in Seq(Field) /\ p[j] \in Nat /\ q[j] \in Nat
      /\ Link(st[i], p[i], q[i], st[j], p[j], q[j], fb, value)
  BY <1>1, <1>2, <1>3 DEF Run
<1>5. p[j] + 4 * Len(st[j]) <= Len(fb)
  BY <1>1, <1>2, <1>3, RunFits
<1>6. todo = st[i] /\ pos = p[i] /\ Len(got) = q[i]
  BY DEF Reading, Reached
<1>7. Head(todo) \in Field /\ Tail(todo) \in Seq(Field)
  BY <1>1, <1>4, <1>6, HeadTailProperties
<1>. QED
  BY <1>2, <1>4, <1>5, <1>6, <1>7

\* What was written for the field in hand stands where the decoder is.
IsWritten(i, st, p, q) ==
  \E b, w, r : /\ Writes(Head(todo), b, w, r) /\ Before(b) /\ Len(w.str) < Power(3)
               /\ st[i + 1] = r \o Tail(todo) /\ p[i + 1] = pos + Len(b)
               /\ q[i + 1] = Len(got) + 1 /\ value[Len(got) + 1] = w

\* A field that is no class was written as it is.
LEMMA ReadingWritten ==
  ASSUME NEW n, NEW st, NEW p, NEW q, NEW fb, NEW i, Reading(n, st, p, q, fb, i), Sized,
         Head(todo)[1] # "class"
  PROVE  IsWritten(i, st, p, q)
<1>0. /\ Link(todo, pos, Len(got), st[i + 1], p[i + 1], q[i + 1], fb, value)
      /\ Head(todo) \in Field
  BY ReadingIs, Zenon
<1>1. PICK b, w, r :
        /\ Writes(Head(todo), b, w, r) /\ st[i + 1] = r \o Tail(todo)
        /\ p[i + 1] = pos + Len(b) /\ p[i + 1] <= Len(fb) /\ \A k \in 1 .. Len(b) : fb[pos + k] = b[k]
        /\ q[i + 1] = Len(got) + 1 /\ q[i + 1] <= Len(value) /\ value[q[i + 1]] = w
  BY <1>0 DEF Link
<1>2. /\ pos \in Nat /\ buf \in Octets /\ pos <= Len(buf) /\ Begins(buf, fb) /\ Len(buf) \in Nat
      /\ value \in Seq(Held) /\ Len(got) \in Nat
  <2>1. pos \in Nat /\ Len(got) \in Nat
    BY ReadingIs
  <2>. QED
    BY <2>1 DEF Reading, Reached, Handed, Octets
<1>3. b \in Octets /\ Len(b) \in Nat
  <2>1. b \in Octets
    BY <1>0, <1>1, WritesIs
  <2>. QED
    BY <2>1 DEF Octets
<1>4. Agrees(buf, pos, b)
  <2> SUFFICES ASSUME NEW k \in 1 .. Len(b), pos + k <= Len(buf) PROVE buf[pos + k] = b[k]
    BY DEF Agrees
  <2>1. pos + k \in 1 .. Len(buf)
    BY <1>2, <1>3
  <2>2. fb[pos + k] = buf[pos + k]
    BY <1>2, <2>1 DEF Begins
  <2>. QED
    BY <1>1, <2>2
<1>5. Len(w.str) < Power(3)
  <2>1. Len(got) + 1 \in DOMAIN value
    BY <1>1, <1>2
  <2>. QED
    BY <1>1, <2>1 DEF Sized
<1>6. Before(b)
  BY <1>2, <1>4 DEF Before
<1>. QED
  BY <1>1, <1>5, <1>6 DEF IsWritten

\* What follows is a step along the run, or the end of a buffer that was cut.
LEMMA FollowsRun ==
  ASSUME NEW n, NEW st, NEW p, NEW q, NEW fb, NEW i, Reading(n, st, p, q, fb, i),
         fault \in {"none", "cut"}, NEW b, NEW w, NEW r,
         Writes(Head(todo), b, w, r), Follows(b, w, r), st[i + 1] = r \o Tail(todo),
         p[i + 1] = pos + Len(b), q[i + 1] = Len(got) + 1, value[Len(got) + 1] = w
  PROVE  DecodeInv'
<1>0. /\ n \in Nat /\ fb \in Octets /\ Run(n, st, p, q, root, fb, value) /\ st[n] = <<>> /\ Handed(fb)
      /\ phase = "decode"
  BY DEF Reading
<1>1. b \in Octets /\ w \in Held /\ r \in Seq(Field)
  BY ReadingIs, WritesIs
<1>2. PICK l \in Nat, a \in Nat, z \in Nat, m \in Nat, e \in Nat :
        l = Len(b) /\ a = Len(r) /\ z = Len(Tail(todo)) /\ m = Len(buf) /\ e = Len(fb)
  <2>1. Len(b) \in Nat /\ Len(r) \in Nat /\ Len(Tail(todo)) \in Nat /\ Len(buf) \in Nat /\ Len(fb) \in Nat
    BY <1>0, <1>1, ReadingIs DEF Reading, Octets
  <2>. QED
    BY <2>1, Zenon
<1>3. CASE Fail /\ Len(buf) < pos + Len(b) + 4 * Len(r)
  <2>1. phase' = "error" /\ UNCHANGED <<root, todo, value, buf, fault, pos, got>>
    BY <1>3 DEF Fail
  <2>2. Len(st[i + 1]) = a + z
    <3>1. Len(r \o Tail(todo)) = Len(r) + Len(Tail(todo))
      BY <1>1, ReadingIs, ConcatProperties
    <3>. QED
      BY <1>2, <3>1
  <2>3. m < e
    <3>1. (pos + l) + 4 * (a + z) <= e /\ pos \in Nat
      BY <1>2, <2>2, ReadingIs
    <3>2. m < pos + l + 4 * a
      BY <1>2, <1>3
    <3>. QED
      BY <3>1, <3>2
  <2>4. fault = "cut"
    BY <1>0, <1>2, <2>3 DEF Handed
  <2>5. Followed(n, st, p, q, fb)'
    <3>1. Run(n, st, p, q, root', fb, value') /\ Handed(fb)'
      BY <1>0, <2>1 DEF Handed
    <3>. QED
      BY <1>0, <2>1, <3>1 DEF Followed
  <2>. QED
    BY <1>0, <2>1, <2>4, <2>5 DEF DecodeInv
<1>4. CASE Advance(Len(b), w, r) /\ pos + Len(b) <= Len(buf)
  <2>1. /\ pos' = pos + Len(b) /\ got' = Append(got, w) /\ todo' = r \o Tail(todo)
        /\ UNCHANGED <<root, phase, value, buf, fault>>
    BY <1>4 DEF Advance
  <2>2. got \in Seq(Held) /\ Len(got) \in Nat /\ \A k \in 1 .. Len(got) : got[k] = value[k]
    BY DEF Reading, Reached
  <2>3. /\ got' \in Seq(Held) /\ Len(got') = Len(got) + 1
        /\ \A k \in 1 .. Len(got') : got'[k] = value[k]
    <3>1. /\ got' \in Seq(Held) /\ Len(got') = Len(got) + 1 /\ got'[Len(got) + 1] = w
          /\ \A k \in 1 .. Len(got) : got'[k] = got[k]
      BY <1>1, <2>1, <2>2, AppendProperties
    <3>2. ASSUME NEW k \in 1 .. Len(got') PROVE got'[k] = value[k]
      <4>1. k \in 1 .. Len(got) \/ k = Len(got) + 1
        BY <2>2, <3>1
      <4>. QED
        BY <2>2, <3>1, <4>1
    <3>. QED
      BY <3>1, <3>2
  <2>4. Reached(i + 1, st, p, q)'
    BY <1>4, <2>1, <2>3 DEF Reached
  <2>5. Followed(n, st, p, q, fb)'
    <3>1. Run(n, st, p, q, root', fb, value') /\ Handed(fb)'
      BY <1>0, <2>1 DEF Handed
    <3>2. i + 1 \in 0 .. n
      BY ReadingIs
    <3>. QED
      BY <1>0, <2>4, <3>1, <3>2 DEF Followed
  <2>. QED
    BY <1>0, <2>1, <2>5 DEF DecodeInv
<1>. QED
  BY <1>3, <1>4 DEF Follows


\* The number of the constructor chosen is the next in the buffer.
LEMMA ClassFollowsRun ==
  ASSUME NEW n, NEW st, NEW p, NEW q, NEW fb, NEW i, Reading(n, st, p, q, fb, i),
         fault \in {"none", "cut"}, DecodeClass
  PROVE  DecodeInv'
<1>0. /\ n \in Nat /\ fb \in Octets /\ Run(n, st, p, q, root, fb, value) /\ st[n] = <<>> /\ Handed(fb)
      /\ phase = "decode" /\ buf \in Octets /\ i \in 0 .. n /\ pos <= Len(buf)
      /\ got \in Seq(Held) /\ \A k \in 1 .. Len(got) : got[k] = value[k]
  BY DEF Reading, Reached
<1>1. Head(todo)[1] = "class" /\ Head(todo) \in Field /\ Head(todo)[2] \in DOMAIN Classes
  BY ReadingIs, FieldIs DEF DecodeClass, Reads
<1>2. Link(todo, pos, Len(got), st[i + 1], p[i + 1], q[i + 1], fb, value)
  BY ReadingIs
<1>3. PICK t \in Classes[Head(todo)[2]] :
        /\ st[i + 1] = <<<<"type", t>>>> \o Tail(todo) /\ p[i + 1] = pos /\ q[i + 1] = Len(got)
  BY <1>1, <1>2 DEF Link, Writes
<1>4. t \in DOMAIN Types
  BY <1>1, ClassIs
<1>5. st[i + 1] # <<>> /\ Head(st[i + 1]) = <<"type", t>>
  <2>1. Tail(todo) \in Seq(Field) /\ <<"type", t>> \in Field
    BY <1>4, ReadingIs, TypeIs
  <2>2. PICK T2 \in Seq(Field) : T2 = Tail(todo)
    BY <2>1
  <2>3. <<<<"type", t>>>> \o T2 # <<>> /\ Head(<<<<"type", t>>>> \o T2) = <<"type", t>>
    BY <2>1
  <2>. QED
    BY <1>3, <2>2, <2>3
<1>6. PICK j \in 1 .. n, o \in 1 .. n : o = i + 1 /\ j = o + 1 /\ j - 1 = o /\ o \in 0 .. n
  <2>1. i + 1 \in 1 .. n /\ i + 1 # n
    BY <1>0, <1>5, ReadingIs
  <2>2. (i + 1) + 1 \in 1 .. n /\ ((i + 1) + 1) - 1 = i + 1 /\ i + 1 \in 0 .. n
    BY <1>0, <2>1
  <2>. QED
    BY <2>1, <2>2
<1>7. Link(st[o], p[o], q[o], st[j], p[j], q[j], fb, value)
  BY <1>0, <1>6 DEF Run
<1>8. PICK b, w, r : /\ Writes(<<"type", t>>, b, w, r)
                     /\ p[j] = pos + Len(b) /\ p[j] <= Len(fb) /\ \A k \in 1 .. Len(b) : fb[pos + k] = b[k]
  <2>1. Head(st[o])[1] = "type" /\ Head(st[o]) = <<"type", t>> /\ p[o] = pos
    BY <1>3, <1>5, <1>6
  <2>. QED
    BY <1>7, <2>1 DEF Link
<1>9. PICK x \in Nat : x = Types[t].id /\ x < Power(4) /\ b = PutFixed(x, 4)
  BY <1>4, <1>8, TypeIs DEF Writes
<1>10. Len(b) = 4 /\ 4 \in 0 .. 8 /\ b \in Octets
  BY <1>9, PutFixedIs
<1>11. PICK m \in Nat, e \in Nat : m = Len(buf) /\ e = Len(fb) /\ pos \in Nat /\ pos <= m /\ pos + 4 <= e
  <2>1. Len(buf) \in Nat /\ Len(fb) \in Nat
    BY <1>0 DEF Octets
  <2>2. pos \in Nat
    BY ReadingIs
  <2>. QED
    BY <1>0, <1>8, <1>10, <2>1, <2>2
<1>12. CASE m - pos < 4
  <2>1. phase' = "error" /\ UNCHANGED <<root, todo, value, buf, fault, pos, got>>
    BY <1>11, <1>12 DEF DecodeClass, Remaining, Fail
  <2>2. m < e
    BY <1>11, <1>12
  <2>3. fault = "cut"
    BY <1>0, <1>11, <2>2 DEF Handed
  <2>4. Followed(n, st, p, q, fb)'
    <3>1. Run(n, st, p, q, root', fb, value') /\ Handed(fb)'
      BY <1>0, <2>1 DEF Handed
    <3>. QED
      BY <1>0, <2>1, <3>1 DEF Followed
  <2>. QED
    BY <1>0, <2>1, <2>3, <2>4 DEF DecodeInv
<1>13. CASE ~(m - pos < 4)
  <2>1. Number(0, 4) = x
    <3>1. Agrees(buf, pos, b)
      <4> SUFFICES ASSUME NEW k \in 1 .. Len(b), pos + k <= Len(buf) PROVE buf[pos + k] = b[k]
        BY DEF Agrees
      <4>1. pos + k \in 1 .. Len(buf)
        BY <1>10, <1>11
      <4>2. fb[pos + k] = buf[pos + k]
        BY <1>0, <4>1 DEF Begins, Handed
      <4>. QED
        BY <1>8, <4>2
    <3>2. pos + 0 = pos /\ pos + 0 + 4 <= m /\ 0 \in Nat
      BY <1>11, <1>13
    <3>. QED
      BY <1>0, <1>9, <1>10, <1>11, <3>1, <3>2, NumberIs
  <2>2. {u \in Classes[Head(todo)[2]] : Types[u].id = Number(0, 4)} = {t}
    <3>1. \A u \in Classes[Head(todo)[2]] : Types[u].id = Types[t].id => u = t
      BY <1>1, <1>4, ClassIs, NumbersAssumption
    <3>. QED
      BY <1>9, <2>1, <3>1
  <2>3. /\ todo' = <<<<"type", t>>>> \o Tail(todo)
        /\ UNCHANGED <<root, phase, value, buf, fault, pos, got>>
    BY <1>11, <1>13, <2>2 DEF DecodeClass, Remaining
  <2>4. Reached(o, st, p, q)'
    BY <1>0, <1>3, <1>6, <2>3 DEF Reached
  <2>5. Followed(n, st, p, q, fb)'
    <3>1. Run(n, st, p, q, root', fb, value') /\ Handed(fb)'
      BY <1>0, <2>3 DEF Handed
    <3>. QED
      BY <1>0, <1>6, <2>4, <3>1 DEF Followed
  <2>. QED
    BY <1>0, <2>3, <2>5 DEF DecodeInv
<1>. QED
  BY <1>12, <1>13

LEMMA DecodeStep ==
  ASSUME EncodeInv, DecodeInv, Decode
  PROVE  DecodeInv'
<1>1. phase = "decode" /\ todo # <<>>
  BY DEF Decode, DecodeFixed, DecodeRaw, DecodeBytes, DecodeVector, DecodeType, DecodeClass, Reads
<1>2. value' = value /\ fault' = fault /\ phase' \in {"decode", "error"}
  BY <1>1 DEF Decode, DecodeFixed, DecodeRaw, DecodeBytes, DecodeVector, DecodeType, DecodeClass,
    ReadBytes, Fail, Advance
<1>3. CASE ~(Sized /\ fault # "changed")
  <2>1. ~(Sized' /\ fault' # "changed")
    BY <1>2, <1>3 DEF Sized
  <2>. QED
    BY <1>2, <2>1 DEF DecodeInv
<1>4. CASE Sized /\ fault # "changed"
  <2>1. PICK fb \in Octets, n \in Nat : \E st, p, q : Followed(n, st, p, q, fb)
    BY <1>1, <1>4 DEF DecodeInv
  <2>2. PICK st, p, q : Followed(n, st, p, q, fb)
    BY <2>1
  <2>3. PICK i \in 0 .. n : Reached(i, st, p, q)
    BY <1>1, <2>2 DEF Followed
  <2>4. Reading(n, st, p, q, fb, i) /\ fault \in {"none", "cut"}
    BY <1>1, <1>4, <2>2, <2>3 DEF Reading, Followed, EncodeInv, DecodeInv
  <2>5. CASE DecodeClass
    BY <2>4, <2>5, ClassFollowsRun
  <2>6. CASE DecodeFixed \/ DecodeRaw \/ DecodeBytes \/ DecodeVector \/ DecodeType
    <3>1. Head(todo)[1] # "class"
      BY <2>6 DEF DecodeFixed, DecodeRaw, DecodeBytes, DecodeVector, DecodeType, Reads
    <3>2. PICK b, w, r :
            /\ Writes(Head(todo), b, w, r) /\ Before(b) /\ Len(w.str) < Power(3)
            /\ st[i + 1] = r \o Tail(todo) /\ p[i + 1] = pos + Len(b)
            /\ q[i + 1] = Len(got) + 1 /\ value[Len(got) + 1] = w
      <4>1. Sized /\ Reading(n, st, p, q, fb, i)
        BY <1>4, <2>4, Zenon
      <4>2. IsWritten(i, st, p, q)
        BY <3>1, <4>1, ReadingWritten, Zenon
      <4>. QED
        BY <4>2 DEF IsWritten
    <3>3. Head(todo) \in Field
      BY <2>4, ReadingIs
    <3>4. Follows(b, w, r)
      BY <2>6, <3>2, <3>3, FixedFollows, RawFollows, BytesFollow, VectorFollows, TypeFollows
    <3>. QED
      BY <2>4, <3>2, <3>4, FollowsRun
  <2>. QED
    BY <2>5, <2>6 DEF Decode
<1>. QED
  BY <1>3, <1>4

-----------------------------------------------------------------------------
(* Theorems                                                                *)

Inv == EncodeInv /\ DecodeInv

LEMMA Inductive == Spec => []Inv
<1>1. Init => Inv
  BY EncodeInit DEF Init, Inv, DecodeInv
<1>2. Inv /\ [Next]_vars => Inv'
  <2> SUFFICES ASSUME Inv, [Next]_vars PROVE Inv'
    OBVIOUS
  <2>1. CASE Encode
    <3>1. phase' = "encode" /\ fault' = fault
      BY <2>1 DEF Encode, EncodeFixed, EncodeRaw, EncodeBytes, EncodeVector, EncodeType, EncodeClass, Put
    <3>2. DecodeInv'
      BY <3>1 DEF Inv, DecodeInv
    <3>. QED
      BY <2>1, <3>2, EncodeStep DEF Inv
  <2>2. CASE Deliver
    BY <2>2, DeliverStep DEF Inv
  <2>3. CASE Decode
    <3>1. UNCHANGED <<buf, value, root>> /\ phase' # "encode"
      BY <2>3 DEF Decode, DecodeFixed, DecodeRaw, DecodeBytes, DecodeVector, DecodeType, DecodeClass,
        Reads, ReadBytes, Fail, Advance
    <3>2. EncodeInv'
      BY <3>1 DEF Inv, EncodeInv
    <3>. QED
      BY <2>3, <3>2, DecodeStep DEF Inv
  <2>4. CASE Decoded
    <3>1. /\ phase = "decode" /\ phase' = "ok" /\ todo = <<>>
          /\ UNCHANGED <<root, todo, value, buf, fault, pos, got>>
      BY <2>4 DEF Decoded
    <3>2. EncodeInv'
      BY <3>1 DEF Inv, EncodeInv
    <3>3. ASSUME Sized, fault # "changed"
          PROVE  \E fb \in Octets, n \in Nat : \E st, p, q : Followed(n, st, p, q, fb)'
      <4>1. PICK fb \in Octets, n \in Nat : \E st, p, q : Followed(n, st, p, q, fb)
        BY <3>1, <3>3 DEF Inv, DecodeInv
      <4>2. PICK st, p, q : Followed(n, st, p, q, fb)
        BY <4>1
      <4>3. PICK i \in 0 .. n : Reached(i, st, p, q)
        BY <3>1, <4>2 DEF Followed
      <4>4. Reached(i, st, p, q)' /\ Handed(fb)' /\ Run(n, st, p, q, root', fb, value')
        BY <3>1, <4>2, <4>3 DEF Reached, Handed, Followed
      <4>5. Followed(n, st, p, q, fb)'
        BY <4>2, <4>4 DEF Followed
      <4>. QED
        BY <4>5
    <3>4. DecodeInv'
      BY <3>1, <3>3 DEF Inv, DecodeInv, Sized
    <3>. QED
      BY <3>2, <3>4 DEF Inv
  <2>5. CASE UNCHANGED vars
    BY <2>5 DEF vars, Inv, EncodeInv, DecodeInv, Followed, Reached, Handed, Sized
  <2>. QED
    BY <2>1, <2>2, <2>3, <2>4, <2>5 DEF Next
<1>. QED
  BY <1>1, <1>2, PTL DEF Spec

\* The decoder that ends without an error has come to the end of the run.
LEMMA EndReached ==
  ASSUME Inv, Sized, phase = "ok", fault # "changed"
  PROVE  fault = "none" /\ got = value /\ pos = Len(buf)
<1>1. PICK fb \in Octets, n \in Nat : \E st, p, q : Followed(n, st, p, q, fb)
  BY DEF Inv, DecodeInv
<1>2. PICK st, p, q : Followed(n, st, p, q, fb)
  BY <1>1
<1>3. PICK i \in 0 .. n : Reached(i, st, p, q)
  BY <1>2 DEF Followed
<1>4. Run(n, st, p, q, root, fb, value) /\ Handed(fb) /\ st[i] = <<>>
  BY <1>2, <1>3 DEF Followed, Inv, DecodeInv, Reached
<1>5. i = n
  <2> SUFFICES ASSUME i # n PROVE FALSE
    OBVIOUS
  <2>1. i + 1 \in 1 .. n /\ (i + 1) - 1 = i
    OBVIOUS
  <2>2. Link(st[i], p[i], q[i], st[i + 1], p[i + 1], q[i + 1], fb, value)
    BY <1>4, <2>1 DEF Run
  <2>. QED
    BY <1>4, <2>2 DEF Link
<1>6. /\ pos = Len(fb) /\ pos <= Len(buf) /\ Len(got) = Len(value)
      /\ got \in Seq(Held) /\ \A k \in 1 .. Len(got) : got[k] = value[k]
  BY <1>3, <1>4, <1>5 DEF Run, Reached
<1>7. Len(fb) \in Nat /\ Len(buf) \in Nat /\ value \in Seq(Held)
  BY DEF Inv, EncodeInv, Octets
<1>8. fault = "none" /\ Len(buf) = Len(fb)
  BY <1>4, <1>6, <1>7 DEF Handed, Inv, DecodeInv
<1>9. got = value
  BY <1>6, <1>7, SeqEqual
<1>. QED
  BY <1>6, <1>8, <1>9

(***************************************************************************)
(* Decode of what Encode wrote ends without an error, at the end of the    *)
(* buffer and with every value back.                                       *)
(***************************************************************************)
THEOREM ReadsBack == Spec => []RoundTrip
<1>1. Inv => RoundTrip
  BY EndReached DEF RoundTrip, Inv, DecodeInv
<1>. QED
  BY <1>1, Inductive, PTL

(***************************************************************************)
(* Decode of a proper beginning of what Encode wrote does not end without  *)
(* an error.                                                               *)
(***************************************************************************)
THEOREM CutsAreErrors == Spec => []CutIsRefused
<1>1. Inv => CutIsRefused
  BY EndReached DEF CutIsRefused
<1>. QED
  BY <1>1, Inductive, PTL


-----------------------------------------------------------------------------
(* The cursor, whatever is in the buffer                                   *)

CursorInv == todo \in Seq(Field) /\ pos \in Nat /\ pos <= Len(buf)

\* A number that is all there is a number, whoever wrote it.
LEMMA NumberTyped ==
  ASSUME buf \in Octets, pos \in Nat, NEW skip \in Nat, NEW w \in 0 .. 8, pos + skip + w <= Len(buf)
  PROVE  Number(skip, w) \in Nat
<1>1. PICK c \in [0 .. w -> Nat] : Number(skip, w) = c[w]
  BY NumberAdds
<1>. QED
  BY <1>1

\* A step of n bytes that are there.
Steps(n, r) ==
  /\ n \in Nat /\ pos + n <= Len(buf) /\ r \in Seq(Field)
  /\ pos' = pos + n /\ todo' = r \o Tail(todo)

LEMMA CursorStep ==
  ASSUME EncodeInv, CursorInv, Decode
  PROVE  UNCHANGED <<todo, pos>> \/ \E n, r : Steps(n, r)
<1>0. /\ buf \in Octets /\ pos \in Nat /\ Len(buf) \in Nat /\ pos <= Len(buf) /\ Head(todo) \in Field
      /\ <<>> \in Seq(Field)
  <2>1. todo # <<>>
    BY DEF Decode, DecodeFixed, DecodeRaw, DecodeBytes, DecodeVector, DecodeType, DecodeClass, Reads
  <2>. QED
    BY <2>1, HeadTailProperties DEF EncodeInv, CursorInv, Octets
<1>1. ASSUME NEW n \in Nat, NEW what, NEW r \in Seq(Field), Advance(n, what, r), ~(Remaining < n)
      PROVE  \E m, x : Steps(m, x)
  <2>1. pos + n <= Len(buf)
    BY <1>0, <1>1 DEF Remaining
  <2>2. Steps(n, r)
    BY <1>1, <2>1 DEF Steps, Advance
  <2>. QED
    BY <2>2
<1>2. Fail => UNCHANGED <<todo, pos>>
  BY DEF Fail
<1>3. CASE DecodeFixed
  <2>1. PICK w \in Nat : w = Width[Head(todo)[2]]
    BY <1>0, <1>3, FieldIs DEF DecodeFixed, Reads
  <2>2. Fail \/ (Advance(w, Num(Head(todo)[2], Number(0, w)), <<>>) /\ ~(Remaining < w))
    BY <1>3, <2>1 DEF DecodeFixed
  <2>. QED
    BY <1>0, <1>1, <1>2, <2>2
<1>4. CASE DecodeRaw
  <2>1. PICK w \in Nat : w = Width[Head(todo)[2]]
    BY <1>0, <1>4, FieldIs DEF DecodeRaw, Reads
  <2>2. \/ Fail
        \/ Advance(w, Str(Head(todo)[2], SubSeq(buf, pos + 1, pos + w)), <<>>) /\ ~(Remaining < w)
    BY <1>4, <2>1 DEF DecodeRaw
  <2>. QED
    BY <1>0, <1>1, <1>2, <2>2
<1>5. ASSUME NEW h \in Nat, NEW l \in Nat, NEW pad \in Nat, ReadBytes(h, l, pad)
      PROVE  UNCHANGED <<todo, pos>> \/ \E n, r : Steps(n, r)
  <2>1. h + l + pad \in Nat
    OBVIOUS
  <2>2. \/ Fail
        \/ /\ Advance(h + l + pad,
                      Str(Head(todo)[2], SubSeq(buf, (pos + h) + 1, (pos + h) + l)), <<>>)
           /\ ~(Remaining < h + l + pad)
    BY <1>5 DEF ReadBytes
  <2>. QED
    BY <1>0, <1>1, <1>2, <2>1, <2>2
<1>6. CASE DecodeBytes
  <2>1. CASE Remaining < 1
    BY <1>2, <1>6, <2>1 DEF DecodeBytes
  <2>2. CASE ~(Remaining < 1) /\ buf[pos + 1] <= ShortMax
    <3>1. PICK l \in Nat : l = buf[pos + 1]
      <4>1. pos + 1 \in 1 .. Len(buf)
        BY <1>0, <2>2 DEF Remaining
      <4>. QED
        BY <1>0, <4>1 DEF Octets
    <3>2. ReadBytes(1, l, PadOf(1 + l))
      BY <1>6, <2>2, <3>1 DEF DecodeBytes
    <3>3. 1 + l \in Nat /\ 1 \in Nat
      OBVIOUS
    <3>. QED
      BY <1>5, <3>2, <3>3, PadIs
  <2>3. CASE ~(Remaining < 1) /\ ~(buf[pos + 1] <= ShortMax) /\ Remaining < 4
    BY <1>2, <1>6, <2>3 DEF DecodeBytes
  <2>4. CASE ~(Remaining < 1) /\ ~(buf[pos + 1] <= ShortMax) /\ ~(Remaining < 4)
    <3>1. PICK l \in Nat : l = Number(1, 3)
      <4>1. pos + 1 + 3 <= Len(buf) /\ 1 \in Nat /\ 3 \in 0 .. 8
        BY <1>0, <2>4 DEF Remaining
      <4>. QED
        BY <1>0, <4>1, NumberTyped
    <3>2. ReadBytes(4, l, PadOf(l))
      BY <1>6, <2>4, <3>1 DEF DecodeBytes
    <3>3. 4 \in Nat
      OBVIOUS
    <3>. QED
      BY <1>5, <3>2, <3>3, PadIs
  <2>. QED
    BY <2>1, <2>2, <2>3, <2>4
<1>7. CASE DecodeVector
  <2>1. CASE Remaining < 8
    BY <1>2, <1>7, <2>1 DEF DecodeVector
  <2>2. CASE ~(Remaining < 8)
    <3>1. PICK n \in Nat : n = Number(4, 4)
      <4>1. pos + 4 + 4 <= Len(buf) /\ 4 \in Nat /\ 4 \in 0 .. 8
        BY <1>0, <2>2 DEF Remaining
      <4>. QED
        BY <1>0, <4>1, NumberTyped
    <3>2. PICK r \in Seq(Field) : r = Copies(n, Head(todo)[2])
      BY <1>0, <1>7, FieldIs, CopiesAre DEF DecodeVector, Reads
    <3>3. Fail \/ Advance(8, Num("vector", n), r)
      BY <1>7, <2>2, <3>1, <3>2 DEF DecodeVector
    <3>4. 8 \in Nat
      OBVIOUS
    <3>. QED
      BY <1>1, <1>2, <2>2, <3>3, <3>4
  <2>. QED
    BY <2>1, <2>2
<1>8. CASE DecodeType
  <2>1. PICK r \in Seq(Field) : r = Types[Head(todo)[2]].fields
    BY <1>0, <1>8, FieldIs, TypeIs DEF DecodeType, Reads
  <2>2. Fail \/ (Advance(4, Str(Head(todo)[2], <<>>), r) /\ ~(Remaining < 4))
    BY <1>8, <2>1 DEF DecodeType
  <2>3. 4 \in Nat
    OBVIOUS
  <2>. QED
    BY <1>1, <1>2, <2>2, <2>3
<1>9. CASE DecodeClass
  <2>1. \/ Fail
        \/ \E t \in Classes[Head(todo)[2]] : todo' = <<<<"type", t>>>> \o Tail(todo) /\ pos' = pos
    BY <1>9 DEF DecodeClass
  <2>2. ASSUME NEW t \in Classes[Head(todo)[2]], todo' = <<<<"type", t>>>> \o Tail(todo), pos' = pos
        PROVE  Steps(0, <<<<"type", t>>>>)
    <3>1. <<"type", t>> \in Field
      BY <1>0, <1>9, FieldIs, ClassIs, TypeIs DEF DecodeClass, Reads
    <3>2. <<<<"type", t>>>> \in Seq(Field)
      BY <3>1
    <3>3. pos + 0 <= Len(buf) /\ pos' = pos + 0 /\ 0 \in Nat
      BY <1>0, <2>2
    <3>. QED
      BY <2>2, <3>2, <3>3 DEF Steps
  <2>. QED
    BY <1>2, <2>1, <2>2
<1>. QED
  BY <1>3, <1>4, <1>6, <1>7, <1>8, <1>9 DEF Decode

(***************************************************************************)
(* Whatever Deliver made of the bytes, the cursor stays within them: no    *)
(* length, count or constructor that is read makes Decode read beyond.     *)
(***************************************************************************)
THEOREM CursorInside == Spec => [](pos \in 0 .. Len(buf))
<1>1. Init => CursorInv
  <2> SUFFICES ASSUME Init PROVE CursorInv
    OBVIOUS
  <2>1. root \in Field /\ todo = <<root>> /\ buf = <<>> /\ pos = 0
    BY CodecAssumption DEF Init
  <2>. QED
    BY <2>1 DEF CursorInv
<1>2. EncodeInv /\ EncodeInv' /\ CursorInv /\ [Next]_vars => CursorInv'
  <2> SUFFICES ASSUME EncodeInv, EncodeInv', CursorInv, [Next]_vars PROVE CursorInv'
    OBVIOUS
  <2>0. Len(buf') \in Nat /\ root \in Field
    BY DEF EncodeInv, Octets
  <2>1. CASE Encode
    <3>1. phase' = "encode"
      BY <2>1 DEF Encode, EncodeFixed, EncodeRaw, EncodeBytes, EncodeVector, EncodeType, EncodeClass, Put
    <3>2. todo' \in Seq(Field) /\ pos' = 0
      BY <3>1 DEF EncodeInv
    <3>. QED
      BY <2>0, <3>2 DEF CursorInv
  <2>2. CASE Deliver
    <3>1. phase = "encode" /\ todo' = <<root>> /\ pos' = pos
      BY <2>2 DEF Deliver, Hand
    <3>2. pos = 0
      BY <3>1 DEF EncodeInv
    <3>. QED
      BY <2>0, <3>1, <3>2 DEF CursorInv
  <2>3. CASE Decode
    <3>1. buf' = buf
      BY <2>3 DEF Decode, DecodeFixed, DecodeRaw, DecodeBytes, DecodeVector, DecodeType, DecodeClass,
        ReadBytes, Fail, Advance
    <3>2. CASE UNCHANGED <<todo, pos>>
      BY <3>1, <3>2 DEF CursorInv
    <3>3. CASE \E n, r : Steps(n, r)
      <4>1. PICK n, r : Steps(n, r)
        BY <3>3
      <4>2. Tail(todo) \in Seq(Field)
        <5>1. todo # <<>>
          BY <2>3 DEF Decode, DecodeFixed, DecodeRaw, DecodeBytes, DecodeVector, DecodeType,
            DecodeClass, Reads
        <5>. QED
          BY <5>1, HeadTailProperties DEF CursorInv
      <4>3. todo' \in Seq(Field)
        BY <4>1, <4>2, ConcatProperties DEF Steps
      <4>4. pos' \in Nat /\ pos' <= Len(buf)
        BY <4>1 DEF Steps, CursorInv
      <4>. QED
        BY <3>1, <4>3, <4>4 DEF CursorInv
    <3>. QED
      BY <2>3, <3>2, <3>3, CursorStep
  <2>4. CASE Decoded
    BY <2>4 DEF Decoded, CursorInv
  <2>5. CASE UNCHANGED vars
    BY <2>5 DEF vars, CursorInv
  <2>. QED
    BY <2>1, <2>2, <2>3, <2>4, <2>5 DEF Next
<1>3. EncodeInv /\ CursorInv => pos \in 0 .. Len(buf)
  BY DEF EncodeInv, CursorInv, Octets
<1>4. Inv => EncodeInv
  BY DEF Inv
<1>. QED
  BY <1>1, <1>2, <1>3, <1>4, Inductive, PTL DEF Spec

=============================================================================
