------------------------------- MODULE Codec -------------------------------
(***************************************************************************)
(* The TL encoder and decoder (tl/encoder, tl/decoder) under the Encode    *)
(* and Decode methods that tl/generator writes for the types of the        *)
(* schema.                                                                 *)
(*                                                                         *)
(* A value is the sequence of what its fields hold, vectors and nested     *)
(* types in place.  Encode walks the fields and appends bytes; Decode      *)
(* walks the same fields over a buffer with a cursor.  What is still to be *)
(* walked, the calls that have not returned, is a stack of fields.  A byte *)
(* has Radix values, and a length byte up to ShortMax is a short length.   *)
(***************************************************************************)
EXTENDS Schema

CONSTANTS
  Radix,       \* 256
  ShortMax,    \* 253
  CRCVector,   \* a number no type has
  Roots,       \* the fields tried: types and classes
  Nums,        \* numbers tried
  ByteLens,    \* lengths of byte strings tried
  MaxCount,    \* elements of a vector tried
  MaxBuf,      \* bound: bytes of an encoded value
  MaxDamaged   \* bound: bytes of a buffer in which one byte is changed

ASSUME CodecAssumption ==
  /\ Radix \in Nat \ {0, 1} /\ ShortMax \in 0 .. Radix - 2
  /\ Roots \subseteq Field /\ Nums \subseteq Nat /\ ByteLens \subseteq Nat

\* The number one in the k-th byte.
Power(k) == Radix^k

\* A law of arithmetic.
ASSUME PowerAssumption ==
  Power(0) = 1 /\ \A k \in 0 .. 7 : Power(k + 1) = Radix * Power(k)

(***************************************************************************)
(* Constructors have different numbers, of four bytes, and a count of      *)
(* elements is an int32.                                                   *)
(***************************************************************************)
ASSUME NumbersAssumption ==
  /\ \A t, u \in DOMAIN Types : Types[t].id = Types[u].id => t = u
  /\ \A t \in DOMAIN Types : Types[t].id \in Nat \ {CRCVector} /\ Types[t].id < Power(4)
  /\ CRCVector \in Nat /\ CRCVector < Power(4)
  /\ MaxCount \in Nat /\ MaxCount < Power(4) \div 2

VARIABLES
  root, phase, \* the field coded; "encode", "decode", "ok" or "error"
  todo,        \* fields still to be coded
  value,       \* history: the value encoded
  buf,         \* the bytes
  fault,       \* history: what became of them: "none", "cut", "changed"
  pos, got     \* the decoder: its cursor and what it has read

vars == <<root, phase, todo, value, buf, fault, pos, got>>

Init ==
  /\ root \in Roots /\ todo = <<root>>
  /\ phase = "encode" /\ fault = "none"
  /\ value = <<>> /\ buf = <<>>
  /\ pos = 0 /\ got = <<>>

\* What a field holds: a number, or a byte string.
Num(kind, n) == [kind |-> kind, num |-> n, str |-> <<>>]
Str(kind, s) == [kind |-> kind, num |-> 0, str |-> s]

\* The elements of a vector.
Copies(n, t) == [k \in 1 .. n |-> IF t \in DOMAIN Width THEN <<"fixed", t>> ELSE <<"type", t>>]

-----------------------------------------------------------------------------
(***************************************************************************)
(* Encoder                                                                 *)
(***************************************************************************)

\* PutUint, PutInt and PutLong, little-endian.
PutFixed(n, width) == [k \in 1 .. width |-> (n \div Power(k - 1)) % Radix]

Zeroes(n) == [k \in 1 .. n |-> 0]

PadOf(n) == (4 - (n % 4)) % 4

\* Mutant: the boundary of the short form is off by one.
PutBytesOffByOne(s) ==
  LET n == Len(s)
  IN  IF n <= ShortMax + 1 THEN <<n>> \o s \o Zeroes(PadOf(1 + n))
      ELSE <<ShortMax + 1>> \o PutFixed(n, 3) \o s \o Zeroes(PadOf(n))

PutBytes(s) ==
  LET n == Len(s)
  IN  IF n <= ShortMax THEN <<n>> \o s \o Zeroes(PadOf(1 + n))
      ELSE <<ShortMax + 1>> \o PutFixed(n, 3) \o s \o Zeroes(PadOf(n))

Put(bytes, what, rest) ==
  /\ Len(buf) + Len(bytes) <= MaxBuf
  /\ buf' = buf \o bytes
  /\ value' = Append(value, what)
  /\ todo' = rest \o Tail(todo)
  /\ UNCHANGED <<root, phase, fault, pos, got>>

EncodeFixed ==
  /\ phase = "encode" /\ todo # <<>> /\ Head(todo)[1] = "fixed"
  /\ \E n \in IF Head(todo)[2] = "flags" THEN 0 .. 3 ELSE Nums :
       /\ n < Power(Width[Head(todo)[2]])
       /\ Put(PutFixed(n, Width[Head(todo)[2]]), Num(Head(todo)[2], n), <<>>)

\* PutInt128 and PutInt256.
EncodeRaw ==
  /\ phase = "encode" /\ todo # <<>> /\ Head(todo)[1] = "raw"
  /\ LET s == [k \in 1 .. Width[Head(todo)[2]] |-> k % Radix]
     IN  Put(s, Str(Head(todo)[2], s), <<>>)

EncodeBytes ==
  /\ phase = "encode" /\ todo # <<>> /\ Head(todo)[1] = "bytes"
  /\ \E n \in ByteLens :
       LET s == [k \in 1 .. n |-> 1] IN Put(PutBytes(s), Str(Head(todo)[2], s), <<>>)

\* PutVectorHeader, then each element.
EncodeVector ==
  /\ phase = "encode" /\ todo # <<>> /\ Head(todo)[1] = "vector"
  /\ \E n \in 0 .. MaxCount :
       Put(PutFixed(CRCVector, 4) \o PutFixed(n, 4), Num("vector", n), Copies(n, Head(todo)[2]))

\* The method Encode of a type: its number, then its fields.
EncodeType ==
  /\ phase = "encode" /\ todo # <<>> /\ Head(todo)[1] = "type"
  /\ LET t == Head(todo)[2]
     IN  Put(PutFixed(Types[t].id, 4), Str(t, <<>>), Types[t].fields)

\* A field of a class holds one of its constructors.
EncodeClass ==
  /\ phase = "encode" /\ todo # <<>> /\ Head(todo)[1] = "class"
  /\ \E t \in Classes[Head(todo)[2]] : todo' = <<<<"type", t>>>> \o Tail(todo)
  /\ UNCHANGED <<root, phase, value, buf, fault, pos, got>>

\* The bytes get to a decoder: as they are, cut short, or with one changed.
Hand(bytes, how) ==
  /\ phase = "encode" /\ todo = <<>>
  /\ buf' = bytes /\ fault' = how
  /\ phase' = "decode" /\ todo' = <<root>>
  /\ UNCHANGED <<root, value, pos, got>>

Deliver ==
  \/ Hand(buf, "none")
  \/ \E n \in 0 .. Len(buf) - 1 : Hand(SubSeq(buf, 1, n), "cut")
  \/ /\ Len(buf) <= MaxDamaged
     /\ \E k \in DOMAIN buf, b \in 0 .. Radix - 1 :
          b # buf[k] /\ Hand([buf EXCEPT ![k] = b], "changed")

-----------------------------------------------------------------------------
(***************************************************************************)
(* Decoder                                                                 *)
(***************************************************************************)

Remaining == Len(buf) - pos

\* The little-endian number of width bytes, after skip bytes.
Number(skip, width) ==
  LET n[k \in 0 .. width] ==
        IF k = 0 THEN 0 ELSE n[k - 1] + buf[pos + skip + k] * Power(k - 1)
  IN  n[width]

Reads(kind) == phase = "decode" /\ todo # <<>> /\ Head(todo)[1] = kind

\* An error of any kind ends Decode and everything that called it.
Fail ==
  /\ phase' = "error"
  /\ UNCHANGED <<root, todo, value, buf, fault, pos, got>>

Advance(n, what, rest) ==
  /\ pos' = pos + n
  /\ got' = Append(got, what)
  /\ todo' = rest \o Tail(todo)
  /\ UNCHANGED <<root, phase, value, buf, fault>>

\* Uint, Int and Long.
DecodeFixed ==
  /\ Reads("fixed")
  /\ LET w == Width[Head(todo)[2]]
     IN  IF Remaining < w THEN Fail ELSE Advance(w, Num(Head(todo)[2], Number(0, w)), <<>>)

\* Int128 and Int256.
DecodeRaw ==
  /\ Reads("raw")
  /\ LET w == Width[Head(todo)[2]]
     IN  IF Remaining < w THEN Fail
         ELSE Advance(w, Str(Head(todo)[2], SubSeq(buf, pos + 1, pos + w)), <<>>)

\* readBytesView: length, bytes and padding, or an error.
ReadBytes(headerLen, length, pad) ==
  LET total == headerLen + length + pad
      start == pos + headerLen
  IN  IF Remaining < total \/ \E k \in 1 .. pad : buf[start + length + k] # 0 THEN Fail
      ELSE Advance(total, Str(Head(todo)[2], SubSeq(buf, start + 1, start + length)), <<>>)

\* Mutant: the padding is not waited for.
DecodeBytesUnpadded ==
  /\ Reads("bytes")
  /\ IF Remaining < 1 THEN Fail
     ELSE IF buf[pos + 1] <= ShortMax
       THEN ReadBytes(1, buf[pos + 1], 0)
       ELSE IF Remaining < 4 THEN Fail ELSE ReadBytes(4, Number(1, 3), 0)

\* Bytes and String.
DecodeBytes ==
  /\ Reads("bytes")
  /\ IF Remaining < 1 THEN Fail
     ELSE IF buf[pos + 1] <= ShortMax
       THEN ReadBytes(1, buf[pos + 1], PadOf(1 + buf[pos + 1]))
       ELSE IF Remaining < 4 THEN Fail ELSE ReadBytes(4, Number(1, 3), PadOf(Number(1, 3)))

\* Mutant: any count that is no negative number is believed.
CountFitsAny(n, rest) == n < Power(4) \div 2

\* An int32 that is not negative; an element takes at least four bytes.
CountFits(n, rest) == n < Power(4) \div 2 /\ n <= rest \div 4

\* VectorHeader, the slice, and the elements to come.
DecodeVector ==
  /\ Reads("vector")
  /\ IF Remaining < 8 THEN Fail
     ELSE IF Number(0, 4) # CRCVector \/ ~CountFits(Number(4, 4), Remaining - 8) THEN Fail
     ELSE Advance(8, Num("vector", Number(4, 4)), Copies(Number(4, 4), Head(todo)[2]))

\* The method Decode of a type.
DecodeType ==
  /\ Reads("type")
  /\ LET t == Head(todo)[2]
     IN  IF Remaining < 4 THEN Fail
         ELSE IF Number(0, 4) # Types[t].id THEN Fail
         ELSE Advance(4, Str(t, <<>>), Types[t].fields)

\* The Decode function of a class: PeekUint, and the constructor of that number.
DecodeClass ==
  /\ Reads("class")
  /\ IF Remaining < 4 THEN Fail
     ELSE LET known == {t \in Classes[Head(todo)[2]] : Types[t].id = Number(0, 4)}
          IN  \/ known = {} /\ Fail
              \/ \E t \in known :
                   /\ todo' = <<<<"type", t>>>> \o Tail(todo)
                   /\ UNCHANGED <<root, phase, value, buf, fault, pos, got>>

Decoded ==
  /\ phase = "decode" /\ todo = <<>>
  /\ phase' = "ok"
  /\ UNCHANGED <<root, todo, value, buf, fault, pos, got>>

Encode == EncodeFixed \/ EncodeRaw \/ EncodeBytes \/ EncodeVector \/ EncodeType \/ EncodeClass
Decode == DecodeFixed \/ DecodeRaw \/ DecodeBytes \/ DecodeVector \/ DecodeType \/ DecodeClass

Next == Encode \/ Deliver \/ Decode \/ Decoded

Spec == Init /\ [][Next]_vars

-----------------------------------------------------------------------------
(***************************************************************************)
(* Properties                                                              *)
(***************************************************************************)

\* The three bytes of a long length hold the length: 16 MiB in the code.
Sized == \A k \in DOMAIN value : Len(value[k].str) < Power(3)

(***************************************************************************)
(* Decode of what Encode wrote succeeds, gives back every field of every   *)
(* nested value and stops exactly at the end, on both sides of the border  *)
(* between short and long strings and for every alignment.                 *)
(***************************************************************************)
RoundTrip ==
  Sized /\ fault = "none" =>
    /\ phase # "error"
    /\ phase = "ok" => got = value /\ pos = Len(buf)

(***************************************************************************)
(* No proper beginning of an encoded value decodes: a packet that was cut, *)
(* be it inside the padding of its last string, is an error.               *)
(***************************************************************************)
CutIsRefused == Sized /\ fault = "cut" => phase # "ok"

(***************************************************************************)
(* Whatever a changed byte makes of a length, a count or a constructor,    *)
(* the cursor stays within the buffer, and Decode allocates no more        *)
(* elements than the rest of the buffer can hold, beside the fields of the *)
(* types it is in.                                                         *)
(***************************************************************************)
DecoderBounded ==
  /\ pos <= Len(buf)
  /\ phase = "decode" =>
       Len(SelectSeq(todo, LAMBDA f : f[1] = "type" \/ f = Long)) <= 3 + Remaining \div 4

=============================================================================
