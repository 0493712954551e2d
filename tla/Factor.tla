------------------------------- MODULE Factor -------------------------------
(***************************************************************************)
(* How the client gets the factors of pq: ParsePQ of auth/keys.go and      *)
(* FactorPQ of crypto/factor.go, Pollard's rho with Floyd's cycle finding. *)
(*                                                                         *)
(* The loop of FactorPQ is given one round at a time, as a function on its *)
(* variables, because it need not end.                                     *)
(***************************************************************************)
EXTENDS Integers, Sequences

CONSTANTS
  Radix,      \* 256
  HexDigit,   \* the value of every byte that is a hexadecimal digit
  HexRadix,   \* 16
  Words       \* 2^64, the number of uint64 values

ASSUME RadixAssumption ==
  /\ Radix \in Nat \ {0, 1} /\ HexRadix \in Nat \ {0} /\ Words \in Nat \ {0}
  /\ \A b \in DOMAIN HexDigit : b \in 0 .. Radix - 1 /\ HexDigit[b] \in 0 .. HexRadix - 1

-----------------------------------------------------------------------------
(* ParsePQ                                                                 *)

\* The value of big-endian bytes, as a uint64.
BigEndian(bs) ==
  LET val[i \in 0 .. Len(bs)] ==
        IF i = 0 THEN 0 ELSE (val[i - 1] * Radix + bs[i]) % Words
  IN  val[Len(bs)]

\* hex.DecodeString succeeds, and yields at least one byte.
IsHex(bs) ==
  /\ bs # << >>
  /\ Len(bs) % 2 = 0
  /\ \A i \in DOMAIN bs : bs[i] \in DOMAIN HexDigit

DecodeHex(bs) ==
  [i \in 1 .. Len(bs) \div 2 |-> HexDigit[bs[2 * i - 1]] * HexRadix + HexDigit[bs[2 * i]]]

ParsePQ(bs) == BigEndian(IF IsHex(bs) THEN DecodeHex(bs) ELSE bs)

-----------------------------------------------------------------------------
(* FactorPQ                                                                *)

Divides(d, n) == n % d = 0

\* The greatest common divisor; that of 0 and n is n.
GCD(m, n) ==
  CHOOSE d \in 1 .. n :
    /\ Divides(d, m) /\ Divides(d, n)
    /\ \A e \in 1 .. n : Divides(e, m) /\ Divides(e, n) => e <= d

Distance(x, y) == IF x > y THEN x - y ELSE y - x

\* The variables before the loop.
RhoStart == [x |-> 2, y |-> 2, c |-> 1, d |-> 1]

\* Mutant: the trivial divisor pq ends the loop.
RhoRoundTrivial(pq, r) ==
  LET f(v) == (v * v + r.c) % pq
      x == f(r.x)
      y == f(f(r.y))
  IN  [x |-> x, y |-> y, c |-> r.c, d |-> GCD(Distance(x, y), pq)]

\* Mutant: it starts over with the same c.
RhoRoundSameC(pq, r) ==
  LET f(v) == (v * v + r.c) % pq
      x == f(r.x)
      y == f(f(r.y))
      d == GCD(Distance(x, y), pq)
  IN  IF d = pq THEN RhoStart
                ELSE [x |-> x, y |-> y, c |-> r.c, d |-> d]

\* One round; with the trivial divisor pq it starts over with the next c.
RhoRound(pq, r) ==
  LET f(v) == (v * v + r.c) % pq
      x == f(r.x)
      y == f(f(r.y))
      d == GCD(Distance(x, y), pq)
  IN  IF d = pq THEN [x |-> 2, y |-> 2, c |-> r.c + 1, d |-> 1]
                ELSE [x |-> x, y |-> y, c |-> r.c, d |-> d]

\* The loop is not entered, or is left.
RhoDone(pq, r) == pq % 2 = 0 \/ r.d # 1

\* What FactorPQ returns: an even number is split without the loop.
Factors(pq, r) ==
  IF pq % 2 = 0 THEN <<2, pq \div 2>>
  ELSE LET p == r.d
           q == pq \div r.d
       IN  IF p > q THEN <<q, p>> ELSE <<p, q>>

=============================================================================
