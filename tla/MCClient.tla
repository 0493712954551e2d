------------------------------ MODULE MCClient ------------------------------
(***************************************************************************)
(* Bytes of base 16, of which 8 to 11 are the hexadecimal digits, of base  *)
(* 4.  Of the products, 14 is even, 95 is not factored with c = 1, 221     *)
(* takes four rounds, 155 is text for the prime 7 and 187 is text for 15.  *)
(* 13 is a prime.  A damaged g_a reads as 7, an element of the group that  *)
(* no exponent here gives.                                                 *)
(***************************************************************************)
EXTENDS Client

CONSTANTS s1, s2

MCHexDigit == [b \in 8 .. 11 |-> b - 8]
MCNumbers ==
  [s \in Starts |-> IF s = s1 THEN {<<2, 7>>, <<5, 19>>, <<13, 17>>, <<5, 31>>, <<11, 17>>, <<1, 13>>}
                              ELSE {<<5, 7>>}]

=============================================================================
