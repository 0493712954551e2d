------------------------------ MODULE MCPacket ------------------------------
(***************************************************************************)
(* Words of two bits with the bitwise exclusive or, blocks of four words   *)
(* as in the code, and a permutation of them that is not linear.           *)
(***************************************************************************)
EXTENDS Packet

MCWord == 0 .. 3
MCBlock == [1 .. 4 -> MCWord]
Bits(a, b) == ((a + b) % 2) + 2 * ((a \div 2 + b \div 2) % 2)
MCXor(a, b) == [k \in 1 .. 4 |-> Bits(a[k], b[k])]
MCE == [a \in MCBlock |-> <<a[2], (a[3] + a[2] * a[4]) % 4, a[4], (a[1] + 1) % 4>>]
MCD == [b \in MCBlock |-> <<(b[4] + 3) % 4, b[1], (b[2] + 12 - b[1] * b[3]) % 4, b[3]>>]
MCIvC == <<1, 2, 3, 0>>
MCIvM == <<2, 0, 1, 1>>
MCFlip == <<0, 1, 0, 0>>
AllCases == {"enc", "dec"} \X {"apart", "inplace"}

\* A header of one of two sessions with any length, alone or before a block.
MCInners ==
  {<<2, 0, s, 0, 1, 3, 2, n>> \o tail :
     s \in {1, 2}, n \in MCWord, tail \in {<<>>} \cup {<<a, b, 0, b>> : a, b \in {0, 3}}}
MCPayloads == {<<>>} \cup [1 .. 1 -> {0, 2}] \cup [1 .. 2 -> {1, 3}]

=============================================================================
