-------------------------------- MODULE Ige --------------------------------
(***************************************************************************)
(* AES in IGE mode, crypto/aes.go: the loops of Encrypt and of Decrypt     *)
(* over blocks in memory.                                                  *)
(*                                                                         *)
(* The AES permutation and the exclusive or are parameters.  What matters  *)
(* is where the loops keep their state: cPrev, mPrev, mCurr and cCurr are  *)
(* slices, that is, places of memory which are read when they are used.    *)
(* If dst and src are the same slice they may have changed by then.        *)
(***************************************************************************)
EXTENDS Naturals

CONSTANTS
  Block,       \* the 16-byte blocks
  Xor(_, _),
  E,           \* block.Encrypt, a function on blocks
  D,           \* block.Decrypt
  IvC, IvM,    \* the halves of the initialisation vector
  N,           \* the number of blocks
  Cases        \* what is run: {"enc", "dec"} \X {"apart", "inplace"} or less

ASSUME BlockAssumption ==
  /\ IvC \in Block /\ IvM \in Block
  /\ \A a, b \in Block : Xor(a, b) \in Block /\ Xor(Xor(a, b), b) = a
ASSUME CipherAssumption ==
  /\ E \in [Block -> Block] /\ D \in [Block -> Block]
  /\ \A a \in Block : D[E[a]] = a /\ E[D[a]] = a
ASSUME LengthAssumption == N \in Nat
ASSUME CasesAssumption == Cases \subseteq ({"enc", "dec"} \X {"apart", "inplace"})

Index    == 0 .. N - 1
Buffers  == [Index -> Block]

VARIABLES
  plain,    \* history: the message
  cipher,   \* history: what IGE makes of it
  case,     \* which function is called, and whether dst is src
  mem,      \* the memory: src, and dst if it is another slice
  i,        \* the loop variable, in blocks
  cPrev,    \* a place of memory: <<"iv", 0>> or <<slice, block>>
  mPrev

igeVars == <<plain, cipher, case, mem, i, cPrev, mPrev>>

\* The formulas above Encrypt and Decrypt: what IGE is.
Before(s, j, iv) == IF j = 0 THEN iv ELSE s[j - 1]
IsIge(m, c) ==
  \A j \in Index : c[j] = Xor(E[Xor(m[j], Before(c, j, IvC))], Before(m, j, IvM))

Dst == IF case[2] = "inplace" THEN "src" ELSE "dst"

IgeInit ==
  /\ case \in Cases
  /\ plain \in Buffers /\ cipher \in Buffers /\ IsIge(plain, cipher)
  /\ \E junk \in Buffers :
       mem = [s \in {"src", "dst"} |->
                IF s = "dst" THEN junk ELSE IF case[1] = "enc" THEN plain ELSE cipher]
  /\ i = 0
  /\ cPrev = <<"iv", 0>> /\ mPrev = <<"iv", 0>>

\* Reading through a slice; the slices of the initialisation vector differ.
Read(place, iv) == IF place[1] = "iv" THEN iv ELSE mem[place[1]][place[2]]

Write(block) == mem' = [mem EXCEPT ![Dst][i] = block]

\* One round of Encrypt.
EncryptBlock ==
  /\ case[1] = "enc"
  /\ i < N
  /\ Write(Xor(E[Xor(mem["src"][i], Read(cPrev, IvC))], Read(mPrev, IvM)))
  /\ cPrev' = <<Dst, i>>
  /\ mPrev' = <<"src", i>>
  /\ i' = i + 1
  /\ UNCHANGED <<plain, cipher, case>>

\* Mutant: the previous places are taken the wrong way round.
DecryptBlockSwapped ==
  /\ case[1] = "dec"
  /\ i < N
  /\ Write(Xor(D[Xor(mem["src"][i], Read(mPrev, IvM))], Read(cPrev, IvC)))
  /\ mPrev' = <<"src", i>>
  /\ cPrev' = <<Dst, i>>
  /\ i' = i + 1
  /\ UNCHANGED <<plain, cipher, case>>

\* One round of Decrypt.
DecryptBlock ==
  /\ case[1] = "dec"
  /\ i < N
  /\ Write(Xor(D[Xor(mem["src"][i], Read(mPrev, IvM))], Read(cPrev, IvC)))
  /\ mPrev' = <<Dst, i>>
  /\ cPrev' = <<"src", i>>
  /\ i' = i + 1
  /\ UNCHANGED <<plain, cipher, case>>

IgeNext == EncryptBlock \/ DecryptBlock

IgeSpec == IgeInit /\ [][IgeNext]_igeVars

-----------------------------------------------------------------------------
(***************************************************************************)
(* Properties                                                              *)
(***************************************************************************)

Places == {<<"iv", 0>>} \cup ({"src", "dst"} \X Index)

IgeTypeOK ==
  /\ plain \in Buffers /\ cipher \in Buffers
  /\ case \in Cases
  /\ mem \in [{"src", "dst"} -> Buffers]
  /\ i \in 0 .. N
  /\ cPrev \in Places /\ mPrev \in Places

Expected == IF case[1] = "enc" THEN cipher ELSE plain

(***************************************************************************)
(* Between two different slices Encrypt computes IGE and Decrypt inverts   *)
(* it, block by block, and neither touches its source.                     *)
(***************************************************************************)
ApartIsIge ==
  case[2] = "apart" =>
    /\ \A j \in Index : j < i => mem["dst"][j] = Expected[j]
    /\ mem["src"] = IF case[1] = "enc" THEN plain ELSE cipher

=============================================================================
