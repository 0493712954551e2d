---------------------------- MODULE PacketProofs ----------------------------
(***************************************************************************)
(* Theorems about modules Ige and Packet: IGE between different slices is  *)
(* what the formulas say, UnpackEncrypted returns nothing but what the     *)
(* server packed, and it refuses no whole packet.                          *)
(*                                                                         *)
(* The message of a packet is the one sequence of blocks that IGE relates  *)
(* to its data: IGE maps equal beginnings to equal beginnings, both ways   *)
(* (SameCipher, SameMessage).  So if the decrypted words have the key of   *)
(* the packet, the data are those that the server made (OnlyWhole).        *)
(***************************************************************************)
EXTENDS Packet, NumberLemmas, TLAPS

\* The places the loop remembers are those of the block before.
PrevPlaces ==
  \/ /\ i = 0
     /\ cPrev = <<"iv", 0>> /\ mPrev = <<"iv", 0>>
  \/ /\ i > 0
     /\ case[2] = "apart"
     /\ IF case[1] = "enc"
          THEN cPrev = <<"dst", i - 1>> /\ mPrev = <<"src", i - 1>>
          ELSE cPrev = <<"src", i - 1>> /\ mPrev = <<"dst", i - 1>>

\* Whichever functions are called.
BuffersOK ==
  /\ plain \in Buffers /\ cipher \in Buffers
  /\ mem \in [{"src", "dst"} -> Buffers]
  /\ i \in 0 .. N
  /\ cPrev \in Places /\ mPrev \in Places

IgeInv ==
  /\ BuffersOK
  /\ IsIge(plain, cipher)
  /\ ApartIsIge
  /\ case[2] = "apart" => PrevPlaces

\* What cPrev and mPrev refer to: the previous blocks of ciphertext and message.
LEMMA ReadsPrevious ==
  ASSUME IgeInv, case[2] = "apart", i < N
  PROVE  /\ i \in Index
         /\ Read(cPrev, IvC) = Before(cipher, i, IvC) /\ Before(cipher, i, IvC) \in Block
         /\ Read(mPrev, IvM) = Before(plain, i, IvM) /\ Before(plain, i, IvM) \in Block
<1>1. i \in Index /\ i \in Nat
  BY LengthAssumption DEF IgeInv, BuffersOK, Index
<1>2. CASE i = 0
  BY <1>1, <1>2, BlockAssumption DEF IgeInv, PrevPlaces, Read, Before
<1>3. CASE i > 0
  <2>1. i - 1 \in Index /\ i - 1 < i
    BY <1>1, <1>3, LengthAssumption DEF Index
  <2>2. /\ mem["dst"][i - 1] = Expected[i - 1]
        /\ mem["src"] = IF case[1] = "enc" THEN plain ELSE cipher
    BY <2>1 DEF IgeInv, ApartIsIge
  <2>3. plain[i - 1] \in Block /\ cipher[i - 1] \in Block
    BY <2>1 DEF IgeInv, BuffersOK, Buffers
  <2>4. Read(cPrev, IvC) = cipher[i - 1] /\ Read(mPrev, IvM) = plain[i - 1]
    BY <1>3, <2>2 DEF IgeInv, PrevPlaces, Read, Expected
  <2>. QED
    BY <1>1, <1>3, <2>3, <2>4 DEF Before
<1>. QED
  BY <1>1, <1>2, <1>3

\* The block that a round writes between different slices is the right one.
LEMMA RoundIsRight ==
  ASSUME IgeInv, case[2] = "apart", IgeNext
  PROVE  /\ mem' = [mem EXCEPT !["dst"][i] = Expected[i]]
         /\ Expected[i] \in Block
<1> DEFINE c0 == Before(cipher, i, IvC)
           m0 == Before(plain, i, IvM)
<1>0. i < N
  BY DEF IgeNext, EncryptBlock, DecryptBlock
<1>1. /\ i \in Index /\ c0 \in Block /\ m0 \in Block
      /\ Read(cPrev, IvC) = c0 /\ Read(mPrev, IvM) = m0
  BY <1>0, ReadsPrevious
<1>2. plain[i] \in Block /\ cipher[i] \in Block
  BY <1>1 DEF IgeInv, BuffersOK, Buffers
<1>3. cipher[i] = Xor(E[Xor(plain[i], c0)], m0)
  BY <1>1 DEF IgeInv, IsIge
<1> HIDE DEF c0, m0
<1>4. CASE EncryptBlock
  <2>1. mem["src"] = plain
    BY <1>4 DEF IgeInv, ApartIsIge, EncryptBlock
  <2>. QED
    BY <1>1, <1>2, <1>3, <1>4, <2>1 DEF EncryptBlock, Write, Dst, Expected
<1>5. CASE DecryptBlock
  <2>1. mem["src"] = cipher
    BY <1>5 DEF IgeInv, ApartIsIge, DecryptBlock
  <2>2. Xor(plain[i], c0) \in Block /\ E[Xor(plain[i], c0)] \in Block
    BY <1>1, <1>2, BlockAssumption, CipherAssumption
  <2>3. Xor(cipher[i], m0) = E[Xor(plain[i], c0)]
    BY <1>1, <1>3, <2>2, BlockAssumption
  <2>4. D[Xor(cipher[i], m0)] = Xor(plain[i], c0)
    BY <2>2, <2>3, CipherAssumption
  <2>5. Xor(D[Xor(cipher[i], m0)], c0) = plain[i]
    BY <1>1, <1>2, <2>4, BlockAssumption
  <2>. QED
    BY <1>1, <1>2, <1>5, <2>1, <2>5 DEF DecryptBlock, Write, Dst, Expected
<1>. QED
  BY <1>4, <1>5 DEF IgeNext

\* Wherever the slices point to, blocks are read and a block is written.
LEMMA BuffersStep ==
  ASSUME BuffersOK, IgeNext
  PROVE  BuffersOK'
<1>1. i \in Index /\ i + 1 \in 0 .. N /\ Dst \in {"src", "dst"}
  BY LengthAssumption DEF BuffersOK, IgeNext, EncryptBlock, DecryptBlock, Index, Dst
<1>2. ASSUME NEW p \in Places, NEW iv \in Block PROVE Read(p, iv) \in Block
  BY <1>2 DEF BuffersOK, Places, Buffers, Read
<1>3. /\ Read(cPrev, IvC) \in Block /\ Read(mPrev, IvM) \in Block
      /\ mem["src"][i] \in Block
  BY <1>1, <1>2, BlockAssumption DEF BuffersOK, Buffers
<1>4. PICK b \in Block : mem' = [mem EXCEPT ![Dst][i] = b]
  <2>1. /\ Xor(E[Xor(mem["src"][i], Read(cPrev, IvC))], Read(mPrev, IvM)) \in Block
        /\ Xor(D[Xor(mem["src"][i], Read(mPrev, IvM))], Read(cPrev, IvC)) \in Block
    BY <1>3, BlockAssumption, CipherAssumption
  <2>. QED
    BY <2>1 DEF IgeNext, EncryptBlock, DecryptBlock, Write
<1>5. mem' \in [{"src", "dst"} -> Buffers]
  BY <1>1, <1>4 DEF BuffersOK, Buffers
<1>6. /\ <<Dst, i>> \in Places /\ <<"src", i>> \in Places
  BY <1>1 DEF Places
<1>. QED
  BY <1>1, <1>5, <1>6 DEF BuffersOK, IgeNext, EncryptBlock, DecryptBlock

\* Every round preserves the invariant.
LEMMA IgeStep ==
  ASSUME IgeInv, [IgeNext]_igeVars
  PROVE  IgeInv'
<1>1. CASE UNCHANGED igeVars
  BY <1>1 DEF igeVars, IgeInv, BuffersOK, IsIge, Before, ApartIsIge, Expected, PrevPlaces
<1>2. CASE IgeNext
  <2>1. BuffersOK'
    BY <1>2, BuffersStep DEF IgeInv
  <2>2. UNCHANGED <<plain, cipher, case>> /\ i' = i + 1 /\ i < N /\ i \in Nat /\ i \in Index
    BY <1>2, LengthAssumption DEF IgeNext, EncryptBlock, DecryptBlock, IgeInv, BuffersOK, Index
  <2>3. IsIge(plain, cipher)'
    BY <2>2 DEF IgeInv, IsIge, Before
  <2>4. ASSUME case[2] = "apart" PROVE ApartIsIge' /\ PrevPlaces'
    <3>1. mem' = [mem EXCEPT !["dst"][i] = Expected[i]]
      BY <1>2, <2>4, RoundIsRight
    <3>2. /\ mem'["src"] = mem["src"]
          /\ mem'["dst"][i] = Expected[i]
          /\ \A j \in Index : j # i => mem'["dst"][j] = mem["dst"][j]
      BY <3>1, <2>2 DEF IgeInv, BuffersOK, Buffers
    <3>3. \A j \in Index : j < i + 1 => j < i \/ j = i
      BY <2>2 DEF Index
    <3>4. ApartIsIge'
      BY <2>2, <2>4, <3>2, <3>3 DEF IgeInv, ApartIsIge, Expected
    <3>5. PrevPlaces'
      BY <1>2, <2>2, <2>4 DEF PrevPlaces, IgeNext, EncryptBlock, DecryptBlock, Dst
    <3>. QED
      BY <3>4, <3>5
  <2>5. ASSUME case[2] # "apart" PROVE ApartIsIge'
    BY <2>2, <2>5 DEF ApartIsIge
  <2>. QED
    BY <2>1, <2>2, <2>3, <2>4, <2>5 DEF IgeInv
<1>. QED
  BY <1>1, <1>2

\* Encrypt between different slices computes the documented formula, Decrypt
\* inverts it, and both leave their source alone: for every block cipher, every
\* initialisation vector and every number of blocks.
THEOREM ApartIsRight == IgeSpec => []ApartIsIge
<1>1. IgeInit => IgeInv
  <2> SUFFICES ASSUME IgeInit PROVE IgeInv
    OBVIOUS
  <2>1. BuffersOK
    BY LengthAssumption DEF IgeInit, BuffersOK, Places
  <2>2. ApartIsIge
    <3>1. i = 0 /\ mem["src"] = IF case[1] = "enc" THEN plain ELSE cipher
      BY DEF IgeInit
    <3>. QED
      BY <3>1 DEF ApartIsIge, Index
  <2>3. PrevPlaces
    BY DEF IgeInit, PrevPlaces
  <2>. QED
    BY <2>1, <2>2, <2>3 DEF IgeInv, IgeInit
<1>2. IgeInv /\ [IgeNext]_igeVars => IgeInv'
  BY IgeStep
<1>3. IgeInv => ApartIsIge
  BY DEF IgeInv
<1>. QED
  BY <1>1, <1>2, <1>3, PTL DEF IgeSpec

-----------------------------------------------------------------------------
(***************************************************************************)
(* IGE as a recursive function                                             *)
(***************************************************************************)

\* f is computed block by block, each from its place and the block before.
Chained(f, G, iv, n) ==
  \A j \in 0 .. n - 1 : f[j] = G[<<j, IF j = 0 THEN iv ELSE f[j - 1]>>]

LEMMA ChainExists ==
  ASSUME NEW G \in [Index \X Block -> Block], NEW iv \in Block
  PROVE  \E f \in [Index -> Block] : Chained(f, G, iv, N)
<1> DEFINE Part(n) == \E f \in [0 .. n - 1 -> Block] : Chained(f, G, iv, n)
           T == {n \in 0 .. N : ~Part(n)}
<1>0. N \in Nat
  BY LengthAssumption
<1>1. SUFFICES ASSUME T # {} PROVE FALSE
  <2>1. N \in 0 .. N
    BY <1>0
  <2>2. Part(N)
    BY <1>1, <2>1
  <2>. QED
    BY <2>2 DEF Index
<1>2. PICK n \in T : \A y \in T : n <= y
  <2>1. T \in SUBSET Nat
    BY <1>0
  <2>. QED
    BY <1>1, <2>1, LeastNumber
<1>3. n \in Nat /\ n <= N
  BY <1>0
<1>4. n # 0
  <2>1. [j \in 0 .. 0 - 1 |-> iv] \in [0 .. 0 - 1 -> Block] /\ Chained([j \in 0 .. 0 - 1 |-> iv], G, iv, 0)
    BY DEF Chained
  <2>2. Part(0)
    BY <2>1
  <2>. QED
    BY <2>2
<1>5. PICK f \in [0 .. (n - 1) - 1 -> Block] : Chained(f, G, iv, n - 1)
  <2>1. n - 1 \in 0 .. N /\ ~(n <= n - 1)
    BY <1>0, <1>3, <1>4
  <2>2. Part(n - 1)
    BY <1>2, <2>1
  <2>. QED
    BY <2>2
<1> DEFINE b == G[<<n - 1, IF n - 1 = 0 THEN iv ELSE f[(n - 1) - 1]>>]
           g == [j \in 0 .. n - 1 |-> IF j = n - 1 THEN b ELSE f[j]]
<1>6. b \in Block
  <2>1. n - 1 \in Index
    BY <1>0, <1>3, <1>4 DEF Index
  <2>2. (IF n - 1 = 0 THEN iv ELSE f[(n - 1) - 1]) \in Block
    BY <1>3, <1>4
  <2>. QED
    BY <2>1, <2>2
<1>7. g \in [0 .. n - 1 -> Block]
  BY <1>3, <1>4, <1>6
<1>8. ASSUME NEW j \in 0 .. n - 1 PROVE g[j] = G[<<j, IF j = 0 THEN iv ELSE g[j - 1]>>]
  <2>1. CASE j = n - 1
    <3>1. j # 0 => j - 1 \in 0 .. n - 1 /\ j - 1 # n - 1
      BY <1>3, <1>4, <2>1
    <3>2. j # 0 => g[j - 1] = f[j - 1]
      BY <3>1
    <3>. QED
      BY <2>1, <3>2
  <2>2. CASE j # n - 1
    <3>1. j \in 0 .. (n - 1) - 1 /\ (j # 0 => j - 1 \in 0 .. n - 1 /\ j - 1 # n - 1)
      BY <1>3, <1>4, <2>2
    <3>2. f[j] = G[<<j, IF j = 0 THEN iv ELSE f[j - 1]>>]
      BY <1>5, <3>1 DEF Chained
    <3>3. g[j] = f[j] /\ (j # 0 => g[j - 1] = f[j - 1])
      BY <2>2, <3>1
    <3>. QED
      BY <3>2, <3>3
  <2>. QED
    BY <2>1, <2>2
<1>9. Part(n)
  BY <1>7, <1>8 DEF Chained
<1>. QED
  BY <1>2, <1>9

\* What is to be proved of a function that a recursive definition chooses.
LEMMA SealIs ==
  ASSUME NEW m \in Buffers, NEW a \in Block, NEW b \in Block
  PROVE  /\ Seal(m, a, b) \in Buffers
         /\ \A j \in Index :
              Seal(m, a, b)[j] = Xor(E[Xor(m[j], Before(Seal(m, a, b), j, a))], Before(m, j, b))
<1> DEFINE G == [x \in Index \X Block |-> Xor(E[Xor(m[x[1]], x[2])], Before(m, x[1], b))]
           H(c) == [j \in Index |-> Xor(E[Xor(m[j], IF j = 0 THEN a ELSE c[j - 1])], Before(m, j, b))]
<1>0. N \in Nat /\ \A j \in Index : j \in 0 .. N - 1 /\ (j # 0 => j - 1 \in Index)
  BY LengthAssumption DEF Index
<1>1. \A j \in Index : m[j] \in Block /\ Before(m, j, b) \in Block
  BY <1>0 DEF Buffers, Before
<1>2. G \in [Index \X Block -> Block]
  BY <1>1, BlockAssumption, CipherAssumption
<1>3. PICK f \in [Index -> Block] : Chained(f, G, a, N)
  BY <1>2, ChainExists
<1>4. f = H(f)
  <2> SUFFICES ASSUME NEW j \in Index
               PROVE  f[j] = Xor(E[Xor(m[j], IF j = 0 THEN a ELSE f[j - 1])], Before(m, j, b))
    OBVIOUS
  <2>1. f[j] = G[<<j, IF j = 0 THEN a ELSE f[j - 1]>>]
    BY <1>0, <1>3 DEF Chained
  <2>2. (IF j = 0 THEN a ELSE f[j - 1]) \in Block
    BY <1>0
  <2>. QED
    BY <2>1, <2>2
<1>5. Seal(m, a, b) = H(Seal(m, a, b))
  <2>1. Seal(m, a, b) = CHOOSE c : c = H(c)
    BY DEF Seal
  <2>. QED
    BY <1>4, <2>1
<1> DEFINE c == Seal(m, a, b)
           T == {j \in Index : c[j] \notin Block}
<1>6. \A j \in Index : c[j] = Xor(E[Xor(m[j], IF j = 0 THEN a ELSE c[j - 1])], Before(m, j, b))
  BY <1>5
<1> HIDE DEF c
<1>7. T = {}
  <2> SUFFICES ASSUME T # {} PROVE FALSE
    OBVIOUS
  <2>1. T \in SUBSET Nat
    BY <1>0
  <2>2. PICK k \in T : \A y \in T : k <= y
    BY <2>1, LeastNumber
  <2>3. k # 0 => c[k - 1] \in Block
    <3>1. k # 0 => k - 1 \in Index /\ ~(k <= k - 1)
      BY <1>0
    <3>. QED
      BY <2>2, <3>1
  <2>4. c[k] \in Block
    BY <1>1, <1>6, <2>3, BlockAssumption, CipherAssumption
  <2>. QED
    BY <2>4
<1>8. c \in Buffers
  BY <1>5, <1>7 DEF Buffers, c
<1>. QED
  BY <1>6, <1>8 DEF Before, c

LEMMA OpenIs ==
  ASSUME NEW c \in Buffers, NEW a \in Block, NEW b \in Block
  PROVE  /\ Open(c, a, b) \in Buffers
         /\ \A j \in Index :
              Open(c, a, b)[j] = Xor(D[Xor(c[j], Before(Open(c, a, b), j, b))], Before(c, j, a))
<1> DEFINE G == [x \in Index \X Block |-> Xor(D[Xor(c[x[1]], x[2])], Before(c, x[1], a))]
           H(o) == [j \in Index |-> Xor(D[Xor(c[j], IF j = 0 THEN b ELSE o[j - 1])], Before(c, j, a))]
<1>0. N \in Nat /\ \A j \in Index : j \in 0 .. N - 1 /\ (j # 0 => j - 1 \in Index)
  BY LengthAssumption DEF Index
<1>1. \A j \in Index : c[j] \in Block /\ Before(c, j, a) \in Block
  BY <1>0 DEF Buffers, Before
<1>2. G \in [Index \X Block -> Block]
  BY <1>1, BlockAssumption, CipherAssumption
<1>3. PICK f \in [Index -> Block] : Chained(f, G, b, N)
  BY <1>2, ChainExists
<1>4. f = H(f)
  <2> SUFFICES ASSUME NEW j \in Index
               PROVE  f[j] = Xor(D[Xor(c[j], IF j = 0 THEN b ELSE f[j - 1])], Before(c, j, a))
    OBVIOUS
  <2>1. f[j] = G[<<j, IF j = 0 THEN b ELSE f[j - 1]>>]
    BY <1>0, <1>3 DEF Chained
  <2>2. (IF j = 0 THEN b ELSE f[j - 1]) \in Block
    BY <1>0
  <2>. QED
    BY <2>1, <2>2
<1>5. Open(c, a, b) = H(Open(c, a, b))
  <2>1. Open(c, a, b) = CHOOSE o : o = H(o)
    BY DEF Open
  <2>. QED
    BY <1>4, <2>1
<1> DEFINE o == Open(c, a, b)
           T == {j \in Index : o[j] \notin Block}
<1>6. \A j \in Index : o[j] = Xor(D[Xor(c[j], IF j = 0 THEN b ELSE o[j - 1])], Before(c, j, a))
  BY <1>5
<1> HIDE DEF o
<1>7. T = {}
  <2> SUFFICES ASSUME T # {} PROVE FALSE
    OBVIOUS
  <2>1. T \in SUBSET Nat
    BY <1>0
  <2>2. PICK k \in T : \A y \in T : k <= y
    BY <2>1, LeastNumber
  <2>3. k # 0 => o[k - 1] \in Block
    <3>1. k # 0 => k - 1 \in Index /\ ~(k <= k - 1)
      BY <1>0
    <3>. QED
      BY <2>2, <3>1
  <2>4. o[k] \in Block
    BY <1>1, <1>6, <2>3, BlockAssumption, CipherAssumption
  <2>. QED
    BY <2>4
<1>8. o \in Buffers
  BY <1>5, <1>7 DEF Buffers, o
<1>. QED
  BY <1>6, <1>8 DEF Before, o

\* Decryption inverts the formula of encryption.
LEMMA OpenedIsIge ==
  ASSUME NEW c \in Buffers
  PROVE  Open(c, IvC, IvM) \in Buffers /\ IsIge(Open(c, IvC, IvM), c)
<1>1. PICK m \in Buffers :
        /\ m = Open(c, IvC, IvM)
        /\ \A j \in Index : m[j] = Xor(D[Xor(c[j], Before(m, j, IvM))], Before(c, j, IvC))
  BY OpenIs, BlockAssumption
<1>2. ASSUME NEW j \in Index
      PROVE  c[j] = Xor(E[Xor(m[j], Before(c, j, IvC))], Before(m, j, IvM))
  <2>1. PICK mp \in Block, cp \in Block : mp = Before(m, j, IvM) /\ cp = Before(c, j, IvC)
    BY LengthAssumption, BlockAssumption DEF Index, Buffers, Before
  <2>2. c[j] \in Block /\ Xor(c[j], mp) \in Block /\ D[Xor(c[j], mp)] \in Block
    BY BlockAssumption, CipherAssumption DEF Buffers
  <2>3. Xor(m[j], cp) = D[Xor(c[j], mp)]
    BY <1>1, <2>1, <2>2, BlockAssumption
  <2>4. E[Xor(m[j], cp)] = Xor(c[j], mp)
    BY <2>2, <2>3, CipherAssumption
  <2>. QED
    BY <2>1, <2>2, <2>4, BlockAssumption
<1>. QED
  BY <1>1, <1>2 DEF IsIge

LEMMA SealedIsIge ==
  ASSUME NEW m \in Buffers
  PROVE  Seal(m, IvC, IvM) \in Buffers /\ IsIge(m, Seal(m, IvC, IvM))
BY SealIs, BlockAssumption DEF IsIge

\* Equal messages have equal ciphertexts, and the other way round, up to any
\* block.
LEMMA SameCipher ==
  ASSUME NEW m1 \in Buffers, NEW c1 \in Buffers, IsIge(m1, c1),
         NEW m2 \in Buffers, NEW c2 \in Buffers, IsIge(m2, c2),
         NEW n \in 0 .. N, \A j \in 0 .. n - 1 : m1[j] = m2[j]
  PROVE  \A j \in 0 .. n - 1 : c1[j] = c2[j]
<1> DEFINE T == {j \in 0 .. n - 1 : c1[j] # c2[j]}
<1>1. SUFFICES ASSUME T # {} PROVE FALSE
  BY <1>1
<1>2. PICK k \in T : \A y \in T : k <= y
  <2>1. T \in SUBSET Nat
    BY LengthAssumption
  <2>. QED
    BY <1>1, <2>1, LeastNumber
<1>3. k \in Index /\ k \in Nat /\ (k # 0 => k - 1 \in 0 .. n - 1 /\ ~(k <= k - 1))
  BY LengthAssumption DEF Index
<1>4. k # 0 => c1[k - 1] = c2[k - 1] /\ m1[k - 1] = m2[k - 1]
  BY <1>2, <1>3
<1>5. Before(c1, k, IvC) = Before(c2, k, IvC) /\ Before(m1, k, IvM) = Before(m2, k, IvM)
  BY <1>4 DEF Before
<1>6. c1[k] = c2[k]
  BY <1>3, <1>5 DEF IsIge
<1>. QED
  BY <1>2, <1>6

LEMMA SameMessage ==
  ASSUME NEW m1 \in Buffers, NEW c1 \in Buffers, IsIge(m1, c1),
         NEW m2 \in Buffers, NEW c2 \in Buffers, IsIge(m2, c2),
         NEW n \in 0 .. N, \A j \in 0 .. n - 1 : c1[j] = c2[j]
  PROVE  \A j \in 0 .. n - 1 : m1[j] = m2[j]
<1> DEFINE T == {j \in 0 .. n - 1 : m1[j] # m2[j]}
<1>1. SUFFICES ASSUME T # {} PROVE FALSE
  BY <1>1
<1>2. PICK k \in T : \A y \in T : k <= y
  <2>1. T \in SUBSET Nat
    BY LengthAssumption
  <2>. QED
    BY <1>1, <2>1, LeastNumber
<1>3. k \in Index /\ k \in Nat /\ (k # 0 => k - 1 \in Index /\ k - 1 \in 0 .. n - 1 /\ ~(k <= k - 1))
  BY LengthAssumption DEF Index
<1>4. k # 0 => c1[k - 1] = c2[k - 1] /\ m1[k - 1] = m2[k - 1]
  BY <1>2, <1>3
<1>5. PICK cp \in Block, mp \in Block :
        /\ cp = Before(c1, k, IvC) /\ cp = Before(c2, k, IvC)
        /\ mp = Before(m1, k, IvM) /\ mp = Before(m2, k, IvM)
  BY <1>3, <1>4, BlockAssumption DEF Before, Buffers
<1>6. ASSUME NEW m \in Buffers, NEW c \in Buffers, IsIge(m, c),
             cp = Before(c, k, IvC), mp = Before(m, k, IvM)
      PROVE  m[k] = Xor(D[Xor(c[k], mp)], cp)
  <2>1. c[k] = Xor(E[Xor(m[k], cp)], mp) /\ m[k] \in Block
    BY <1>3, <1>6 DEF IsIge, Buffers
  <2>2. Xor(m[k], cp) \in Block /\ E[Xor(m[k], cp)] \in Block
    BY <2>1, BlockAssumption, CipherAssumption
  <2>3. Xor(c[k], mp) = E[Xor(m[k], cp)]
    BY <2>1, <2>2, BlockAssumption
  <2>4. D[Xor(c[k], mp)] = Xor(m[k], cp)
    BY <2>2, <2>3, CipherAssumption
  <2>. QED
    BY <2>1, <2>4, BlockAssumption
<1>7. m1[k] = m2[k]
  <2>1. m1[k] = Xor(D[Xor(c1[k], mp)], cp) /\ m2[k] = Xor(D[Xor(c2[k], mp)], cp)
    BY <1>5, <1>6
  <2>. QED
    BY <2>1
<1>. QED
  BY <1>2, <1>7

-----------------------------------------------------------------------------
(***************************************************************************)
(* Words and blocks                                                        *)
(***************************************************************************)

\* What the server packs is a number of blocks.
LEMMA InnerIs ==
  ASSUME NEW ws \in Inners
  PROVE  \E q \in Nat : /\ q = Len(ws) \div BlockLen /\ Len(ws) = q * BlockLen /\ q <= N /\ q >= 2
                        /\ ws \in Seq(Word) /\ Len(ws) >= HeaderLen
<1> DEFINE B == BlockLen
<1>0. /\ B \in Nat /\ B > 0 /\ HeaderLen \in Nat /\ HeaderLen >= 2 * B /\ N \in Nat
      /\ ws \in Seq(Word) /\ Len(ws) % B = 0 /\ Len(ws) >= HeaderLen /\ Len(ws) <= N * B
      /\ Len(ws) \in Nat
  BY WordAssumption, LengthAssumption
<1> HIDE DEF B
<1>1. PICK q \in Nat : q = Len(ws) \div B /\ Len(ws) = q * B
  <2>1. Len(ws) \div B \in Nat /\ Len(ws) = ((Len(ws) \div B) * B) + (Len(ws) % B)
    BY <1>0, Quotient
  <2>2. PICK q \in Nat : q = Len(ws) \div B /\ Len(ws) = (q * B) + (Len(ws) % B)
    BY <2>1, Zenon
  <2>3. Len(ws) = (q * B) + 0 /\ q * B \in Nat
    BY <1>0, <2>2
  <2>4. Len(ws) = q * B
    BY <2>3
  <2>. QED
    BY <2>2, <2>4, Zenon
<1>2. q <= N
  <2>1. N < q => N * B + B <= q * B /\ N * B \in Nat
    BY <1>0, Products
  <2>. QED
    BY <1>0, <1>1, <2>1
<1>3. q >= 2
  <2>1. q * B >= 2 * B
    BY <1>0, <1>1
  <2>2. q < 2 => q * B + B <= 2 * B
    BY <1>0, Products, 2 \in Nat
  <2>. QED
    BY <1>0, <2>1, <2>2
<1>. QED
  BY <1>0, <1>1, <1>2, <1>3 DEF B

LEMMA BlocksAre ==
  ASSUME NEW ws \in Seq(Word), NEW q \in Nat, Len(ws) = q * BlockLen
  PROVE  /\ Blocks(ws) \in Buffers
         /\ \A j \in 0 .. q - 1 : j \in Index => Blocks(ws)[j] = [k \in 1 .. BlockLen |-> ws[j * BlockLen + k]]
<1> DEFINE B == BlockLen
<1>0. B \in Nat /\ B > 0 /\ N \in Nat /\ Block = [1 .. B -> Word] /\ Zero \in Block /\ Len(ws) = q * B
  BY WordAssumption, LengthAssumption DEF Zero
<1>1. ASSUME NEW j \in Index
      PROVE  /\ j * B < Len(ws) <=> j < q
             /\ j < q => [k \in 1 .. B |-> ws[j * B + k]] \in Block
  <2>1. j \in Nat
    BY <1>0 DEF Index
  <2>2. j * B \in Nat /\ (j < q => j * B + B <= Len(ws)) /\ (j * B < Len(ws) => j < q)
    BY <1>0, <2>1, Products
  <2>3. j < q => \A k \in 1 .. B : j * B + k \in 1 .. Len(ws)
    BY <1>0, <2>2
  <2>4. j < q => \A k \in 1 .. B : ws[j * B + k] \in Word
    BY <2>3
  <2>. QED
    BY <1>0, <2>1, <2>2, <2>4
<1>2. Blocks(ws) = [j \in Index |-> IF j < q THEN [k \in 1 .. B |-> ws[j * B + k]] ELSE Zero]
  BY <1>1 DEF Blocks
<1>3. Blocks(ws) \in Buffers
  BY <1>0, <1>1, <1>2 DEF Buffers
<1>4. \A j \in 0 .. q - 1 : j < q
  OBVIOUS
<1>. QED
  BY <1>2, <1>3, <1>4

\* Words and Blocks are inverse to each other.
LEMMA WordsAre ==
  ASSUME NEW buf \in Buffers, NEW q \in Nat, q <= N, NEW ws \in Seq(Word), Len(ws) = q * BlockLen
  PROVE  Words(buf, q) = ws <=> \A j \in 0 .. q - 1 : buf[j] = Blocks(ws)[j]
<1> DEFINE B == BlockLen
<1>0. B \in Nat /\ B > 0 /\ N \in Nat /\ Block = [1 .. B -> Word] /\ Len(ws) = q * B /\ q * B \in Nat
  BY WordAssumption, LengthAssumption
<1>1. \A j \in 0 .. q - 1 : j \in Index /\ j \in Nat /\ Blocks(ws)[j] = [k \in 1 .. B |-> ws[j * B + k]]
  <2>1. \A j \in 0 .. q - 1 : j \in Index /\ j \in Nat
    BY <1>0 DEF Index
  <2>. QED
    BY <2>1, BlocksAre
<1>2. Words(buf, q) = [w \in 1 .. q * B |-> buf[(w - 1) \div B][((w - 1) % B) + 1]]
  BY DEF Words
<1> HIDE DEF B
<1>3. ASSUME \A j \in 0 .. q - 1 : buf[j] = Blocks(ws)[j] PROVE Words(buf, q) = ws
  <2>1. ASSUME NEW w \in 1 .. q * B PROVE buf[(w - 1) \div B][((w - 1) % B) + 1] = ws[w]
    <3>1. PICK j \in Nat, r \in 0 .. B - 1 :
             j = (w - 1) \div B /\ r = (w - 1) % B /\ w - 1 = j * B + r
      <4>1. w - 1 \in Nat
        BY <1>0
      <4>. QED
        BY <1>0, <4>1, Quotient
    <3>2. j * B \in Nat /\ j * B < q * B
      BY <1>0, <3>1, Products
    <3>3. j \in 0 .. q - 1
      <4>1. j < q
        BY <1>0, <3>2, Products
      <4>. QED
        BY <4>1
    <3>4. buf[j] = [k \in 1 .. B |-> ws[j * B + k]]
      BY <1>1, <1>3, <3>3
    <3>5. r + 1 \in 1 .. B /\ j * B + (r + 1) = w
      BY <1>0, <3>1, <3>2
    <3>. QED
      BY <3>1, <3>4, <3>5
  <2>2. ws = [w \in 1 .. q * B |-> ws[w]]
    BY <1>0
  <2>. QED
    BY <1>2, <2>1, <2>2
<1>4. ASSUME Words(buf, q) = ws, NEW j \in 0 .. q - 1 PROVE buf[j] = Blocks(ws)[j]
  <2>1. buf[j] \in [1 .. B -> Word] /\ j \in Nat
    BY <1>0, <1>1 DEF Buffers
  <2>2. ASSUME NEW k \in 1 .. B PROVE buf[j][k] = ws[j * B + k]
    <3>1. j * B \in Nat /\ j * B + B <= q * B
      BY <1>0, <2>1, Products
    <3>2. PICK w \in 1 .. q * B : w = j * B + k
      BY <1>0, <3>1
    <3>3. PICK v \in Nat, r \in 0 .. B - 1 : v = w - 1 /\ r = k - 1 /\ v = j * B + r
      BY <1>0, <3>1, <3>2
    <3>4. (w - 1) \div B = j /\ (w - 1) % B = k - 1
      <4>1. v \div B = j /\ v % B = r
        <5>1. v = j * B + r /\ B > 0 /\ B \in Nat /\ j \in Nat /\ v \in Nat /\ r \in 0 .. B - 1
          BY <1>0, <2>1, <3>3
        <5>2. \A x \in Nat : \A y \in 0 .. B - 1 : \A z \in Nat :
                z = x * B + y => z \div B = x /\ z % B = y
          BY <1>0, QuotientIs
        <5>. QED
          BY <5>1, <5>2, Zenon
      <4>. QED
        BY <3>3, <4>1
    <3>5. (k - 1) + 1 = k
      BY <1>0
    <3>6. ws[w] = buf[j][k]
      BY <1>2, <1>4, <3>4, <3>5
    <3>. QED
      BY <3>2, <3>6
  <2>3. Blocks(ws)[j] = [k \in 1 .. B |-> ws[j * B + k]]
    BY <1>1
  <2>. QED
    BY <2>1, <2>2, <2>3
<1>. QED
  BY <1>3, <1>4

-----------------------------------------------------------------------------
(***************************************************************************)
(* What arrives                                                            *)
(***************************************************************************)

Packets(k, c, q) == [keyID |-> "ours", msgKey |-> k, odd |-> FALSE, data |-> c, blocks |-> q]

\* A packet as its sender made it.
LEMMA MadeIs ==
  ASSUME NEW role \in {"server", "client"}, NEW inner \in Inners
  PROVE  \E q \in Nat, c \in Buffers :
           /\ q = Len(inner) \div BlockLen /\ Len(inner) = q * BlockLen /\ q <= N /\ q >= 2
           /\ inner \in Seq(Word) /\ Len(inner) >= HeaderLen
           /\ Blocks(inner) \in Buffers
           /\ Made(role, inner) = Packets(<<role, inner>>, c, q)
           /\ role = "server" => c = Seal(Blocks(inner), IvC, IvM) /\ IsIge(Blocks(inner), c)
<1>1. PICK q \in Nat : /\ q = Len(inner) \div BlockLen /\ Len(inner) = q * BlockLen /\ q <= N /\ q >= 2
                       /\ inner \in Seq(Word) /\ Len(inner) >= HeaderLen
  BY InnerIs
<1>2. Blocks(inner) \in Buffers
  BY <1>1, BlocksAre
<1> DEFINE c == IF role = "server" THEN Seal(Blocks(inner), IvC, IvM) ELSE Seal(Blocks(inner), IvM, IvC)
<1>3. c \in Buffers /\ (role = "server" => IsIge(Blocks(inner), c))
  BY <1>2, SealIs, SealedIsIge, BlockAssumption
<1>4. KDF(role, <<role, inner>>) = KDF("server", <<role, inner>>) <=> role = "server"
  BY DEF KDF
<1>5. Made(role, inner) = Packets(<<role, inner>>, c, q)
  BY <1>1, <1>4 DEF Made, ComputeMsgKey, Packets
<1>. QED
  BY <1>1, <1>2, <1>3, <1>5

\* What damage makes of a packet with key k, data c and q blocks.
DamagedFrom(p, k, c, q) ==
  \/ p = Packets(k, c, q)
  \/ p.keyID # "ours"
  \/ p.odd
  \/ p.blocks = q /\ \E j \in 0 .. q - 1 : p.data[j] = Xor(c[j], Flip)
  \/ p.blocks = q /\ p.data[0] = c[1] /\ p.data[1] = c[0] /\ (c[0] = c[1] => p = Packets(k, c, q))
  \/ p.blocks < q

LEMMA DamagedIs ==
  ASSUME NEW k, NEW c \in Buffers, NEW q \in Nat, q <= N, q >= 2,
         NEW p \in Damaged(Packets(k, c, q))
  PROVE  p.msgKey = k /\ p.data \in Buffers /\ p.blocks \in 0 .. N /\ DamagedFrom(p, k, c, q)
<1> DEFINE P == Packets(k, c, q)
<1>0. /\ P.keyID = "ours" /\ P.msgKey = k /\ P.odd = FALSE /\ P.data = c /\ P.blocks = q
      /\ q \in 0 .. N /\ N \in Nat
      /\ 0 \in Index /\ 1 \in Index /\ \A j \in 0 .. q - 1 : j \in Index
  BY LengthAssumption DEF Packets, Index
<1>1. CASE p = P
  BY <1>0, <1>1 DEF DamagedFrom
<1>2. CASE p = [P EXCEPT !.keyID = "other"]
  BY <1>0, <1>2 DEF Packets, DamagedFrom
<1>3. CASE p = [P EXCEPT !.odd = TRUE]
  BY <1>0, <1>3 DEF Packets, DamagedFrom
<1>4. ASSUME NEW j \in 0 .. q - 1, p = [P EXCEPT !.data[j] = Xor(@, Flip)]
      PROVE  /\ p.msgKey = k /\ p.data \in Buffers /\ p.blocks = q
             /\ p.data[j] = Xor(c[j], Flip)
  <2>1. p.msgKey = k /\ p.blocks = q /\ p.data = [c EXCEPT ![j] = Xor(c[j], Flip)]
    BY <1>0, <1>4 DEF Packets
  <2>2. j \in Index /\ Xor(c[j], Flip) \in Block
    BY <1>0, BlockAssumption, WordAssumption DEF Buffers
  <2>. QED
    BY <2>1, <2>2 DEF Buffers
<1>5. CASE p = [P EXCEPT !.data[0] = P.data[1], !.data[1] = P.data[0]]
  <2> DEFINE d == [c EXCEPT ![0] = c[1], ![1] = c[0]]
  <2>1. p = Packets(k, d, q) /\ p.keyID = "ours" /\ p.msgKey = k /\ p.data = d /\ p.blocks = q
    BY <1>0, <1>5 DEF Packets
  <2>2. d \in Buffers /\ d[0] = c[1] /\ d[1] = c[0]
    BY <1>0 DEF Buffers
  <2>3. c[0] = c[1] => d = c
    BY <1>0 DEF Buffers
  <2>. QED
    BY <1>0, <2>1, <2>2, <2>3 DEF DamagedFrom
<1>6. ASSUME NEW b \in 0 .. q - 1, p = [P EXCEPT !.blocks = b]
      PROVE  p.msgKey = k /\ p.data \in Buffers /\ p.blocks \in 0 .. N /\ p.blocks < q
  <2>1. b \in 0 .. N /\ b < q
    BY <1>0
  <2>2. p.msgKey = k /\ p.data = c /\ p.blocks = b
    BY <1>0, <1>6 DEF Packets
  <2>. QED
    BY <2>1, <2>2
<1>7. \/ p = P \/ p = [P EXCEPT !.keyID = "other"] \/ p = [P EXCEPT !.odd = TRUE]
      \/ \E j \in 0 .. q - 1 : p = [P EXCEPT !.data[j] = Xor(@, Flip)]
      \/ p = [P EXCEPT !.data[0] = P.data[1], !.data[1] = P.data[0]]
      \/ \E b \in 0 .. q - 1 : p = [P EXCEPT !.blocks = b]
  BY <1>0 DEF Damaged
<1> HIDE DEF P
<1>. QED
  BY <1>0, <1>1, <1>2, <1>3, <1>4, <1>5, <1>6, <1>7 DEF P, DamagedFrom

\* A packet under the key of another message.
LEMMA MixedIs ==
  ASSUME NEW role, NEW inner, NEW c, NEW q, NEW x, NEW P, NEW p,
         P = Packets(<<role, inner>>, c, q), p = Mixed(P, x), p # P
  PROVE  p.msgKey = <<"server", x>> /\ p.data = Seal(Blocks(inner), IvM, IvC) /\ p.blocks = q
<1>1. P.msgKey = <<role, inner>>
  BY DEF Packets
<1>2. P.msgKey[2] = inner
  BY <1>1
<1>3. PICK k, d : k = <<"server", x>> /\ d = Seal(Blocks(inner), IvM, IvC)
  OBVIOUS
<1>4. p = [P EXCEPT !.msgKey = k, !.data = d]
  BY <1>2, <1>3 DEF Mixed, ComputeMsgKey
<1>5. p.msgKey = k /\ p.data = d /\ p.blocks = q
  BY <1>4 DEF Packets
<1>. QED
  BY <1>3, <1>5

\* Equal blocks have equal words.
LEMMA WordsSame ==
  ASSUME NEW m1, NEW m2, NEW n \in Nat, \A j \in 0 .. n - 1 : m1[j] = m2[j]
  PROVE  Words(m1, n) = Words(m2, n)
<1> DEFINE B == BlockLen
<1>0. B \in Nat /\ B > 0 /\ n * B \in Nat
  BY WordAssumption
<1> HIDE DEF B
<1>1. ASSUME NEW w \in 1 .. n * B PROVE m1[(w - 1) \div B] = m2[(w - 1) \div B]
  <2>1. PICK j \in Nat, r \in 0 .. B - 1 : j = (w - 1) \div B /\ r = (w - 1) % B /\ w - 1 = j * B + r
    <3>1. w - 1 \in Nat
      BY <1>0
    <3>. QED
      BY <1>0, <3>1, Quotient
  <2>2. j * B \in Nat /\ j * B < n * B
    BY <1>0, <2>1, Products
  <2>3. j < n
    BY <1>0, <2>2, Products
  <2>4. j \in 0 .. n - 1
    BY <2>3
  <2>. QED
    BY <2>1, <2>4
<1>. QED
  BY <1>1 DEF Words, B

\* Whatever the words are, their number is that of the blocks.
LEMMA WordsLen ==
  ASSUME NEW m \in Buffers, NEW b \in 0 .. N, NEW ws \in Seq(Word), NEW q \in Nat,
         Len(ws) = q * BlockLen, Words(m, b) = ws
  PROVE  b = q
<1>0. BlockLen \in Nat /\ BlockLen > 0 /\ N \in Nat /\ b \in Nat
  BY WordAssumption, LengthAssumption
<1>1. b * BlockLen \in Nat /\ q * BlockLen \in Nat
  BY <1>0
<1>2. DOMAIN Words(m, b) = 1 .. b * BlockLen
  BY DEF Words
<1>3. DOMAIN ws = 1 .. q * BlockLen
  OBVIOUS
<1>4. b * BlockLen = q * BlockLen
  BY <1>1, <1>2, <1>3
<1>5. ~(b < q) /\ ~(q < b)
  <2>1. /\ b < q => b * BlockLen + BlockLen <= q * BlockLen
        /\ q < b => q * BlockLen + BlockLen <= b * BlockLen
    BY <1>0, Products
  <2>. QED
    BY <1>0, <1>1, <1>4, <2>1
<1>. QED
  BY <1>0, <1>5

LEMMA FlipDiffers ==
  ASSUME NEW a \in Block
  PROVE  Xor(a, Flip) # a
<1>1. Flip \in Block /\ Flip # Zero
  BY WordAssumption
<1>2. Xor(a, Flip) = Xor(Flip, a) /\ Xor(a, a) = Zero
  BY <1>1, XorAssumption
<1>3. Xor(Xor(Flip, a), a) = Flip
  BY <1>1, BlockAssumption
<1>. QED
  BY <1>1, <1>2, <1>3

\* A packet that has the key of its decrypted words is the one the server made.
LEMMA OnlyWhole ==
  ASSUME NEW role \in {"server", "client"}, NEW inner \in Inners,
         NEW p \in Received(role, inner), NEW m \in Buffers, IsIge(m, p.data),
         OuterError(p) = "none",
         p.msgKey = ComputeMsgKey("server", Words(m, p.blocks))
  PROVE  role = "server" /\ p = Made("server", inner) /\ Words(m, p.blocks) = inner
<1>1. PICK q \in Nat, c \in Buffers :
           /\ q = Len(inner) \div BlockLen /\ Len(inner) = q * BlockLen /\ q <= N /\ q >= 2
           /\ inner \in Seq(Word) /\ Len(inner) >= HeaderLen
           /\ Blocks(inner) \in Buffers
           /\ Made(role, inner) = Packets(<<role, inner>>, c, q)
           /\ role = "server" => c = Seal(Blocks(inner), IvC, IvM) /\ IsIge(Blocks(inner), c)
  BY MadeIs
<1>2. PICK ws : ws = Words(m, p.blocks) /\ p.msgKey = <<"server", ws>>
  BY DEF ComputeMsgKey
<1>3. p.keyID = "ours" /\ ~p.odd
  BY DEF OuterError
<1>4. q \in 0 .. N /\ N \in Nat
  BY <1>1, LengthAssumption
<1>5. CASE p \in Damaged(Made(role, inner))
  <2>1. /\ p.msgKey = <<role, inner>> /\ p.data \in Buffers /\ p.blocks \in 0 .. N
        /\ DamagedFrom(p, <<role, inner>>, c, q)
    <3>1. PICK k : k = <<role, inner>>
      OBVIOUS
    <3>2. p.msgKey = k /\ p.data \in Buffers /\ p.blocks \in 0 .. N /\ DamagedFrom(p, k, c, q)
      <4>1. p \in Damaged(Packets(k, c, q)) /\ q <= N /\ q >= 2
        BY <1>1, <1>5, <3>1
      <4>. QED
        BY <4>1, DamagedIs
    <3>. QED
      BY <3>1, <3>2
  <2>2. role = "server" /\ ws = inner
    BY <1>2, <2>1
  <2>3. p.blocks = q
    BY <1>1, <1>2, <2>1, <2>2, WordsLen
  <2>4. \A j \in 0 .. q - 1 : m[j] = Blocks(inner)[j]
    BY <1>1, <1>2, <2>2, <2>3, WordsAre
  <2>5. \A j \in 0 .. q - 1 : p.data[j] = c[j]
    <3>1. PICK m2 \in Buffers, d \in Buffers : m2 = Blocks(inner) /\ d = p.data /\ IsIge(m2, c)
      BY <1>1, <2>1, <2>2
    <3>2. IsIge(m, d) /\ \A j \in 0 .. q - 1 : m[j] = m2[j]
      BY <2>4, <3>1
    <3>. QED
      BY <1>4, <3>1, <3>2, SameCipher
  <2>6. ASSUME NEW j \in 0 .. q - 1 PROVE p.data[j] # Xor(c[j], Flip)
    <3>1. c[j] \in Block
      BY <1>4 DEF Buffers, Index
    <3>. QED
      BY <2>5, <3>1, FlipDiffers
  <2>7. 0 \in 0 .. q - 1 /\ 1 \in 0 .. q - 1 /\ ~(p.blocks < q)
    <3>1. q \in Nat /\ q >= 2
      BY <1>1
    <3>. QED
      BY <2>3, <3>1
  <2>8. p = Packets(<<role, inner>>, c, q)
    BY <1>3, <2>1, <2>5, <2>6, <2>7 DEF DamagedFrom
  <2>. QED
    BY <1>1, <1>2, <2>2, <2>8
<1>6. ASSUME NEW x \in Inners, p = Mixed(Made(role, inner), x), p \notin Damaged(Made(role, inner))
      PROVE  FALSE
  <2>1. p # Made(role, inner)
    BY <1>6 DEF Damaged
  <2>4. p.msgKey = <<"server", x>> /\ p.data = Seal(Blocks(inner), IvM, IvC) /\ p.blocks = q
    <3>1. PICK P : P = Made(role, inner)
      OBVIOUS
    <3>2. P = Packets(<<role, inner>>, c, q) /\ p = Mixed(P, x) /\ p # P
      BY <1>1, <1>6, <2>1, <3>1
    <3>. QED
      BY <3>2, MixedIs
  <2>5. p.data \in Buffers
    BY <1>1, <2>4, SealIs, BlockAssumption
  <2>6. ws = x /\ x \in Seq(Word)
    BY <1>2, <2>4, WordAssumption
  <2>7. PICK n \in Nat : Len(x) = n * BlockLen
    BY InnerIs
  <2>8. n = q
    BY <1>2, <1>4, <2>4, <2>6, <2>7, WordsLen
  <2>9. \A j \in 0 .. q - 1 : m[j] = Blocks(x)[j]
    <3>1. Words(m, q) = x /\ Len(x) = q * BlockLen /\ q <= N
      BY <1>1, <1>2, <2>4, <2>6, <2>7, <2>8
    <3>. QED
      BY <2>6, <3>1, WordsAre
  <2>10. PICK o \in Buffers : o = Open(p.data, IvC, IvM) /\ IsIge(o, p.data)
    BY <2>5, OpenedIsIge
  <2>11. \A j \in 0 .. q - 1 : o[j] = m[j]
    BY <1>4, <2>5, <2>10, SameMessage
  <2>12. Len(x) = Len(inner) /\ Len(x) \div BlockLen = q
    BY <1>1, <2>7, <2>8
  <2>13. PICK j \in 0 .. q - 1 : Open(p.data, IvC, IvM)[j] # Blocks(x)[j]
    BY <2>4, <2>12, KeysAssumption
  <2>. QED
    BY <2>9, <2>10, <2>11, <2>13
<1>. QED
  BY <1>5, <1>6 DEF Received

\* Whatever arrives, its data are blocks.
LEMMA ReceivedIs ==
  ASSUME NEW role \in {"server", "client"}, NEW inner \in Inners, NEW p \in Received(role, inner)
  PROVE  p.data \in Buffers /\ p.blocks \in 0 .. N
<1>1. PICK q \in Nat, c \in Buffers :
           /\ q <= N /\ q >= 2
           /\ Blocks(inner) \in Buffers
           /\ Made(role, inner) = Packets(<<role, inner>>, c, q)
  BY MadeIs
<1>2. q \in 0 .. N
  BY <1>1, LengthAssumption
<1>3. CASE p \in Damaged(Made(role, inner))
  BY <1>1, <1>3, DamagedIs
<1>4. ASSUME NEW x \in Inners, p = Mixed(Made(role, inner), x), p \notin Damaged(Made(role, inner))
      PROVE  p.data \in Buffers /\ p.blocks = q
  <2>1. p # Made(role, inner)
    BY <1>4 DEF Damaged
  <2>4. p.data = Seal(Blocks(inner), IvM, IvC) /\ p.blocks = q
    <3>1. PICK P : P = Made(role, inner)
      OBVIOUS
    <3>2. P = Packets(<<role, inner>>, c, q) /\ p = Mixed(P, x) /\ p # P
      BY <1>1, <1>4, <2>1, <3>1
    <3>. QED
      BY <3>2, MixedIs
  <2>. QED
    BY <1>1, <2>4, SealIs, BlockAssumption
<1>. QED
  BY <1>2, <1>3, <1>4 DEF Received

-----------------------------------------------------------------------------
(***************************************************************************)
(* UnpackEncrypted                                                         *)
(***************************************************************************)

\* What UnpackVerify returns.
Verdict(p, ws) ==
  IF InnerError(p, ws) # "none" THEN [err |-> InnerError(p, ws)]
  ELSE [err |-> "nil", salt |-> Salt(ws), msgID |-> MsgID(ws), seqNo |-> SeqNo(ws),
        payload |-> Content(ws)]

Decided ==
  IF OuterError(packet) # "none" THEN result = [err |-> OuterError(packet)]
  ELSE result = Verdict(packet, Words(plain, packet.blocks))

Unpacking ==
  /\ case = <<"dec", "apart">>
  /\ sent.role \in {"server", "client"} /\ sent.inner \in Inners
  /\ packet \in Received(sent.role, sent.inner)
  /\ cipher = packet.data
  /\ pc = "crypt" => OuterError(packet) = "none"
  /\ pc = "done" => Decided

PacketInv ==
  /\ op = "pack" => case[2] = "inplace"
  /\ op # "pack" => IgeInv
  /\ op = "unpack" => Unpacking

LEMMA PacketInitOK ==
  ASSUME PacketInit
  PROVE  PacketInv
<1>0. /\ i = 0 /\ cPrev = <<"iv", 0>> /\ mPrev = <<"iv", 0>> /\ PrevPlaces
      /\ \A j \in Index : ~(j < i)
      /\ i \in 0 .. N /\ cPrev \in Places /\ mPrev \in Places
  BY LengthAssumption DEF PacketInit, Places, PrevPlaces, Index
<1>1. Zeroed \in Buffers
  BY WordAssumption DEF Zeroed, Buffers, Zero
<1>2. ASSUME NEW src \in Buffers, mem = [s \in {"src", "dst"} |-> IF s = "src" THEN src ELSE Zeroed]
      PROVE  mem \in [{"src", "dst"} -> Buffers] /\ mem["src"] = src
  BY <1>1, <1>2
<1>3. CASE UnpackInit
  <2>1. PICK role \in {"server", "client"}, inner \in Inners :
          /\ sent = [role |-> role, inner |-> inner]
          /\ packet \in Received(role, inner)
    BY <1>3 DEF UnpackInit
  <2>2. cipher \in Buffers /\ cipher = packet.data
    BY <1>3, <2>1, ReceivedIs DEF UnpackInit
  <2>3. plain \in Buffers /\ IsIge(plain, cipher)
    BY <1>3, <2>2, OpenedIsIge DEF UnpackInit
  <2>4. mem \in [{"src", "dst"} -> Buffers] /\ mem["src"] = cipher /\ case = <<"dec", "apart">>
    BY <1>2, <1>3, <2>2 DEF UnpackInit
  <2>5. IgeInv
    BY <1>0, <2>2, <2>3, <2>4 DEF IgeInv, BuffersOK, ApartIsIge
  <2>6. op = "unpack" /\ pc = "check"
    BY <1>3 DEF UnpackInit
  <2>. QED
    BY <2>1, <2>2, <2>4, <2>5, <2>6 DEF PacketInv, Unpacking
<1>4. CASE PackInit
  BY <1>4 DEF PackInit, PacketInv
<1>5. CASE ExchangeInit
  <2>1. PICK inner \in Inners : sent = [role |-> "client", inner |-> inner]
    BY <1>5 DEF ExchangeInit
  <2>2. plain \in Buffers /\ plain = Blocks(inner)
    BY <1>5, <2>1, MadeIs DEF ExchangeInit
  <2>3. cipher \in Buffers /\ IsIge(plain, cipher)
    BY <1>5, <2>2, SealedIsIge DEF ExchangeInit
  <2>4. mem \in [{"src", "dst"} -> Buffers] /\ mem["src"] = plain /\ case = <<"enc", "apart">>
    BY <1>2, <1>5, <2>2 DEF ExchangeInit
  <2>5. IgeInv
    BY <1>0, <2>2, <2>3, <2>4 DEF IgeInv, BuffersOK, ApartIsIge
  <2>6. op = "exchange"
    BY <1>5 DEF ExchangeInit
  <2>. QED
    BY <2>5, <2>6 DEF PacketInv
<1>. QED
  BY <1>3, <1>4, <1>5 DEF PacketInit

LEMMA PacketStep ==
  ASSUME PacketInv, [PacketNext]_<<packetVars, igeVars>>
  PROVE  PacketInv'
<1>1. CASE UNCHANGED <<packetVars, igeVars>>
  <2>1. op # "pack" => IgeInv'
    BY <1>1, IgeStep DEF PacketInv
  <2>. QED
    BY <1>1, <2>1 DEF packetVars, igeVars, PacketInv, Unpacking, Decided, Verdict, InnerError
<1>2. CASE UnpackChecks
  <2>1. IgeInv' /\ op = "unpack" /\ op' = op
    BY <1>2, IgeStep DEF PacketInv, UnpackChecks
  <2>2. UNCHANGED <<sent, packet, cipher, case>>
    BY <1>2 DEF UnpackChecks, igeVars
  <2>3. CASE OuterError(packet) # "none"
    BY <1>2, <2>1, <2>2, <2>3 DEF UnpackChecks, Return, PacketInv, Unpacking, Decided
  <2>4. CASE OuterError(packet) = "none"
    BY <1>2, <2>1, <2>2, <2>4 DEF UnpackChecks, PacketInv, Unpacking
  <2>. QED
    BY <2>3, <2>4
<1>3. CASE Decrypt
  <2>1. IgeInv' /\ op = "unpack" /\ UNCHANGED packetVars /\ pc = "crypt"
    BY <1>3, IgeStep DEF PacketInv, Decrypt, IgeNext
  <2>2. UNCHANGED <<cipher, case>>
    BY <1>3 DEF Decrypt, DecryptBlock
  <2>. QED
    BY <2>1, <2>2 DEF packetVars, PacketInv, Unpacking
<1>4. CASE UnpackVerify
  <2>1. /\ IgeInv' /\ op = "unpack" /\ pc = "crypt" /\ i = packet.blocks /\ pc' = "done"
        /\ UNCHANGED <<op, sent, packet, expected, plain, cipher, case>>
    BY <1>4, IgeStep DEF PacketInv, UnpackVerify, Return, igeVars
  <2>2. result' = Verdict(packet, Words(mem["dst"], packet.blocks))
    BY <1>4 DEF UnpackVerify, Return, Verdict
  <2>3. OuterError(packet) = "none" /\ IgeInv /\ case = <<"dec", "apart">> /\ Unpacking
    BY <2>1 DEF PacketInv, Unpacking
  <2>4. Words(mem["dst"], packet.blocks) = Words(plain, packet.blocks)
    <3>1. i \in 0 .. N
      BY <2>3 DEF IgeInv, BuffersOK
    <3>2. i \in Nat /\ \A j \in 0 .. i - 1 : j \in Index /\ j < i
      BY <3>1, LengthAssumption DEF Index
    <3>3. \A j \in 0 .. i - 1 : mem["dst"][j] = plain[j]
      BY <2>3, <3>2 DEF IgeInv, ApartIsIge, Expected
    <3>. QED
      BY <2>1, <3>2, <3>3, WordsSame
  <2>5. Decided'
    BY <2>1, <2>2, <2>3, <2>4 DEF Decided, Verdict, InnerError
  <2>. QED
    BY <2>1, <2>3, <2>5 DEF PacketInv, Unpacking
<1>5. CASE Encrypt
  <2>1. op # "unpack" /\ UNCHANGED packetVars /\ UNCHANGED case
    BY <1>5 DEF Encrypt, EncryptBlock
  <2>2. op # "pack" => IgeInv'
    BY <1>5, IgeStep DEF PacketInv, Encrypt, IgeNext
  <2>. QED
    BY <2>1, <2>2 DEF packetVars, PacketInv
<1>6. CASE PackAssemble
  BY <1>6 DEF PackAssemble, PacketInv, igeVars
<1>. QED
  BY <1>1, <1>2, <1>3, <1>4, <1>5, <1>6 DEF PacketNext

LEMMA MsgLenIs ==
  ASSUME NEW ws \in Inners
  PROVE  MsgLen(ws) \in Nat
<1>1. /\ ws \in Seq(Word) /\ Len(ws) \in Nat /\ Len(ws) >= HeaderLen /\ HeaderLen \in Nat
      /\ HeaderLen >= 8 /\ Word \subseteq Nat
  BY WordAssumption
<1>2. 8 \in 1 .. Len(ws)
  BY <1>1
<1>3. ws[8] \in Word
  BY <1>1, <1>2
<1>. QED
  BY <1>1, <1>3 DEF MsgLen

\* What it proves of a packet: that the server made it, for this direction.
LEMMA PacketAccepted ==
  ASSUME PacketInv
  PROVE  AcceptedIsSent
<1> SUFFICES ASSUME Accepted PROVE
    /\ Intact
    /\ expected # 0 => Session(sent.inner) = <<expected, 0>>
    /\ result = [err |-> "nil", salt |-> Salt(sent.inner), msgID |-> MsgID(sent.inner),
                 seqNo |-> SeqNo(sent.inner), payload |-> Content(sent.inner)]
    /\ Len(result.payload) = MsgLen(sent.inner)
  BY DEF AcceptedIsSent
<1>1. Unpacking /\ Decided /\ IgeInv /\ result.err = "nil"
  BY DEF Accepted, PacketInv, Unpacking
<1>2. PICK role \in {"server", "client"}, inner \in Inners : role = sent.role /\ inner = sent.inner
  BY <1>1 DEF Unpacking
<1>3. PICK ws : ws = Words(plain, packet.blocks)
  OBVIOUS
<1>4. OuterError(packet) = "none" /\ result = Verdict(packet, ws)
  BY <1>1, <1>3 DEF Decided, OuterError
<1>5. InnerError(packet, ws) = "none"
  BY <1>1, <1>4 DEF Verdict, InnerError
<1>6. /\ packet.msgKey = ComputeMsgKey("server", ws)
      /\ expected # 0 => Session(ws) = <<expected, 0>>
      /\ ~(HeaderLen + MsgLen(ws) > Len(ws))
  BY <1>5 DEF InnerError
<1>7. packet \in Received(role, inner) /\ plain \in Buffers /\ IsIge(plain, packet.data)
  BY <1>1, <1>2 DEF Unpacking, IgeInv, BuffersOK
<1>8. role = "server" /\ packet = Made("server", inner) /\ ws = inner
  BY <1>3, <1>4, <1>6, <1>7, OnlyWhole
<1>9. result = [err |-> "nil", salt |-> Salt(ws), msgID |-> MsgID(ws), seqNo |-> SeqNo(ws),
                payload |-> Content(ws)]
  BY <1>4, <1>5 DEF Verdict
<1>10. Len(Content(ws)) = MsgLen(ws)
  <2>1. ws \in Seq(Word) /\ Len(ws) >= HeaderLen /\ HeaderLen \in Nat /\ HeaderLen >= 8 /\ Word \subseteq Nat
    BY <1>8, WordAssumption
  <2>2. MsgLen(ws) \in Nat
    BY <1>8, MsgLenIs
  <2>. QED
    BY <1>6, <2>1, <2>2 DEF Content
<1>11. result.payload = Content(ws)
  BY <1>9
<1>. QED
  BY <1>2, <1>6, <1>8, <1>9, <1>10, <1>11 DEF Intact

\* And a packet that the server made passes every check it must pass.
LEMMA PacketNotRefused ==
  ASSUME PacketInv
  PROVE  SentIsAccepted
<1> SUFFICES ASSUME op = "unpack", pc = "done", Intact,
                    expected = 0 \/ Session(sent.inner) = <<expected, 0>>,
                    HeaderLen + MsgLen(sent.inner) <= Len(sent.inner)
             PROVE  result.err = "nil"
  BY DEF SentIsAccepted
<1>1. Unpacking /\ Decided /\ IgeInv
  BY DEF PacketInv, Unpacking
<1>2. PICK inner \in Inners : inner = sent.inner
  BY <1>1 DEF Unpacking
<1>3. PICK q \in Nat, c \in Buffers :
           /\ Len(inner) = q * BlockLen /\ q <= N
           /\ inner \in Seq(Word) /\ Len(inner) >= HeaderLen
           /\ Blocks(inner) \in Buffers
           /\ Made("server", inner) = Packets(<<"server", inner>>, c, q)
           /\ IsIge(Blocks(inner), c)
  BY MadeIs
<1>4. packet = Packets(<<"server", inner>>, c, q)
  BY <1>2, <1>3 DEF Intact
<1>5. /\ packet.keyID = "ours" /\ packet.odd = FALSE /\ packet.data = c /\ packet.blocks = q
      /\ packet.msgKey = <<"server", inner>>
  BY <1>4 DEF Packets
<1>6. OuterError(packet) = "none"
  <2>1. ~(packet.blocks * BlockLen < HeaderLen)
    BY <1>3, <1>5, WordAssumption
  <2>. QED
    BY <1>5, <2>1 DEF OuterError
<1>7. Words(plain, packet.blocks) = inner
  <2>1. PICK m2 \in Buffers : m2 = Blocks(inner) /\ IsIge(m2, c)
    BY <1>3
  <2>2. plain \in Buffers /\ IsIge(plain, c) /\ q \in 0 .. N
    BY <1>1, <1>3, <1>5, LengthAssumption DEF Unpacking, IgeInv, BuffersOK
  <2>3. \A j \in 0 .. q - 1 : plain[j] = m2[j]
    BY <2>1, <2>2, SameMessage
  <2>. QED
    BY <1>3, <1>5, <2>1, <2>2, <2>3, WordsAre
<1>8. InnerError(packet, inner) = "none"
  <2>1. ~(HeaderLen + MsgLen(inner) > Len(inner))
    <3>1. HeaderLen \in Nat
      BY WordAssumption
    <3>2. MsgLen(inner) \in Nat
      BY MsgLenIs
    <3>. QED
      BY <1>2, <1>3, <3>1, <3>2
  <2>. QED
    BY <1>2, <1>5, <2>1 DEF InnerError, ComputeMsgKey
<1>. QED
  BY <1>1, <1>6, <1>7, <1>8 DEF Decided, Verdict

\* The same loops as part of PackEncrypted, UnpackEncrypted and the key exchange.
THEOREM PacketsAreIge == PacketSpec => []ApartIsIge
<1>1. PacketInit => PacketInv
  BY PacketInitOK
<1>2. PacketInv /\ [PacketNext]_<<packetVars, igeVars>> => PacketInv'
  BY PacketStep
<1>3. PacketInv => ApartIsIge
  BY DEF PacketInv, IgeInv, ApartIsIge
<1>. QED
  BY <1>1, <1>2, <1>3, PTL DEF PacketSpec

\* UnpackEncrypted returns only what the server packed, whole and for this
\* direction and session: for every cipher, every set of messages and every
\* length, if the message key is an ideal hash and keys are independent.
THEOREM OnlySentAccepted == PacketSpec => []AcceptedIsSent
<1>1. PacketInit => PacketInv
  BY PacketInitOK
<1>2. PacketInv /\ [PacketNext]_<<packetVars, igeVars>> => PacketInv'
  BY PacketStep
<1>3. PacketInv => AcceptedIsSent
  BY PacketAccepted
<1>. QED
  BY <1>1, <1>2, <1>3, PTL DEF PacketSpec

\* No whole packet of the server is refused.
THEOREM SentNotRefused == PacketSpec => []SentIsAccepted
<1>1. PacketInit => PacketInv
  BY PacketInitOK
<1>2. PacketInv /\ [PacketNext]_<<packetVars, igeVars>> => PacketInv'
  BY PacketStep
<1>3. PacketInv => SentIsAccepted
  BY PacketNotRefused
<1>. QED
  BY <1>1, <1>2, <1>3, PTL DEF PacketSpec

=============================================================================
