--------------------------- MODULE SessionProofs ---------------------------
(***************************************************************************)
(* Session storage for any number of goroutines, any values of any size,   *)
(* and any number of calls and restarts.                                   *)
(***************************************************************************)
EXTENDS Session, TLAPS

AnyPage == (Values \cup {"hole", "absent", "torn"}) \X Nat
Bytes   == Seq(AnyPage)

FilePcs   == {"idle", "mkdir", "openWrite", "write", "openRead", "read"}
MemoryPcs == {"idle", "lockSave", "lockLoad", "make", "copyIn", "copyOut"}
Saving    == {"mkdir", "openWrite", "write", "lockSave", "make", "copyIn"}

SessionTypeOK ==
  /\ kind \in {"file", "memory"}
  /\ file \in Bytes /\ good \in Bytes
  /\ data \in {"nil", "own"} /\ mu \in Users \cup {"free"}
  /\ mem \in [Users \cup {"own"} -> Bytes]
  /\ pc \in [Users -> FilePcs \cup MemoryPcs]
  /\ off \in [Users -> Nat] /\ alone \in [Users -> BOOLEAN]
  /\ ret \in [Users -> [err : {"none", "nil", "io", "ErrNotFound"}, data : Bytes]]
  /\ seen \in [Users -> Bytes]
  /\ saves \in Nat /\ loads \in Nat /\ restarts \in Nat

\* A call goes through the steps of its kind of storage, and has no result yet.
CallInv ==
  \A u \in Users :
    /\ pc[u] \in IF kind = "file" THEN FilePcs ELSE MemoryPcs
    /\ pc[u] # "idle" => ret[u] = NoResult
    /\ pc[u] \in Saving => \E v \in Values : mem[u] = Pages(v)
    /\ pc[u] \notin {"write", "read"} => off[u] = 0

\* The first n pages of two contents are the same.
SameUpTo(n, a, b) == \A k \in 1 .. n : a[k] = b[k]

\* A Save that no other one has disturbed is the only one, and the file is
\* what it has written so far.
WriterInv ==
  /\ Writing # {} => good = Torn
  /\ \A u \in Users : alone[u] =>
       /\ Writing = {u}
       /\ Len(file) = off[u] /\ off[u] <= Len(mem[u]) /\ SameUpTo(off[u], file, mem[u])

\* A Load that no Save has disturbed reads what is good.
ReaderInv ==
  /\ kind = "file" /\ good # Torn => file = good
  /\ \A u \in Users : pc[u] \in {"openRead", "read"} /\ seen[u] # Torn => seen[u] = good
  /\ \A u \in Users : pc[u] = "read" /\ seen[u] # Torn =>
       /\ file # Absent
       /\ Len(mem[u]) = off[u] /\ off[u] <= Len(file) /\ SameUpTo(off[u], mem[u], file)

\* The lock protects the memory and its contents.
MemoryInv ==
  kind = "memory" =>
    /\ good # Torn
    /\ \A u \in Users : /\ pc[u] \in {"make", "copyIn", "copyOut"} => mu = u
                        /\ pc[u] = "copyIn" => data = "own"
    /\ (\A u \in Users : pc[u] # "copyIn") =>
         IF good = Absent THEN data = "nil" ELSE data = "own" /\ mem["own"] = good

SessionInv ==
  SessionTypeOK /\ CallInv /\ WriterInv /\ ReaderInv /\ MemoryInv /\ LoadReturnsSaved

-----------------------------------------------------------------------------
LEMMA Marks ==
  /\ Hole \in AnyPage /\ Absent \in Bytes /\ Torn \in Bytes /\ Absent # Torn
  /\ <<>> \in Bytes
<1>1. Hole \in AnyPage
  BY DEF Hole, AnyPage
<1>2. Absent \in Bytes
  <2>1. <<"absent", 0>> \in AnyPage
    BY DEF AnyPage
  <2>. QED
    BY <2>1 DEF Absent, Bytes
<1>3. Torn \in Bytes
  <2>1. <<"torn", 0>> \in AnyPage
    BY DEF AnyPage
  <2>. QED
    BY <2>1 DEF Torn, Bytes
<1>4. Absent # Torn
  <2>1. Absent[1] = <<"absent", 0>> /\ Torn[1] = <<"torn", 0>>
    BY DEF Absent, Torn
  <2>2. <<"absent", 0>> # <<"torn", 0>>
    OBVIOUS
  <2>. QED
    BY <2>1, <2>2
<1>5. <<>> \in Bytes
  BY DEF Bytes
<1>. QED
  BY <1>1, <1>2, <1>3, <1>4, <1>5

\* What is saved cannot be taken for a mark.
LEMMA PagesOf ==
  ASSUME NEW v \in Values
  PROVE  Pages(v) \in Bytes /\ Pages(v) # Absent /\ Pages(v) # Torn
<1>1. Size[v] \in Nat
  BY SessionAssumption
<1>2. \A k \in 1 .. Size[v] : <<v, k>> \in AnyPage
  BY DEF AnyPage
<1>3. Pages(v) \in Bytes
  BY <1>1, <1>2 DEF Pages, Bytes
<1>4. ASSUME NEW m, Pages(v) = <<<<m, 0>>>> PROVE FALSE
  <2>1. Len(Pages(v)) = 1 /\ Pages(v)[1] = <<m, 0>>
    BY <1>4
  <2>2. Len(Pages(v)) = Size[v]
    BY <1>1 DEF Pages
  <2>3. Pages(v)[1] = <<v, 1>>
    <3>1. 1 \in 1 .. Size[v]
      BY <1>1, <2>1, <2>2
    <3>. QED
      BY <3>1 DEF Pages
  <2>. QED
    BY <2>1, <2>3
<1>. QED
  BY <1>3, <1>4 DEF Absent, Torn

\* Writing a page keeps a file a file.
LEMMA WriteAtIs ==
  ASSUME NEW f \in Bytes, NEW k \in Nat \ {0}, NEW page \in AnyPage
  PROVE  /\ WriteAt(f, k, page) \in Bytes
         /\ Len(f) < k => Len(WriteAt(f, k, page)) = k
         /\ WriteAt(f, k, page)[k] = page
         /\ \A j \in 1 .. Len(f) : j # k => WriteAt(f, k, page)[j] = f[j]
<1> DEFINE n == IF Len(f) < k THEN k ELSE Len(f)
           p(j) == IF j = k THEN page ELSE IF j <= Len(f) THEN f[j] ELSE Hole
<1>1. Len(f) \in Nat /\ \A j \in 1 .. Len(f) : f[j] \in AnyPage
  BY DEF Bytes
<1>2. n \in Nat /\ k \in 1 .. n /\ \A j \in 1 .. Len(f) : j \in 1 .. n
  BY <1>1
<1>3. \A j \in 1 .. n : p(j) \in AnyPage
  BY <1>1, <1>2, Marks
<1>4. WriteAt(f, k, page) = [j \in 1 .. n |-> p(j)]
  BY DEF WriteAt
<1>5. Len(f) < k => n = k
  OBVIOUS
<1>6. \A j \in 1 .. Len(f) : j # k => p(j) = f[j]
  BY <1>1
<1>7. p(k) = page
  OBVIOUS
<1> HIDE DEF n, p
<1>8. WriteAt(f, k, page) \in Bytes /\ Len(WriteAt(f, k, page)) = n
  BY <1>2, <1>3, <1>4 DEF Bytes
<1>. QED
  BY <1>2, <1>4, <1>5, <1>6, <1>7, <1>8

\* Two contents of the same length with the same pages are the same.
LEMMA SameBytes ==
  ASSUME NEW a \in Bytes, NEW b \in Bytes, Len(a) = Len(b), SameUpTo(Len(a), a, b)
  PROVE  a = b
BY DEF Bytes, SameUpTo

\* What one goroutine does in one step.
UserStep(u) ==
  \/ (\E v \in Values : CallSave(u, v)) \/ CallLoad(u) \/ Scribble(u)
  \/ Step(u) \/ Lock(u) \/ SaveError(u) \/ ReadError(u)

LEMMA SessionInitial == Init => SessionInv
<1> SUFFICES ASSUME Init PROVE SessionInv
  OBVIOUS
<1>1. /\ kind \in Kinds /\ file = Absent /\ good = Absent /\ data = "nil" /\ mu = "free"
      /\ mem = [u \in Users \cup {"own"} |-> <<>>] /\ pc = [u \in Users |-> "idle"]
      /\ off = [u \in Users |-> 0] /\ ret = [u \in Users |-> NoResult]
      /\ seen = [u \in Users |-> Torn] /\ saves = 0 /\ loads = 0 /\ restarts = 0
  BY DEF Init
<1>2. alone = [u \in Users |-> FALSE]
  BY DEF Init
<1>3. SessionTypeOK
  <2>1. NoResult \in [err : {"none", "nil", "io", "ErrNotFound"}, data : Bytes]
    BY Marks DEF NoResult
  <2>2. alone \in [Users -> BOOLEAN]
    BY <1>2
  <2>. QED
    BY <1>1, <2>1, <2>2, Marks, SessionAssumption DEF SessionTypeOK, FilePcs
<1>4. CallInv
  BY <1>1 DEF CallInv, FilePcs, MemoryPcs, Saving
<1>5. WriterInv
  <2>1. Writing = {}
    BY <1>1 DEF Writing
  <2>. QED
    BY <1>2, <2>1 DEF WriterInv
<1>6. ReaderInv /\ MemoryInv /\ LoadReturnsSaved
  BY <1>1, Marks DEF ReaderInv, MemoryInv, LoadReturnsSaved
<1>. QED
  BY <1>3, <1>4, <1>5, <1>6 DEF SessionInv

-----------------------------------------------------------------------------
\* A step of one goroutine leaves the slices, the calls and the results of the
\* others alone; at most it tells their Loads that a Save has come in between.
LEMMA OthersKeep ==
  ASSUME SessionTypeOK, MemoryInv, CallInv, NEW u \in Users, UserStep(u),
         NEW w \in Users, w # u
  PROVE  /\ pc'[w] = pc[w] /\ off'[w] = off[w] /\ mem'[w] = mem[w] /\ ret'[w] = ret[w]
         /\ seen'[w] = seen[w] \/ seen'[w] = Torn
         /\ alone'[w] => alone[w]
<1> USE DEF SessionTypeOK, Go, Close, Returns, Forget, diskVars, memoryVars
<1>0. w # "own"
  BY UsersAssumption
<1>1. ASSUME NEW v \in Values, CallSave(u, v)
      PROVE  /\ pc'[w] = pc[w] /\ off'[w] = off[w] /\ mem'[w] = mem[w] /\ ret'[w] = ret[w]
             /\ seen'[w] = seen[w] /\ alone' = alone
  BY <1>1 DEF CallSave
<1>2. CASE CallLoad(u) \/ Scribble(u) \/ SaveError(u) \/ ReadError(u) \/ MkdirAll(u) \/ WritePage(u)
  BY <1>2 DEF CallLoad, Scribble, SaveError, ReadError, MkdirAll, WritePage
<1>3. CASE OpenWrite(u)
  BY <1>3 DEF OpenWrite
<1>4. CASE CloseWrite(u) \/ OpenRead(u) \/ ReadPage(u) \/ ReadEnd(u) \/ Lock(u)
  BY <1>4 DEF CloseWrite, OpenRead, ReadPage, ReadEnd, Lock
<1>5. CASE MakeData(u) \/ CopyOut(u)
  BY <1>0, <1>5 DEF MakeData, CopyOut
<1>6. CASE CopyIn(u)
  <2>1. data = "own"
    BY <1>6 DEF CopyIn, MemoryInv, CallInv, FilePcs
  <2>. QED
    BY <1>0, <1>6, <2>1 DEF CopyIn
<1>. QED
  BY <1>1, <1>2, <1>3, <1>4, <1>5, <1>6 DEF UserStep, Step

LEMMA SessionTypeStep ==
  ASSUME SessionTypeOK, CallInv, MemoryInv, [Next]_vars
  PROVE  SessionTypeOK'
<1> USE DEF Go, Close, Returns, Forget, diskVars, memoryVars
<1> DEFINE Results == [err : {"none", "nil", "io", "ErrNotFound"}, data : Bytes]
<1>0. NoResult \in Results /\ \A d \in Bytes, e \in {"nil", "io", "ErrNotFound"} :
        [err |-> e, data |-> d] \in Results
  BY Marks DEF NoResult
<1>1. ASSUME NEW u \in Users, NEW v \in Values, CallSave(u, v) PROVE SessionTypeOK'
  BY <1>0, <1>1, PagesOf, Marks DEF CallSave, SessionTypeOK, FilePcs, MemoryPcs
<1>2. ASSUME NEW u \in Users, CallLoad(u) PROVE SessionTypeOK'
  BY <1>0, <1>2 DEF CallLoad, SessionTypeOK, FilePcs, MemoryPcs
<1>3. ASSUME NEW u \in Users, Scribble(u) PROVE SessionTypeOK'
  <2>1. <<Hole>> \in Bytes
    BY Marks DEF Bytes
  <2>. QED
    BY <1>3, <2>1 DEF Scribble, SessionTypeOK
<1>4. ASSUME NEW u \in Users, SaveError(u) \/ MkdirAll(u) PROVE SessionTypeOK'
  <2>1. CASE SaveError(u)
    BY <2>1 DEF SaveError, SessionTypeOK, FilePcs
  <2>2. CASE MkdirAll(u)
    BY <2>2 DEF MkdirAll, SessionTypeOK, FilePcs
  <2>. QED
    BY <1>4, <2>1, <2>2
<1>5. ASSUME NEW u \in Users, OpenWrite(u) PROVE SessionTypeOK'
  <2>1. alone' \in [Users -> BOOLEAN]
    BY <1>5 DEF OpenWrite
  <2>. QED
    BY <1>5, <2>1, Marks DEF OpenWrite, SessionTypeOK, FilePcs
<1>6. ASSUME NEW u \in Users, WritePage(u) PROVE SessionTypeOK'
  <2>1. off[u] + 1 \in Nat \ {0} /\ mem[u][off[u] + 1] \in AnyPage /\ file \in Bytes
    BY <1>6 DEF WritePage, SessionTypeOK, Bytes
  <2>2. file' \in Bytes
    BY <1>6, <2>1, WriteAtIs DEF WritePage
  <2>. QED
    BY <1>6, <2>2 DEF WritePage, SessionTypeOK
<1>7. ASSUME NEW u \in Users, CloseWrite(u) PROVE SessionTypeOK'
  BY <1>7 DEF CloseWrite, SessionTypeOK, FilePcs
<1>8. ASSUME NEW u \in Users, OpenRead(u) PROVE SessionTypeOK'
  <2>1. ret' = ret \/ \E r \in Results : ret' = [ret EXCEPT ![u] = r]
    BY <1>0, <1>8, Marks DEF OpenRead
  <2>2. ret' \in [Users -> Results]
    BY <2>1 DEF SessionTypeOK
  <2>3. pc' \in [Users -> FilePcs \cup MemoryPcs]
    BY <1>8 DEF OpenRead, SessionTypeOK, FilePcs
  <2>. QED
    BY <1>8, <2>2, <2>3, Marks DEF OpenRead, SessionTypeOK
<1>9. ASSUME NEW u \in Users, ReadPage(u) PROVE SessionTypeOK'
  <2>1. file[off[u] + 1] \in AnyPage
    BY <1>9 DEF ReadPage, SessionTypeOK, Bytes
  <2>2. Append(mem[u], file[off[u] + 1]) \in Bytes
    BY <2>1 DEF SessionTypeOK, Bytes
  <2>. QED
    BY <1>9, <2>2 DEF ReadPage, SessionTypeOK
<1>10. ASSUME NEW u \in Users, ReadEnd(u) \/ ReadError(u) PROVE SessionTypeOK'
  <2>0. mem[u] \in Bytes
    BY DEF SessionTypeOK
  <2>1. \E r \in Results : ret' = [ret EXCEPT ![u] = r]
    BY <1>0, <1>10, <2>0 DEF ReadEnd, ReadError
  <2>2. ret' \in [Users -> Results]
    BY <2>1 DEF SessionTypeOK
  <2>3. /\ pc' = [pc EXCEPT ![u] = "idle"] /\ off' = [off EXCEPT ![u] = 0]
        /\ alone' = [alone EXCEPT ![u] = FALSE]
        /\ UNCHANGED <<kind, file, memoryVars, good, seen, saves, loads, restarts>>
    BY <1>10 DEF ReadEnd, ReadError
  <2>. QED
    BY <2>2, <2>3 DEF SessionTypeOK, FilePcs
<1>11. ASSUME NEW u \in Users, Lock(u) PROVE SessionTypeOK'
  BY <1>11 DEF Lock, SessionTypeOK, MemoryPcs
<1>12. ASSUME NEW u \in Users, MakeData(u) PROVE SessionTypeOK'
  <2>1. [k \in DOMAIN mem[u] |-> Hole] \in Bytes
    <3>1. mem[u] \in Bytes /\ DOMAIN mem[u] = 1 .. Len(mem[u]) /\ Len(mem[u]) \in Nat
      BY DEF SessionTypeOK, Bytes
    <3>. QED
      BY <3>1, Marks DEF Bytes
  <2>. QED
    BY <1>12, <2>1 DEF MakeData, SessionTypeOK, MemoryPcs
<1>13. ASSUME NEW u \in Users, CopyIn(u) PROVE SessionTypeOK'
  BY <1>13 DEF CopyIn, SessionTypeOK, MemoryPcs
<1>14. ASSUME NEW u \in Users, CopyOut(u) PROVE SessionTypeOK'
  <2>0. data \in {"nil", "own"} /\ mem["own"] \in Bytes /\ good \in Bytes
    BY DEF SessionTypeOK
  <2>1. \E r \in Results : ret' = [ret EXCEPT ![u] = r]
    BY <1>0, <1>14, <2>0, Marks DEF CopyOut
  <2>2. ret' \in [Users -> Results]
    BY <2>1 DEF SessionTypeOK
  <2>3. mem' = mem \/ mem' = [mem EXCEPT ![u] = mem["own"]]
    BY <1>14, <2>0 DEF CopyOut
  <2>4. mem' \in [Users \cup {"own"} -> Bytes]
    BY <2>0, <2>3 DEF SessionTypeOK
  <2>. QED
    BY <1>14, <2>0, <2>2, <2>4 DEF CopyOut, SessionTypeOK, MemoryPcs
<1>15. CASE Restart
  BY <1>0, <1>15, Marks DEF Restart, SessionTypeOK, FilePcs
<1>16. CASE UNCHANGED vars
  BY <1>16 DEF vars, SessionTypeOK
<1>. QED
  BY <1>1, <1>2, <1>3, <1>4, <1>5, <1>6, <1>7, <1>8, <1>9, <1>10, <1>11, <1>12, <1>13, <1>14,
     <1>15, <1>16 DEF Next, Step

LEMMA CallStep ==
  ASSUME SessionTypeOK, CallInv, MemoryInv, [Next]_vars
  PROVE  CallInv'
<1> USE DEF Go, Close, Returns, Forget, diskVars, memoryVars
<1> DEFINE Fine(u) == /\ pc[u] \in IF kind = "file" THEN FilePcs ELSE MemoryPcs
                      /\ pc[u] # "idle" => ret[u] = NoResult
                      /\ pc[u] \in Saving => \E v \in Values : mem[u] = Pages(v)
                      /\ pc[u] \notin {"write", "read"} => off[u] = 0
<1>0. /\ kind \in {"file", "memory"} /\ pc \in [Users -> FilePcs \cup MemoryPcs]
      /\ mem \in [Users \cup {"own"} -> Bytes] /\ off \in [Users -> Nat]
      /\ ret \in [Users -> [err : {"none", "nil", "io", "ErrNotFound"}, data : Bytes]]
  BY DEF SessionTypeOK
<1>1. ASSUME NEW u \in Users, UserStep(u) PROVE kind' = kind /\ Fine(u)'
  <2> USE <1>0 DEF FilePcs, MemoryPcs, Saving
  <2>1. Fine(u)
    BY DEF CallInv
  <2>2. ASSUME NEW v \in Values, CallSave(u, v) PROVE kind' = kind /\ Fine(u)'
    BY <2>1, <2>2 DEF CallSave
  <2>3. CASE CallLoad(u) \/ Scribble(u)
    BY <2>1, <2>3 DEF CallLoad, Scribble
  <2>4. CASE SaveError(u) \/ MkdirAll(u) \/ OpenWrite(u)
    BY <2>1, <2>4 DEF SaveError, MkdirAll, OpenWrite
  <2>5. CASE WritePage(u) \/ CloseWrite(u)
    BY <2>1, <2>5 DEF WritePage, CloseWrite
  <2>6. CASE OpenRead(u) \/ ReadPage(u)
    BY <2>1, <2>6 DEF OpenRead, ReadPage
  <2>7. CASE ReadEnd(u) \/ ReadError(u)
    BY <2>1, <2>7 DEF ReadEnd, ReadError
  <2>8. CASE Lock(u) \/ CopyOut(u)
    BY <2>1, <2>8 DEF Lock, CopyOut
  <2>9. CASE MakeData(u)
    <3>1. u # "own"
      BY UsersAssumption
    <3>. QED
      BY <2>1, <2>9, <3>1 DEF MakeData
  <2>10. CASE CopyIn(u)
    BY <2>1, <2>10 DEF CopyIn
  <2>. QED
    BY <1>1, <2>2, <2>3, <2>4, <2>5, <2>6, <2>7, <2>8, <2>9, <2>10 DEF UserStep, Step
<1>2. ASSUME NEW u \in Users, UserStep(u) PROVE CallInv'
  <2>1. ASSUME NEW w \in Users, w # u PROVE Fine(w)'
    <3>1. pc'[w] = pc[w] /\ off'[w] = off[w] /\ mem'[w] = mem[w] /\ ret'[w] = ret[w]
      BY <1>2, <2>1, OthersKeep
    <3>2. Fine(w) /\ kind' = kind
      BY <1>1, <1>2 DEF CallInv
    <3>. QED
      BY <3>1, <3>2
  <2>. QED
    BY <1>1, <1>2, <2>1 DEF CallInv
<1>3. CASE Restart
  BY <1>0, <1>3 DEF Restart, CallInv, FilePcs, MemoryPcs, Saving
<1>4. CASE UNCHANGED vars
  BY <1>4 DEF vars, CallInv
<1>. QED
  BY <1>2, <1>3, <1>4 DEF Next, UserStep

LEMMA KindStays == [Next]_vars => kind' = kind
BY DEF Next, vars, CallSave, CallLoad, Scribble, Step, MkdirAll, OpenWrite, WritePage, CloseWrite,
       OpenRead, ReadPage, ReadEnd, MakeData, CopyIn, CopyOut, Lock, SaveError, ReadError, Restart

\* Two Saves that overlap in the file know it.
LEMMA WriterStep ==
  ASSUME SessionTypeOK, CallInv, MemoryInv, WriterInv, [Next]_vars
  PROVE  WriterInv'
<1> USE DEF Go, Close, Returns, Forget, diskVars, memoryVars
<1>0. /\ pc \in [Users -> FilePcs \cup MemoryPcs] /\ file \in Bytes /\ off \in [Users -> Nat]
      /\ mem \in [Users \cup {"own"} -> Bytes] /\ alone \in [Users -> BOOLEAN]
      /\ kind \in {"file", "memory"} /\ kind' = kind
  BY KindStays DEF SessionTypeOK
<1>1. \A u \in Users : alone[u] => pc[u] = "write"
  BY DEF WriterInv, Writing
<1>2. CASE kind = "memory"
  <2>1. Writing = {} /\ Writing' = {}
    BY <1>0, <1>2, CallStep DEF CallInv, Writing, MemoryPcs
  <2>2. \A u \in Users : ~alone[u]
    BY <2>1 DEF WriterInv
  <2>3. ASSUME NEW u \in Users, UserStep(u) PROVE alone' = alone \/ alone' = [alone EXCEPT ![u] = FALSE]
    <3>1. ~OpenWrite(u)
      BY <1>2, <2>1 DEF OpenWrite, CallInv, MemoryPcs
    <3>. QED
      BY <2>3, <3>1 DEF UserStep, CallSave, CallLoad, Scribble, Step, MkdirAll, WritePage, CloseWrite,
         OpenRead, ReadPage, ReadEnd, MakeData, CopyIn, CopyOut, Lock, SaveError, ReadError
  <2>4. \A u \in Users : ~alone'[u]
    BY <1>0, <2>2, <2>3 DEF Next, UserStep, Restart, vars
  <2>. QED
    BY <2>1, <2>4 DEF WriterInv
<1>3. ASSUME kind = "file", NEW u \in Users, UserStep(u) PROVE WriterInv'
  <2>1. \A w \in Users : w # u => /\ pc'[w] = pc[w] /\ off'[w] = off[w] /\ mem'[w] = mem[w]
                                  /\ alone'[w] => alone[w]
    BY <1>3, OthersKeep
  <2>2. CASE OpenWrite(u)
    <3>1. /\ file' = <<>> /\ good' = Torn /\ off' = off /\ mem' = mem
          /\ pc' = [pc EXCEPT ![u] = "write"] /\ off[u] = 0
      BY <2>2 DEF OpenWrite, CallInv
    <3>2. ASSUME NEW w \in Users, alone'[w] PROVE w = u /\ Writing = {}
      BY <2>2, <3>2 DEF OpenWrite
    <3>3. ASSUME Writing = {} PROVE Writing' = {u}
      BY <1>0, <3>1, <3>3 DEF Writing
    <3>4. Len(file') = 0 /\ Len(mem[u]) >= 0
      <4>1. mem[u] \in Bytes
        BY <1>0
      <4>. QED
        BY <3>1, <4>1 DEF Bytes
    <3>. QED
      BY <3>1, <3>2, <3>3, <3>4 DEF WriterInv, SameUpTo
  <2>3. CASE WritePage(u)
    <3>1. /\ pc[u] = "write" /\ off[u] < Len(mem[u]) /\ UNCHANGED <<mem, pc, good, alone>>
          /\ file' = WriteAt(file, off[u] + 1, mem[u][off[u] + 1])
          /\ off' = [off EXCEPT ![u] = @ + 1]
      BY <2>3 DEF WritePage
    <3>2. u \in Writing /\ Writing' = Writing
      BY <3>1 DEF Writing
    <3>3. ASSUME NEW w \in Users, alone[w] PROVE w = u
      BY <3>2, <3>3 DEF WriterInv
    <3>4. ASSUME alone[u]
          PROVE  Len(file') = off'[u] /\ off'[u] <= Len(mem[u]) /\ SameUpTo(off'[u], file', mem[u])
      <4>1. /\ off[u] \in Nat /\ off[u] + 1 \in Nat \ {0} /\ Len(mem[u]) \in Nat
            /\ mem[u][off[u] + 1] \in AnyPage /\ off'[u] = off[u] + 1
        BY <1>0, <3>1 DEF Bytes
      <4>2. Len(file) = off[u] /\ SameUpTo(off[u], file, mem[u])
        BY <3>4 DEF WriterInv
      <4>3. /\ Len(file') = off[u] + 1 /\ file'[off[u] + 1] = mem[u][off[u] + 1]
            /\ \A j \in 1 .. off[u] : file'[j] = file[j]
        BY <1>0, <3>1, <4>1, <4>2, WriteAtIs
      <4>4. \A j \in 1 .. off[u] + 1 : j \in 1 .. off[u] \/ j = off[u] + 1
        BY <4>1
      <4>5. SameUpTo(off[u] + 1, file', mem[u])
        BY <4>2, <4>3, <4>4 DEF SameUpTo
      <4>. QED
        BY <3>1, <4>1, <4>3, <4>5
    <3>. QED
      BY <3>1, <3>2, <3>3, <3>4 DEF WriterInv
  <2>4. CASE CloseWrite(u)
    <3>1. /\ pc[u] = "write" /\ pc' = [pc EXCEPT ![u] = "idle"] /\ UNCHANGED <<file, mem>>
          /\ alone' = [alone EXCEPT ![u] = FALSE]
          /\ ~alone[u] => good' = good
      BY <2>4 DEF CloseWrite
    <3>2. u \in Writing /\ Writing' = Writing \ {u}
      BY <1>0, <3>1 DEF Writing
    <3>3. \A w \in Users : ~alone'[w]
      BY <1>0, <3>1, <3>2 DEF WriterInv
    <3>. QED
      BY <3>1, <3>2, <3>3 DEF WriterInv
  <2>5. CASE SaveError(u)
    <3>1. /\ pc' = [pc EXCEPT ![u] = "idle"] /\ UNCHANGED <<file, mem, good>>
          /\ alone' = [alone EXCEPT ![u] = FALSE]
      BY <2>5 DEF SaveError
    <3>2. Writing' = Writing \ {u} /\ ~alone'[u]
      BY <1>0, <3>1 DEF Writing
    <3>. QED
      BY <2>1, <3>1, <3>2 DEF WriterInv
  <2>6. CASE ~(OpenWrite(u) \/ WritePage(u) \/ CloseWrite(u) \/ SaveError(u))
    <3>1. /\ pc[u] # "write" /\ pc'[u] # "write" /\ UNCHANGED <<file, good>>
          /\ alone'[u] => alone[u]
      <4>0. pc[u] \in FilePcs
        BY <1>3 DEF CallInv
      <4>1. CASE \E v \in Values : CallSave(u, v)
        BY <1>0, <4>1 DEF CallSave
      <4>2. CASE CallLoad(u) \/ Scribble(u) \/ MkdirAll(u)
        BY <1>0, <4>2 DEF CallLoad, Scribble, MkdirAll
      <4>3. CASE OpenRead(u) \/ ReadPage(u)
        BY <1>0, <4>3 DEF OpenRead, ReadPage
      <4>4. CASE ReadEnd(u) \/ ReadError(u)
        BY <1>0, <4>4 DEF ReadEnd, ReadError
      <4>. QED
        BY <1>3, <2>6, <4>0, <4>1, <4>2, <4>3, <4>4
           DEF UserStep, Step, Lock, MakeData, CopyIn, CopyOut, FilePcs
    <3>2. ~alone'[u]
      BY <1>1, <3>1
    <3>3. Writing' = Writing
      BY <2>1, <3>1 DEF Writing
    <3>. QED
      BY <2>1, <3>1, <3>2, <3>3 DEF WriterInv
  <2>. QED
    BY <2>2, <2>3, <2>4, <2>5, <2>6
<1>4. CASE Restart
  <2>1. Writing' = {} /\ \A u \in Users : ~alone'[u]
    BY <1>4 DEF Restart, Writing
  <2>. QED
    BY <2>1 DEF WriterInv
<1>5. CASE UNCHANGED vars
  BY <1>5 DEF vars, WriterInv, Writing
<1>. QED
  BY <1>0, <1>2, <1>3, <1>4, <1>5 DEF Next, UserStep

\* What a Load of a File may go by: nothing while somebody writes, and what is
\* good, which is what the file holds, otherwise.
LEMMA ReaderStep ==
  ASSUME SessionTypeOK, CallInv, MemoryInv, WriterInv, ReaderInv, [Next]_vars
  PROVE  ReaderInv'
<1> USE DEF Go, Close, Returns, Forget, diskVars, memoryVars
<1>0. /\ pc \in [Users -> FilePcs \cup MemoryPcs] /\ file \in Bytes /\ off \in [Users -> Nat]
      /\ mem \in [Users \cup {"own"} -> Bytes] /\ seen \in [Users -> Bytes]
      /\ kind \in {"file", "memory"} /\ kind' = kind
  BY KindStays DEF SessionTypeOK
<1>1. CASE kind = "memory"
  <2>1. \A u \in Users : pc'[u] \notin {"openRead", "read"}
    BY <1>0, <1>1, CallStep DEF CallInv, MemoryPcs
  <2>. QED
    BY <1>0, <1>1, <2>1 DEF ReaderInv
<1>2. ASSUME kind = "file", NEW u \in Users, UserStep(u) PROVE ReaderInv'
  <2>1. \A w \in Users : w # u => /\ pc'[w] = pc[w] /\ off'[w] = off[w] /\ mem'[w] = mem[w]
                                  /\ seen'[w] = seen[w] \/ seen'[w] = Torn
    BY <1>2, OthersKeep
  <2>2. ASSUME Writing # {}
        PROVE  good = Torn /\ \A w \in Users : pc[w] \in {"openRead", "read"} => seen[w] = Torn
    BY <2>2 DEF WriterInv, ReaderInv
  <2>3. CASE OpenWrite(u)
    <3>1. good' = Torn /\ seen' = [w \in Users |-> Torn]
      BY <2>3 DEF OpenWrite
    <3>. QED
      BY <3>1 DEF ReaderInv
  <2>4. CASE WritePage(u)
    <3>1. u \in Writing /\ UNCHANGED <<good, seen, pc>>
      BY <2>4 DEF WritePage, Writing
    <3>. QED
      BY <2>2, <3>1 DEF ReaderInv
  <2>5. CASE CloseWrite(u)
    <3>1. /\ pc[u] = "write" /\ pc'[u] = "idle" /\ u \in Writing /\ UNCHANGED <<file, seen>>
          /\ off[u] = Len(mem[u]) /\ good' = IF alone[u] THEN mem[u] ELSE good
      BY <1>0, <2>5 DEF CloseWrite, Writing
    <3>2. alone[u] => file = mem[u]
      <4>1. ASSUME alone[u] PROVE Len(file) = Len(mem[u]) /\ SameUpTo(Len(file), file, mem[u])
        BY <3>1, <4>1 DEF WriterInv
      <4>. QED
        BY <1>0, <4>1, SameBytes
    <3>3. good' # Torn => file' = good'
      BY <2>2, <3>1, <3>2
    <3>4. \A w \in Users : pc'[w] \in {"openRead", "read"} => seen'[w] = Torn
      BY <2>1, <2>2, <3>1
    <3>. QED
      BY <3>3, <3>4 DEF ReaderInv
  <2>6. CASE CallLoad(u)
    <3>1. /\ pc'[u] = "openRead" /\ seen'[u] = good /\ UNCHANGED <<file, good>>
      BY <1>0, <1>2, <2>6 DEF CallLoad
    <3>. QED
      BY <1>0, <2>1, <3>1 DEF ReaderInv
  <2>7. CASE OpenRead(u)
    <3>1. /\ pc[u] = "openRead" /\ UNCHANGED <<file, good, off, seen>> /\ mem'[u] = <<>>
          /\ off[u] = 0
          /\ file = Absent => pc'[u] = "idle"
          /\ file # Absent => pc'[u] = "read"
      BY <1>0, <2>7 DEF OpenRead, CallInv
    <3>2. Len(mem'[u]) = 0 /\ Len(file) \in Nat
      BY <1>0, <3>1 DEF Bytes
    <3>3. off'[u] = 0 /\ off'[u] <= Len(file) /\ SameUpTo(0, mem'[u], file)
      BY <3>1, <3>2 DEF SameUpTo
    <3>. QED
      BY <1>0, <2>1, <3>1, <3>2, <3>3 DEF ReaderInv
  <2>8. CASE ReadPage(u)
    <3>1. /\ pc[u] = "read" /\ off[u] < Len(file) /\ UNCHANGED <<file, good, pc, seen>>
          /\ mem'[u] = Append(mem[u], file[off[u] + 1]) /\ off'[u] = off[u] + 1
      BY <1>0, <2>8 DEF ReadPage
    <3>2. ASSUME seen[u] # Torn
          PROVE  Len(mem'[u]) = off'[u] /\ off'[u] <= Len(file) /\ SameUpTo(off'[u], mem'[u], file)
      <4>1. Len(mem[u]) = off[u] /\ SameUpTo(off[u], mem[u], file)
        BY <3>1, <3>2 DEF ReaderInv
      <4>2. mem[u] \in Bytes /\ off[u] \in Nat /\ Len(file) \in Nat
        BY <1>0 DEF Bytes
      <4>3. /\ Len(mem'[u]) = off[u] + 1 /\ mem'[u][off[u] + 1] = file[off[u] + 1]
            /\ \A j \in 1 .. off[u] : mem'[u][j] = mem[u][j]
        BY <3>1, <4>1, <4>2 DEF Bytes
      <4>4. \A j \in 1 .. off[u] + 1 : j \in 1 .. off[u] \/ j = off[u] + 1
        BY <4>2
      <4>5. SameUpTo(off[u] + 1, mem'[u], file)
        BY <4>1, <4>3, <4>4 DEF SameUpTo
      <4>. QED
        BY <3>1, <4>2, <4>3, <4>5
    <3>. QED
      BY <1>0, <2>1, <3>1, <3>2 DEF ReaderInv
  <2>9. CASE ~(\/ OpenWrite(u) \/ WritePage(u) \/ CloseWrite(u)
               \/ CallLoad(u) \/ OpenRead(u) \/ ReadPage(u))
    <3>1. pc'[u] \notin {"openRead", "read"} /\ UNCHANGED <<file, good>>
      <4>0. pc[u] \in FilePcs
        BY <1>2 DEF CallInv
      <4>1. CASE \E v \in Values : CallSave(u, v)
        BY <1>0, <4>1 DEF CallSave
      <4>2. CASE Scribble(u) \/ MkdirAll(u) \/ SaveError(u)
        BY <1>0, <4>2 DEF Scribble, MkdirAll, SaveError
      <4>3. CASE ReadEnd(u) \/ ReadError(u)
        BY <1>0, <4>3 DEF ReadEnd, ReadError
      <4>. QED
        BY <1>2, <2>9, <4>0, <4>1, <4>2, <4>3
           DEF UserStep, Step, Lock, MakeData, CopyIn, CopyOut, FilePcs
    <3>. QED
      BY <1>0, <2>1, <3>1 DEF ReaderInv
  <2>. QED
    BY <2>3, <2>4, <2>5, <2>6, <2>7, <2>8, <2>9
<1>3. CASE kind = "file" /\ Restart
  <2>1. good' = good /\ file' = file /\ \A u \in Users : pc'[u] = "idle"
    BY <1>3 DEF Restart
  <2>. QED
    BY <1>0, <2>1 DEF ReaderInv
<1>4. CASE UNCHANGED vars
  BY <1>4 DEF vars, ReaderInv
<1>. QED
  BY <1>0, <1>1, <1>2, <1>3, <1>4 DEF Next, UserStep

\* The memory is good whenever nobody is between its two assignments.
LEMMA MemoryStep ==
  ASSUME SessionTypeOK, CallInv, MemoryInv, [Next]_vars
  PROVE  MemoryInv'
<1> USE DEF Go, Close, Returns, Forget, diskVars, memoryVars
<1>0. /\ pc \in [Users -> FilePcs \cup MemoryPcs] /\ data \in {"nil", "own"}
      /\ mem \in [Users \cup {"own"} -> Bytes]
      /\ kind \in {"file", "memory"} /\ kind' = kind
  BY KindStays DEF SessionTypeOK
<1>1. CASE kind = "file"
  BY <1>0, <1>1 DEF MemoryInv
<1>2. ASSUME kind = "memory", NEW u \in Users, UserStep(u) PROVE MemoryInv'
  <2>1. \A w \in Users : w # u => pc'[w] = pc[w]
    BY <1>2, OthersKeep
  <2>2. u # "own" /\ u # "free" /\ pc[u] \in MemoryPcs
    BY <1>2, UsersAssumption DEF CallInv
  <2>3. /\ good # Torn
        /\ \A w \in Users : /\ pc[w] \in {"make", "copyIn", "copyOut"} => mu = w
                            /\ pc[w] = "copyIn" => data = "own"
        /\ (\A w \in Users : pc[w] # "copyIn") =>
             IF good = Absent THEN data = "nil" ELSE data = "own" /\ mem["own"] = good
    BY <1>2 DEF MemoryInv
  <2>4. CASE Lock(u)
    <3>1. /\ mu = "free" /\ mu' = u /\ UNCHANGED <<data, mem, good>>
          /\ pc[u] # "copyIn" /\ pc'[u] \in {"make", "copyOut"}
      BY <1>0, <2>4 DEF Lock
    <3>2. \A w \in Users : pc[w] \notin {"make", "copyIn", "copyOut"}
      BY <2>3, <3>1, UsersAssumption
    <3>3. \A w \in Users : pc'[w] # "copyIn" /\ (pc'[w] \in {"make", "copyOut"} => w = u)
      BY <2>1, <3>1, <3>2
    <3>4. IF good = Absent THEN data = "nil" ELSE data = "own" /\ mem["own"] = good
      BY <2>3, <3>2
    <3>. QED
      BY <2>3, <3>1, <3>3, <3>4 DEF MemoryInv
  <2>5. CASE MakeData(u)
    <3>1. /\ pc[u] = "make" /\ pc'[u] = "copyIn" /\ data' = "own" /\ UNCHANGED <<mu, good>>
      BY <1>0, <2>5 DEF MakeData
    <3>2. \A w \in Users : pc'[w] \in {"make", "copyIn", "copyOut"} => mu = w
      BY <2>1, <2>3, <3>1
    <3>. QED
      BY <2>3, <3>1, <3>2 DEF MemoryInv
  <2>6. CASE CopyIn(u)
    <3>1. pc[u] = "copyIn" /\ pc'[u] = "idle" /\ good' = mem[u] /\ data' = data
      BY <1>0, <2>6 DEF CopyIn
    <3>2. data = "own" /\ mu = u /\ mem'["own"] = mem[u]
      BY <1>0, <2>3, <2>6, <3>1 DEF CopyIn
    <3>3. good' # Torn /\ good' # Absent
      BY <3>1, PagesOf DEF CallInv, Saving
    <3>4. \A w \in Users : pc'[w] \notin {"make", "copyIn", "copyOut"}
      BY <2>1, <2>3, <3>1, <3>2
    <3>. QED
      BY <3>1, <3>2, <3>3, <3>4 DEF MemoryInv
  <2>7. CASE CopyOut(u)
    <3>1. /\ pc[u] = "copyOut" /\ pc'[u] = "idle" /\ UNCHANGED <<data, good>>
          /\ mem' = mem \/ mem' = [mem EXCEPT ![u] = mem[data]]
      BY <1>0, <2>7 DEF CopyOut
    <3>2. mem'["own"] = mem["own"]
      BY <1>0, <2>2, <3>1
    <3>3. \A w \in Users : pc'[w] \notin {"make", "copyIn", "copyOut"}
      BY <2>1, <2>3, <3>1
    <3>4. \A w \in Users : pc[w] # "copyIn"
      BY <2>1, <2>3, <3>1
    <3>. QED
      BY <2>3, <3>1, <3>2, <3>3, <3>4 DEF MemoryInv
  <2>8. CASE ~(Lock(u) \/ MakeData(u) \/ CopyIn(u) \/ CopyOut(u))
    <3>1. /\ pc[u] \notin {"make", "copyIn", "copyOut"} /\ pc'[u] \notin {"make", "copyIn", "copyOut"}
          /\ UNCHANGED <<data, mu, good>> /\ mem'["own"] = mem["own"]
      <4>1. CASE \E v \in Values : CallSave(u, v)
        BY <1>0, <2>2, <4>1 DEF CallSave
      <4>2. CASE CallLoad(u) \/ Scribble(u)
        BY <1>0, <2>2, <4>2 DEF CallLoad, Scribble
      <4>. QED
        BY <1>2, <2>2, <2>8, <4>1, <4>2
           DEF UserStep, Step, MkdirAll, OpenWrite, WritePage, CloseWrite, OpenRead, ReadPage,
               ReadEnd, SaveError, ReadError, MemoryPcs
    <3>. QED
      BY <2>1, <2>3, <3>1 DEF MemoryInv
  <2>. QED
    BY <2>4, <2>5, <2>6, <2>7, <2>8
<1>3. CASE kind = "memory" /\ Restart
  <2>1. good' = Absent /\ data' = "nil" /\ \A u \in Users : pc'[u] = "idle"
    BY <1>3 DEF Restart
  <2>. QED
    BY <2>1, Marks DEF MemoryInv
<1>4. CASE UNCHANGED vars
  BY <1>4 DEF vars, MemoryInv
<1>. QED
  BY <1>0, <1>1, <1>2, <1>3, <1>4 DEF Next, UserStep

\* A Load that has returned keeps its answer, and the answer is right.
LEMMA ResultStep ==
  ASSUME SessionTypeOK, CallInv, MemoryInv, WriterInv, ReaderInv, LoadReturnsSaved, [Next]_vars
  PROVE  LoadReturnsSaved'
<1> USE DEF Go, Close, Returns, Forget, diskVars, memoryVars
<1> DEFINE Right(u) == Done(u) /\ seen[u] # Torn =>
                         IF seen[u] = Absent THEN ret[u].err = "ErrNotFound"
                         ELSE ret[u].err = "nil" /\ ret[u].data = seen[u]
<1>0. /\ pc \in [Users -> FilePcs \cup MemoryPcs] /\ data \in {"nil", "own"} /\ file \in Bytes
      /\ mem \in [Users \cup {"own"} -> Bytes] /\ seen \in [Users -> Bytes]
      /\ ret \in [Users -> [err : {"none", "nil", "io", "ErrNotFound"}, data : Bytes]]
      /\ kind \in {"file", "memory"} /\ kind' = kind
  BY KindStays DEF SessionTypeOK
<1>1. ASSUME NEW u \in Users, UserStep(u) PROVE LoadReturnsSaved'
  <2>1. ASSUME NEW w \in Users, w # u PROVE Right(w)'
    <3>1. pc'[w] = pc[w] /\ ret'[w] = ret[w] /\ (seen'[w] = seen[w] \/ seen'[w] = Torn)
      BY <1>1, <2>1, OthersKeep
    <3>2. Right(w)
      BY DEF LoadReturnsSaved
    <3>. QED
      BY <3>1, <3>2 DEF Done
  <2>2. CASE Scribble(u)
    BY <1>0, <2>2 DEF Scribble, LoadReturnsSaved, Done
  <2>3. CASE SaveError(u) \/ CloseWrite(u) \/ CopyIn(u)
    <3>1. ret'[u] = NoResult
      BY <2>3 DEF SaveError, CloseWrite, CopyIn, CallInv
    <3>2. ~Done(u)'
      BY <3>1 DEF Done, NoResult
    <3>. QED
      BY <2>1, <3>2 DEF LoadReturnsSaved
  <2>4. CASE OpenRead(u)
    <3>1. pc[u] = "openRead" /\ UNCHANGED seen /\ kind = "file"
      BY <1>0, <2>4 DEF OpenRead, CallInv, MemoryPcs
    <3>2. file # Absent => pc'[u] = "read"
      BY <1>0, <2>4 DEF OpenRead
    <3>3. file = Absent => ret'[u].err = "ErrNotFound"
      BY <1>0, <2>4 DEF OpenRead
    <3>4. seen[u] # Torn => seen[u] = file
      BY <3>1 DEF ReaderInv
    <3>5. Right(u)'
      BY <3>1, <3>2, <3>3, <3>4 DEF Done
    <3>. QED
      BY <2>1, <3>5 DEF LoadReturnsSaved
  <2>5. CASE ReadEnd(u)
    <3>1. /\ pc[u] = "read" /\ off[u] >= Len(file) /\ UNCHANGED seen /\ kind = "file"
          /\ ret'[u].err = "nil" /\ ret'[u].data = mem[u]
      BY <1>0, <2>5 DEF ReadEnd, CallInv, MemoryPcs
    <3>2. ASSUME seen[u] # Torn PROVE seen[u] # Absent /\ mem[u] = seen[u]
      <4>1. /\ seen[u] = file /\ file # Absent /\ Len(mem[u]) = off[u] /\ off[u] <= Len(file)
            /\ SameUpTo(off[u], mem[u], file)
        BY <3>1, <3>2 DEF ReaderInv
      <4>2. Len(mem[u]) = Len(file)
        <5>1. Len(file) \in Nat /\ Len(mem[u]) \in Nat
          BY <1>0 DEF Bytes
        <5>. QED
          BY <3>1, <4>1, <5>1
      <4>3. mem[u] = file
        BY <1>0, <4>1, <4>2, SameBytes
      <4>. QED
        BY <4>1, <4>3
    <3>3. Right(u)'
      BY <3>1, <3>2
    <3>. QED
      BY <2>1, <3>3 DEF LoadReturnsSaved
  <2>6. CASE ReadError(u)
    <3>1. ret'[u].err = "io"
      BY <1>0, <2>6 DEF ReadError
    <3>2. ~Done(u)'
      BY <3>1 DEF Done
    <3>. QED
      BY <2>1, <3>2 DEF LoadReturnsSaved
  <2>7. CASE CopyOut(u)
    <3>1. pc[u] = "copyOut" /\ seen'[u] = good /\ kind = "memory"
      BY <1>0, <2>7 DEF CopyOut, CallInv, FilePcs
    <3>2. data = "nil" => ret'[u].err = "ErrNotFound"
      BY <1>0, <2>7 DEF CopyOut
    <3>3. data = "own" => ret'[u].err = "nil" /\ ret'[u].data = mem["own"]
      BY <1>0, <2>7 DEF CopyOut
    <3>4. \A w \in Users : pc[w] # "copyIn"
      BY <3>1 DEF MemoryInv
    <3>5. IF good = Absent THEN data = "nil" ELSE data = "own" /\ mem["own"] = good
      BY <3>1, <3>4 DEF MemoryInv
    <3>6. Right(u)'
      BY <3>1, <3>2, <3>3, <3>5
    <3>. QED
      BY <2>1, <3>6 DEF LoadReturnsSaved
  <2>8. CASE ~(\/ Scribble(u) \/ SaveError(u) \/ CloseWrite(u) \/ CopyIn(u)
               \/ OpenRead(u) \/ ReadEnd(u) \/ ReadError(u) \/ CopyOut(u))
    <3>1. pc'[u] # "idle"
      <4>1. CASE (\E v \in Values : CallSave(u, v)) \/ CallLoad(u)
        BY <1>0, <4>1 DEF CallSave, CallLoad
      <4>2. CASE MkdirAll(u) \/ OpenWrite(u) \/ WritePage(u) \/ ReadPage(u)
        BY <1>0, <4>2 DEF MkdirAll, OpenWrite, WritePage, ReadPage
      <4>3. CASE Lock(u) \/ MakeData(u)
        BY <1>0, <4>3 DEF Lock, MakeData
      <4>. QED
        BY <1>1, <2>8, <4>1, <4>2, <4>3 DEF UserStep, Step
    <3>2. ~Done(u)'
      BY <3>1 DEF Done
    <3>. QED
      BY <2>1, <3>2 DEF LoadReturnsSaved
  <2>. QED
    BY <2>2, <2>3, <2>4, <2>5, <2>6, <2>7, <2>8
<1>2. CASE Restart
  BY <1>2 DEF Restart, LoadReturnsSaved
<1>3. CASE UNCHANGED vars
  BY <1>3 DEF vars, LoadReturnsSaved, Done
<1>. QED
  BY <1>1, <1>2, <1>3 DEF Next, UserStep

-----------------------------------------------------------------------------
\* The invariant of the session storages, from which the two properties follow.
THEOREM SessionSafe == Spec => []SessionInv
<1>1. SessionInv /\ [Next]_vars => SessionInv'
  BY SessionTypeStep, CallStep, WriterStep, ReaderStep, MemoryStep, ResultStep DEF SessionInv
<1>. QED
  BY <1>1, SessionInitial, PTL DEF Spec

\* A Load that no Save disturbed returns what the last Save saved, to the page,
\* and ErrNotFound exactly when there was none; from a File after a restart too.
THEOREM LoadIsRight == Spec => []LoadReturnsSaved
<1>1. SessionInv => LoadReturnsSaved
  BY DEF SessionInv
<1>. QED
  BY <1>1, SessionSafe, PTL

\* What is stored stays what was saved, whatever the callers do with their
\* slices, and Memory never shows a Save that is half done.
THEOREM StorageHolds == Spec => []StoredIsSaved
<1>1. SessionInv => StoredIsSaved
  <2> SUFFICES ASSUME SessionInv PROVE StoredIsSaved
    OBVIOUS
  <2>1. ASSUME kind = "memory", mu = "free"
        PROVE  IF good = Absent THEN data = "nil" ELSE data # "nil" /\ mem[data] = good
    <3>1. \A u \in Users : pc[u] # "copyIn"
      BY <2>1, UsersAssumption DEF SessionInv, MemoryInv
    <3>. QED
      BY <2>1, <3>1 DEF SessionInv, MemoryInv
  <2>. QED
    BY <2>1 DEF SessionInv, ReaderInv, MemoryInv, StoredIsSaved
<1>. QED
  BY <1>1, SessionSafe, PTL
=============================================================================
