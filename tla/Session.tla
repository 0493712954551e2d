------------------------------ MODULE Session ------------------------------
(***************************************************************************)
(* Session storage, mtproto/session: File and Memory, the two Storages a   *)
(* Config may hold, used by several goroutines of the application.         *)
(*                                                                         *)
(* A file is a sequence of pages.  os.WriteFile and os.ReadFile are        *)
(* external: open, then one page at a time at the offset of their own      *)
(* descriptor, so that two calls, a full disk or the end of the process    *)
(* may come in between.  A slice is a place of memory: whoever has it may  *)
(* write into it after the call.                                           *)
(***************************************************************************)
EXTENDS Naturals, Sequences

CONSTANTS
  Users,         \* goroutines that call the storage
  Values, Size,  \* what is saved, and how many pages it fills
  Kinds,         \* {"file", "memory"} or one of them
  MaxSaves, MaxLoads, MaxRestarts   \* bounds

ASSUME SessionAssumption ==
  /\ Size \in [Values -> Nat]
  /\ Kinds \subseteq {"file", "memory"}
  /\ {MaxSaves, MaxLoads, MaxRestarts} \subseteq Nat
ASSUME UsersAssumption == Users \cap {"own", "nil", "free"} = {}

Pages(v) == [k \in 1 .. Size[v] |-> <<v, k>>]
Hole     == <<"hole", 0>>
Absent   == <<<<"absent", 0>>>>    \* no file
Torn     == <<<<"torn", 0>>>>
NoResult == [err |-> "none", data |-> <<>>]

VARIABLES
  kind,      \* which Storage this is
  file,      \* the pages on disk, or Absent
  data,      \* m.data: "nil", or whose memory it points to
  mem,       \* contents of the slices: the storage's own, and one per user
  mu,        \* m.mu: its holder, or "free"
  pc, off,   \* per user: where the call is, its file offset
  ret,       \* per user: what the last Load returned: [err, data]
  good,      \* history: the pages a Load has to find, Absent or Torn
  alone,     \* history: no other Save wrote during this one
  seen,      \* history: good as the Load has seen it from its start on
  saves, loads, restarts

vars == <<kind, file, data, mem, mu, pc, off, ret, good, alone, seen,
          saves, loads, restarts>>
diskVars == <<file, off, alone>>
memoryVars == <<data, mem, mu>>

Init ==
  /\ kind \in Kinds
  /\ file = Absent /\ good = Absent
  /\ data = "nil" /\ mu = "free"
  /\ mem = [u \in Users \cup {"own"} |-> <<>>]
  /\ pc = [u \in Users |-> "idle"]
  /\ off = [u \in Users |-> 0]
  /\ ret = [u \in Users |-> NoResult]
  /\ alone = [u \in Users |-> FALSE]
  /\ seen = [u \in Users |-> Torn]
  /\ saves = 0 /\ loads = 0 /\ restarts = 0

Forget(u) == ret' = [ret EXCEPT ![u] = NoResult] /\ seen' = [seen EXCEPT ![u] = Torn]
Go(u, there) == pc' = [pc EXCEPT ![u] = there]
Returns(u, e, d) == ret' = [ret EXCEPT ![u] = [err |-> e, data |-> d]] /\ Go(u, "idle")
Close(u) == off' = [off EXCEPT ![u] = 0] /\ alone' = [alone EXCEPT ![u] = FALSE]

\* The application calls Save(v) with a slice of its own, or Load().
CallSave(u, v) ==
  /\ pc[u] = "idle" /\ saves < MaxSaves
  /\ Go(u, IF kind = "file" THEN "mkdir" ELSE "lockSave")
  /\ mem' = [mem EXCEPT ![u] = Pages(v)]
  /\ saves' = saves + 1
  /\ Forget(u)
  /\ UNCHANGED <<kind, file, data, mu, off, good, alone, loads, restarts>>

CallLoad(u) ==
  /\ pc[u] = "idle" /\ loads < MaxLoads
  /\ Go(u, IF kind = "file" THEN "openRead" ELSE "lockLoad")
  /\ seen' = [seen EXCEPT ![u] = good]
  /\ ret' = [ret EXCEPT ![u] = NoResult]
  /\ loads' = loads + 1
  /\ UNCHANGED <<kind, file, data, mem, mu, off, good, alone, saves, restarts>>

\* It writes over the slice that it saved, or that Load gave it.  (A File keeps
\* no slice.)
Scribble(u) ==
  /\ kind = "memory" /\ pc[u] = "idle" /\ mem[u] # <<Hole>>
  /\ mem' = [mem EXCEPT ![u] = <<Hole>>]
  /\ UNCHANGED <<kind, file, data, mu, pc, off, ret, good, alone, seen,
                 saves, loads, restarts>>

-----------------------------------------------------------------------------
(***************************************************************************)
(* File                                                                    *)
(***************************************************************************)

Writing == {u \in Users : pc[u] = "write"}

WriteAt(f, k, page) ==
  [j \in 1 .. (IF Len(f) < k THEN k ELSE Len(f)) |->
     IF j = k THEN page ELSE IF j <= Len(f) THEN f[j] ELSE Hole]

\* A Save returns without having come to the end of the file.
SaveError(u) ==
  /\ pc[u] \in {"mkdir", "openWrite", "write"}
  /\ Go(u, "idle")
  /\ Close(u)
  /\ UNCHANGED <<kind, file, memoryVars, ret, good, seen, saves, loads, restarts>>

MkdirAll(u) ==
  /\ pc[u] = "mkdir"
  /\ Go(u, "openWrite")
  /\ UNCHANGED <<kind, diskVars, memoryVars, ret, good, seen, saves, loads, restarts>>

\* O_CREATE and O_TRUNC: from here on what was saved before is gone.
OpenWrite(u) ==
  /\ pc[u] = "openWrite"
  /\ file' = <<>>
  /\ alone' = [w \in Users |-> w = u /\ Writing = {}]
  /\ good' = Torn
  /\ seen' = [w \in Users |-> Torn]
  /\ Go(u, "write")
  /\ UNCHANGED <<kind, off, memoryVars, ret, saves, loads, restarts>>

WritePage(u) ==
  /\ pc[u] = "write" /\ off[u] < Len(mem[u])
  /\ file' = WriteAt(file, off[u] + 1, mem[u][off[u] + 1])
  /\ off' = [off EXCEPT ![u] = @ + 1]
  /\ UNCHANGED <<kind, memoryVars, pc, ret, good, alone, seen, saves, loads, restarts>>

CloseWrite(u) ==
  /\ pc[u] = "write" /\ off[u] = Len(mem[u])
  /\ good' = IF alone[u] THEN mem[u] ELSE good
  /\ Go(u, "idle")
  /\ Close(u)
  /\ UNCHANGED <<kind, file, memoryVars, ret, seen, saves, loads, restarts>>

\* Mutant: a missing file is an empty session.
OpenReadLenient(u) ==
  /\ pc[u] = "openRead"
  /\ IF file = Absent THEN Returns(u, "nil", <<>>) ELSE Go(u, "read") /\ UNCHANGED ret
  /\ mem' = [mem EXCEPT ![u] = <<>>]
  /\ UNCHANGED <<kind, diskVars, data, mu, good, seen, saves, loads, restarts>>

OpenRead(u) ==
  /\ pc[u] = "openRead"
  /\ IF file = Absent THEN Returns(u, "ErrNotFound", <<>>) ELSE Go(u, "read") /\ UNCHANGED ret
  /\ mem' = [mem EXCEPT ![u] = <<>>]
  /\ UNCHANGED <<kind, diskVars, data, mu, good, seen, saves, loads, restarts>>

ReadPage(u) ==
  /\ pc[u] = "read" /\ off[u] < Len(file)
  /\ mem' = [mem EXCEPT ![u] = Append(@, file[off[u] + 1])]
  /\ off' = [off EXCEPT ![u] = @ + 1]
  /\ UNCHANGED <<kind, file, data, mu, pc, ret, good, alone, seen, saves, loads, restarts>>

ReadEnd(u) ==
  /\ pc[u] = "read" /\ off[u] >= Len(file)
  /\ Returns(u, "nil", mem[u])
  /\ Close(u)
  /\ UNCHANGED <<kind, file, memoryVars, good, seen, saves, loads, restarts>>

\* Any other error of the disk comes back with the pages read so far.
ReadError(u) ==
  /\ pc[u] \in {"openRead", "read"}
  /\ Returns(u, "io", mem[u])
  /\ Close(u)
  /\ UNCHANGED <<kind, file, memoryVars, good, seen, saves, loads, restarts>>

-----------------------------------------------------------------------------
(***************************************************************************)
(* Memory                                                                  *)
(***************************************************************************)

Lock(u) ==
  /\ pc[u] \in {"lockSave", "lockLoad"} /\ mu = "free"
  /\ mu' = u
  /\ Go(u, IF pc[u] = "lockSave" THEN "make" ELSE "copyOut")
  /\ UNCHANGED <<kind, diskVars, data, mem, ret, good, seen, saves, loads, restarts>>

\* m.data = make([]byte, len(data))
MakeData(u) ==
  /\ pc[u] = "make"
  /\ data' = "own"
  /\ mem' = [mem EXCEPT !["own"] = [k \in DOMAIN mem[u] |-> Hole]]
  /\ Go(u, "copyIn")
  /\ UNCHANGED <<kind, diskVars, mu, ret, good, seen, saves, loads, restarts>>

\* Mutant: the caller's slice is kept.
CopyInAlias(u) ==
  /\ pc[u] = "copyIn"
  /\ data' = u
  /\ mu' = "free"
  /\ good' = mem[u]
  /\ Go(u, "idle")
  /\ UNCHANGED <<kind, diskVars, mem, ret, seen, saves, loads, restarts>>

\* copy(m.data, data), and the deferred Unlock.
CopyIn(u) ==
  /\ pc[u] = "copyIn"
  /\ mem' = [mem EXCEPT ![data] = mem[u]]
  /\ mu' = "free"
  /\ good' = mem[u]
  /\ Go(u, "idle")
  /\ UNCHANGED <<kind, diskVars, data, ret, seen, saves, loads, restarts>>

\* Mutant: the early return keeps the lock.
CopyOutLocked(u) ==
  /\ pc[u] = "copyOut"
  /\ seen' = [seen EXCEPT ![u] = good]
  /\ IF data = "nil"
       THEN Returns(u, "ErrNotFound", <<>>) /\ UNCHANGED <<mem, mu>>
       ELSE Returns(u, "nil", mem[data]) /\ mem' = [mem EXCEPT ![u] = mem[data]] /\ mu' = "free"
  /\ UNCHANGED <<kind, diskVars, data, good, saves, loads, restarts>>

\* The rest of Load under the lock.
CopyOut(u) ==
  /\ pc[u] = "copyOut"
  /\ seen' = [seen EXCEPT ![u] = good]
  /\ IF data = "nil"
       THEN Returns(u, "ErrNotFound", <<>>) /\ UNCHANGED mem
       ELSE Returns(u, "nil", mem[data]) /\ mem' = [mem EXCEPT ![u] = mem[data]]
  /\ mu' = "free"
  /\ UNCHANGED <<kind, diskVars, data, good, saves, loads, restarts>>

-----------------------------------------------------------------------------
\* The process ends at any point and starts again: the file is what is left.
Restart ==
  /\ restarts < MaxRestarts
  /\ restarts' = restarts + 1
  /\ data' = "nil" /\ mu' = "free"
  /\ mem' = [s \in DOMAIN mem |-> <<>>]
  /\ pc' = [u \in Users |-> "idle"]
  /\ ret' = [u \in Users |-> NoResult]
  /\ seen' = [u \in Users |-> Torn]
  /\ good' = IF kind = "memory" THEN Absent ELSE good
  /\ off' = [u \in Users |-> 0] /\ alone' = [u \in Users |-> FALSE]
  /\ UNCHANGED <<kind, file, saves, loads>>

Step(u) ==
  \/ MkdirAll(u) \/ OpenWrite(u) \/ WritePage(u) \/ CloseWrite(u)
  \/ OpenRead(u) \/ ReadPage(u) \/ ReadEnd(u)
  \/ MakeData(u) \/ CopyIn(u) \/ CopyOut(u)

Next ==
  \/ \E u \in Users : \/ (\E v \in Values : CallSave(u, v)) \/ CallLoad(u) \/ Scribble(u)
                      \/ Step(u) \/ Lock(u) \/ SaveError(u) \/ ReadError(u)
  \/ Restart

\* A goroutine in a call runs on.  A sync.Mutex that is waited for long enough
\* goes to the waiter (its starvation mode).
Fairness == \A u \in Users : WF_vars(Step(u)) /\ SF_vars(Lock(u))

Spec == Init /\ [][Next]_vars /\ Fairness

-----------------------------------------------------------------------------
(***************************************************************************)
(* Properties                                                              *)
(***************************************************************************)

Done(u) == pc[u] = "idle" /\ ret[u].err \in {"nil", "ErrNotFound"}

(***************************************************************************)
(* Load returns, to the page, what the last Save saved, after a restart    *)
(* too, and ErrNotFound exactly when nothing was ever saved.  For a File   *)
(* there are exceptions, which good = Torn names: a Save that failed or    *)
(* was killed after it had opened the file, a Save that another one        *)
(* overlapped, and a Load that a Save overlapped.                          *)
(***************************************************************************)
LoadReturnsSaved ==
  \A u \in Users :
    Done(u) /\ seen[u] # Torn =>
      IF seen[u] = Absent THEN ret[u].err = "ErrNotFound"
      ELSE ret[u].err = "nil" /\ ret[u].data = seen[u]

(***************************************************************************)
(* Between two Saves what is stored stays as it was saved, whatever the    *)
(* callers do with the slices they passed and received; a Save that is     *)
(* running or failed shows in a File, and never in Memory.                 *)
(***************************************************************************)
StoredIsSaved ==
  /\ kind = "file" /\ good # Torn => file = good
  /\ kind = "memory" => good # Torn
  /\ kind = "memory" /\ mu = "free" =>
       IF good = Absent THEN data = "nil" ELSE data # "nil" /\ mem[data] = good

\* Every call of Save and of Load returns, unless the process ends.
CallsReturn == \A u \in Users : pc[u] # "idle" ~> pc[u] = "idle"

=============================================================================
