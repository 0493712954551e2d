------------------------------- MODULE Upload -------------------------------
(***************************************************************************)
(* Uploader.Upload of transfer/uploader.go, with CalculateParts of         *)
(* transfer/chunker.go.                                                    *)
(*                                                                         *)
(* The goroutine that called Upload reads the source chunk by chunk and    *)
(* queues numbered jobs on a bounded channel; workers take jobs and save   *)
(* each part on the server with one Invoke.  A worker that fails leaves    *)
(* its error in a channel of capacity one and exits; that the server       *)
(* answers with boolFalse is not a failure.  The caller's context may be   *)
(* cancelled at any time.                                                  *)
(*                                                                         *)
(* The contents of chunk i of the source is represented by i.  The order   *)
(* of two steps of one goroutine with no step in between that another one  *)
(* could notice is one action.                                             *)
(***************************************************************************)
EXTENDS Integers, Sequences, FiniteSets

CONSTANTS
  Workers,        \* the worker goroutines
  Size,           \* the size the caller declares
  Length,         \* the number of bytes the source really has
  Custom,         \* the configured chunk size
  Default,        \* DefaultChunkSize, which is also the maximum
  KB,             \* 1024
  Threshold,      \* BigFileThreshold
  Faults          \* which failures the environment produces

ASSUME WorkersAssumption == IsFiniteSet(Workers) /\ Workers # {}
ASSUME SizesAssumption ==
  /\ Size \in Int /\ Length \in Nat /\ Custom \in Int /\ Threshold \in Nat
  /\ KB \in Nat \ {0} /\ Default \in Nat \ {0}
ASSUME FaultsAssumption == Faults \subseteq {"invoke", "refuse", "cancel", "read"}

-----------------------------------------------------------------------------
(* chunker.go                                                              *)

ChunkSize(custom) ==
  IF custom > 0 /\ custom % KB = 0 /\ Default % custom = 0 THEN custom ELSE Default

TotalParts(size, chunk) == IF size <= 0 THEN 1 ELSE (size + chunk - 1) \div chunk

\* NewUploader normalises the chunk size once, Upload does so again.
chunkSize  == ChunkSize(ChunkSize(Custom))
totalParts == TotalParts(Size, chunkSize)
isBig      == Size > Threshold

-----------------------------------------------------------------------------
VARIABLES
  prod,       \* where the goroutine of Upload is
  pos,        \* chunks read so far
  chunk,      \* the bytes of the chunk in hand
  end,        \* what ReadFull said with it: more, eof, error
  partIdx,    \* the next part number
  readErr,    \* the variable readErr, "none" for nil
  jobs,       \* the channel of jobs
  open,       \* it has not been closed
  errChan,    \* the channel of errors
  ctx,        \* the context is live
  work,       \* where each worker is
  job,        \* the job each worker has taken
  newTotal,   \* newTotal of each worker, 0 while it has none to report
  uploaded,   \* uploadedBytes
  reports,    \* history: the totals passed to progress, in the order of the calls
  stored,     \* what the server has stored: part number, contents, bytes
  refused,    \* history: what it has answered with boolFalse, and not stored
  result      \* what Upload returned

prodVars   == <<prod, pos, chunk, end, partIdx, readErr>>
chanVars   == <<jobs, open, errChan>>
workVars   == <<work, job, newTotal, uploaded, reports, stored, refused>>
uploadVars == <<prodVars, chanVars, ctx, workVars, result>>

NoJob     == [part |-> -1, data |-> -1, len |-> 0]
Jobs      == [part : Nat, data : Nat, len : Nat]
NoResult  == [ok |-> FALSE, err |-> "none", parts |-> 0]
Failed(e) == [ok |-> FALSE, err |-> e, parts |-> 0]
Ok(n)     == [ok |-> TRUE, err |-> "none", parts |-> n]
Errors    == {"ctx", "invoke", "read"}

UploadInit ==
  /\ prod = "read" /\ pos = 0 /\ chunk = 0 /\ end = "more"
  /\ partIdx = 0 /\ readErr = "none"
  /\ jobs = << >> /\ open = TRUE /\ errChan = << >>
  /\ ctx = TRUE
  /\ work = [w \in Workers |-> "idle"] /\ job = [w \in Workers |-> NoJob]
  /\ newTotal = [w \in Workers |-> 0] /\ uploaded = 0 /\ reports = << >>
  /\ stored = {} /\ refused = {}
  /\ result = NoResult

\* The caller cancels the context.
CancelCtx ==
  /\ "cancel" \in Faults
  /\ ctx
  /\ ctx' = FALSE
  /\ UNCHANGED <<prodVars, chanVars, workVars, result>>

-----------------------------------------------------------------------------
(* The goroutine of Upload                                                 *)

\* Mutant: jobs is never closed.
LoopEndsNoClose(err, how) ==
  /\ prod' = IF how = "more" THEN "read" ELSE "wait"
  /\ open' = open
  /\ readErr' = IF how = "error" THEN "read" ELSE err

\* The end of an iteration: go on reading, or leave the loop and close jobs.
LoopEnds(err, how) ==
  /\ prod' = IF how = "more" THEN "read" ELSE "wait"
  /\ open' = (how = "more")
  /\ readErr' = IF how = "error" THEN "read" ELSE err

\* io.ReadFull, as io documents it: a full chunk and no error; fewer bytes
\* and ErrUnexpectedEOF; no byte and EOF; or any number and another error.
ReadFull ==
  /\ prod = "read"
  /\ \E n \in 0 .. chunkSize, how \in {"more", "eof", "error"} :
       /\ LET rest == Length - pos * chunkSize
          IN  CASE how = "more"  -> n = chunkSize /\ n <= rest
                [] how = "eof"   -> n = rest /\ n < chunkSize
                [] how = "error" -> "read" \in Faults /\ n <= rest /\ n < chunkSize
       /\ chunk' = n
       /\ end' = how
       /\ IF n > 0
            THEN /\ pos' = pos + 1
                 /\ prod' = "queue"
                 /\ UNCHANGED <<readErr, open>>
            ELSE /\ UNCHANGED pos
                 /\ LoopEnds(readErr, how)
  /\ UNCHANGED <<partIdx, jobs, errChan, ctx, workVars, result>>

\* The select on the chunk in hand.  Its breaks leave the select, not the loop.
QueueCtxDone ==
  /\ prod = "queue"
  /\ ~ctx
  /\ LoopEnds("ctx", end)
  /\ UNCHANGED <<pos, chunk, end, partIdx, jobs, errChan, ctx, workVars, result>>

QueueError ==
  /\ prod = "queue"
  /\ errChan # << >>
  /\ errChan' = Tail(errChan)
  /\ LoopEnds(Head(errChan), end)
  /\ UNCHANGED <<pos, chunk, end, partIdx, jobs, ctx, workVars, result>>

\* Mutant: the chunk in hand is numbered by the chunks read so far.
QueueNumbersFromOne ==
  /\ prod = "queue"
  /\ Len(jobs) < Cardinality(Workers)
  /\ jobs' = Append(jobs, [part |-> partIdx + 1, data |-> pos - 1, len |-> chunk])
  /\ partIdx' = partIdx + 1
  /\ LoopEnds(readErr, end)
  /\ UNCHANGED <<pos, chunk, end, errChan, ctx, workVars, result>>

\* Mutant: the channel has no capacity bound.
QueueUnbounded ==
  /\ prod = "queue"
  /\ jobs' = Append(jobs, [part |-> partIdx, data |-> pos - 1, len |-> chunk])
  /\ partIdx' = partIdx + 1
  /\ LoopEnds(readErr, end)
  /\ UNCHANGED <<pos, chunk, end, errChan, ctx, workVars, result>>

QueueJob ==
  /\ prod = "queue"
  /\ Len(jobs) < Cardinality(Workers)
  /\ jobs' = Append(jobs, [part |-> partIdx, data |-> pos - 1, len |-> chunk])
  /\ partIdx' = partIdx + 1
  /\ LoopEnds(readErr, end)
  /\ UNCHANGED <<pos, chunk, end, errChan, ctx, workVars, result>>

\* wg.Wait, and the last look at the errors.
Return ==
  /\ prod = "wait"
  /\ \A w \in Workers : work[w] \in {"exited", "dropped", "failed"}
  /\ prod' = "returned"
  /\ \/ /\ readErr # "none"
        /\ result' = Failed(readErr)
        /\ UNCHANGED errChan
     \/ /\ readErr = "none" /\ errChan # << >>
        /\ result' = Failed(Head(errChan))
        /\ errChan' = Tail(errChan)
     \/ /\ readErr = "none" /\ errChan = << >>
        /\ result' = Ok(partIdx)
        /\ UNCHANGED errChan
  /\ UNCHANGED <<pos, chunk, end, partIdx, readErr, jobs, open, ctx, workVars>>

-----------------------------------------------------------------------------
(* A worker                                                                *)

\* Take a job; drop it and exit if the context is done.
TakeJob(w) ==
  /\ work[w] = "idle"
  /\ jobs # << >>
  /\ jobs' = Tail(jobs)
  /\ \/ /\ ctx
        /\ work' = [work EXCEPT ![w] = "invoke"]
        /\ job' = [job EXCEPT ![w] = Head(jobs)]
     \/ /\ ~ctx
        /\ work' = [work EXCEPT ![w] = "dropped"]
        /\ UNCHANGED job
  /\ UNCHANGED <<prodVars, open, errChan, ctx, newTotal, uploaded, reports, stored, refused, result>>

\* The channel is closed and empty.
WorkerExit(w) ==
  /\ work[w] = "idle"
  /\ jobs = << >> /\ ~open
  /\ work' = [work EXCEPT ![w] = "exited"]
  /\ UNCHANGED <<prodVars, chanVars, ctx, job, newTotal, uploaded, reports, stored, refused, result>>

\* Invoke of saveFilePart or saveBigFilePart answers with boolTrue: the part is
\* stored ...
PartSaved(w) ==
  /\ work[w] = "invoke"
  /\ stored' = stored \cup {job[w]}
  /\ work' = [work EXCEPT ![w] = "count"]
  /\ UNCHANGED <<prodVars, chanVars, ctx, job, newTotal, uploaded, reports, refused, result>>

\* ... or with boolFalse, which the worker does not look at ...
PartRefused(w) ==
  /\ work[w] = "invoke"
  /\ "refuse" \in Faults
  /\ refused' = refused \cup {job[w]}
  /\ work' = [work EXCEPT ![w] = "count"]
  /\ UNCHANGED <<prodVars, chanVars, ctx, job, newTotal, uploaded, reports, stored, result>>

\* ... or it fails, whether or not the server stored the part: the first
\* error stays in the channel, a later one is dropped.
PartFailed(w) ==
  /\ work[w] = "invoke"
  /\ "invoke" \in Faults \/ ~ctx
  /\ \/ stored' = stored \cup {job[w]}
     \/ UNCHANGED stored
  /\ errChan' = IF errChan = << >> THEN << IF ctx THEN "invoke" ELSE "ctx" >> ELSE errChan
  /\ work' = [work EXCEPT ![w] = "failed"]
  /\ job' = [job EXCEPT ![w] = NoJob]
  /\ UNCHANGED <<prodVars, jobs, open, ctx, newTotal, uploaded, reports, refused, result>>

\* uploadedBytes.Add gives the worker a total of its own ...
Count(w) ==
  /\ work[w] = "count"
  /\ uploaded' = uploaded + job[w].len
  /\ newTotal' = [newTotal EXCEPT ![w] = uploaded']
  /\ work' = [work EXCEPT ![w] = "report"]
  /\ UNCHANGED <<prodVars, chanVars, ctx, job, reports, stored, refused, result>>

\* Mutant: progress is called with what the counter is by then.
ReportLoaded(w) ==
  /\ work[w] = "report"
  /\ reports' = Append(reports, uploaded)
  /\ newTotal' = [newTotal EXCEPT ![w] = 0]
  /\ work' = [work EXCEPT ![w] = "idle"]
  /\ job' = [job EXCEPT ![w] = NoJob]
  /\ UNCHANGED <<prodVars, chanVars, ctx, uploaded, stored, refused, result>>

\* ... which it passes to progress.  Another worker may overtake it in between.
Report(w) ==
  /\ work[w] = "report"
  /\ reports' = Append(reports, newTotal[w])
  /\ newTotal' = [newTotal EXCEPT ![w] = 0]
  /\ work' = [work EXCEPT ![w] = "idle"]
  /\ job' = [job EXCEPT ![w] = NoJob]
  /\ UNCHANGED <<prodVars, chanVars, ctx, uploaded, stored, refused, result>>

-----------------------------------------------------------------------------
Producer == ReadFull \/ QueueCtxDone \/ QueueError \/ QueueJob \/ Return

Worker(w) ==
  \/ TakeJob(w) \/ WorkerExit(w)
  \/ PartSaved(w) \/ PartRefused(w) \/ PartFailed(w)
  \/ Count(w) \/ Report(w)

UploadNext == Producer \/ (\E w \in Workers : Worker(w)) \/ CancelCtx

UploadSpec == UploadInit /\ [][UploadNext]_uploadVars

(***************************************************************************)
(* Every goroutine that can move moves; Invoke returns within its timeout  *)
(* of 60 s, with or without an answer.  Nobody has to cancel.              *)
(***************************************************************************)
UploadFairSpec ==
  UploadSpec /\ WF_uploadVars(Producer) /\ \A w \in Workers : WF_uploadVars(Worker(w))

-----------------------------------------------------------------------------
(***************************************************************************)
(* Properties                                                              *)
(***************************************************************************)

UploadTypeOK ==
  /\ prod \in {"read", "queue", "wait", "returned"}
  /\ pos \in Nat /\ chunk \in 0 .. chunkSize /\ end \in {"more", "eof", "error"}
  /\ partIdx \in Nat /\ readErr \in Errors \cup {"none"}
  /\ jobs \in Seq(Jobs) /\ open \in BOOLEAN /\ ctx \in BOOLEAN
  /\ errChan \in Seq({"invoke", "ctx"}) /\ Len(errChan) <= 1
  /\ work \in [Workers -> {"idle", "invoke", "count", "report", "exited", "dropped", "failed"}]
  /\ job \in [Workers -> Jobs \cup {NoJob}]
  /\ newTotal \in [Workers -> Nat] /\ uploaded \in Nat /\ reports \in Seq(Nat)
  /\ stored \subseteq Jobs /\ refused \subseteq Jobs
  /\ result \in [ok : BOOLEAN, err : Errors \cup {"none"}, parts : Nat]

Returned == prod = "returned"

\* The parts a complete upload leaves on the server.
WholeFile ==
  {[part |-> i, data |-> i,
    len |-> IF (i + 1) * chunkSize <= Length THEN chunkSize ELSE Length - i * chunkSize] :
      i \in 0 .. ((Length + chunkSize - 1) \div chunkSize) - 1}

\* The parts that an Invoke has ended without an error, or that were stored
\* although it failed.
Settled == stored \cup refused

(***************************************************************************)
(* Upload reports success only if every chunk of the source was sent under *)
(* its own number and answered, no worker has failed, and the returned     *)
(* number of parts is that of the source and the one announced with every  *)
(* big part (if the source is as long as declared and not empty).  The     *)
(* chunk in hand when an error is seen gets no number and later chunks get *)
(* numbers too small: such an upload must not succeed.                     *)
(*                                                                         *)
(* There are two exceptions, and no other way to lose a part: an answer of *)
(* boolFalse counts as success, so the parts that the server refused are   *)
(* missing; and with a cancelled context a worker drops its job without an *)
(* error, and if everything was queued by then nobody notices.             *)
(***************************************************************************)
OkMeansStored ==
  Returned /\ result.ok =>
    /\ Settled \subseteq WholeFile
    /\ \/ WholeFile \ stored \subseteq refused
       \/ ~ctx /\ \E w \in Workers : work[w] = "dropped"
    /\ \A w \in Workers : work[w] # "failed"
    /\ result.parts = Cardinality(WholeFile)
    /\ Size = Length /\ Size > 0 => result.parts = totalParts

(***************************************************************************)
(* Memory is bounded by the workers, whatever the size of the source: at   *)
(* most one chunk per worker, one per place of the channel, and one in     *)
(* hand.                                                                   *)
(***************************************************************************)
Buffered == Len(jobs) + Cardinality({w \in Workers : job[w] # NoJob})
BoundedMemory == Buffered <= 2 * Cardinality(Workers)

(***************************************************************************)
(* Progress is told each total once, whatever workers count and report in  *)
(* whatever order: no two calls have the same total, none has more than    *)
(* was counted, there are never more calls than parts answered, and after  *)
(* a success there was one for every part, one of them with the size of    *)
(* the source.  That one need not be the last: workers overtake each other *)
(* between counting and reporting.                                         *)
(***************************************************************************)
ProgressAddsUp ==
  /\ \A i, j \in 1 .. Len(reports) : i # j => reports[i] # reports[j]
  /\ \A i \in 1 .. Len(reports) : reports[i] > 0 /\ reports[i] <= uploaded
  /\ Len(reports) + Cardinality({w \in Workers : work[w] \in {"count", "report"}})
       <= Cardinality(Settled)
  /\ Returned /\ result.ok /\ ctx =>
       /\ Len(reports) = result.parts
       /\ Length > 0 => \E i \in 1 .. Len(reports) : reports[i] = Length

(***************************************************************************)
(* Upload returns, unless every worker has failed while the context is     *)
(* live: then nobody takes from the channel of jobs any more.              *)
(***************************************************************************)
NobodyLeft == ctx /\ \A w \in Workers : work[w] = "failed"
UploadEnds == <>(Returned \/ NobodyLeft)

=============================================================================
