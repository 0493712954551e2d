--------------------------- MODULE TransferProofs ---------------------------
(***************************************************************************)
(* Upload for any number of workers, any chunk size and any source: what   *)
(* success means, how much memory is used, and what progress is told.      *)
(* Download for any file and any chunk size: what the writer has got, and  *)
(* what success means.                                                     *)
(***************************************************************************)
EXTENDS Upload, Download, FiniteSetTheorems, SequenceTheorems, TLAPS

-----------------------------------------------------------------------------
(* Upload                                                                  *)

\* Where chunk n of the source begins.
Start(n) == n * chunkSize

\* The part that chunk i of the source has to become, and their number.
PartLen(i) == IF Start(i + 1) <= Length THEN chunkSize ELSE Length - Start(i)
Part(i)    == [part |-> i, data |-> i, len |-> PartLen(i)]
Parts      == (Length + chunkSize - 1) \div chunkSize

\* The parts that the workers have taken from the channel so far.
Taken == partIdx - Len(jobs)

\* A job is the right one, unless the producer has seen an error before.
Good(j, err) ==
  /\ j.part \in Nat /\ j.len > 0
  /\ err = "none" => j = Part(j.part)

\* What the producer knows of the source.
ProducerInv ==
  /\ open <=> prod \in {"read", "queue"}
  /\ prod = "read" => Start(pos) <= Length
  /\ prod = "queue" =>
       /\ pos > 0 /\ chunk > 0
       /\ end = "more" => chunk = chunkSize /\ Start(pos) <= Length
       /\ end = "eof"  => chunk < chunkSize /\ Start(pos - 1) + chunk = Length
  /\ readErr = "none" =>
       /\ pos = IF prod = "queue" THEN partIdx + 1 ELSE partIdx
       /\ prod \in {"wait", "returned"} =>
            Start(pos) >= Length /\ (pos > 0 => Start(pos - 1) < Length)

\* The channel holds consecutive parts, not more than it has places.
QueueInv ==
  /\ Len(jobs) <= Cardinality(Workers) /\ Len(jobs) <= partIdx
  /\ \A k \in 1 .. Len(jobs) : jobs[k].part = Taken + k - 1 /\ Good(jobs[k], readErr)

WorkPcs  == {"idle", "invoke", "count", "report", "exited", "dropped", "failed"}
Holds(w) == work[w] \in {"invoke", "count", "report"}

\* Every part is taken once, and is settled by the worker that took it.
HeldInv ==
  \A w \in Workers :
    /\ job[w] # NoJob <=> Holds(w)
    /\ Holds(w) => job[w].part < Taken /\ Good(job[w], readErr)
    /\ \A v \in Workers : Holds(w) /\ Holds(v) /\ v # w => job[w].part # job[v].part
    /\ work[w] = "invoke" => \A s \in Settled : s.part # job[w].part
    /\ work[w] = "count" => job[w] \in Settled

SettledInv == \A s \in Settled : s.part < Taken /\ Good(s, readErr)

\* A part that was taken is settled, on its way, or some worker has given up.
CoverInv ==
  \A i \in Nat : i < Taken =>
    \/ \E s \in Settled : s.part = i
    \/ \E w \in Workers : work[w] = "invoke" /\ job[w].part = i
    \/ \E w \in Workers : work[w] \in {"failed", "dropped"}

\* No error gets lost, and workers leave for a reason.
ErrorInv ==
  /\ \A w \in Workers : /\ work[w] = "dropped" => ~ctx
                        /\ work[w] = "exited" => jobs = << >> /\ ~open
                        /\ work[w] = "failed" /\ readErr = "none" /\ prod # "returned"
                             => errChan # << >>
  /\ prod = "returned" => \A w \in Workers : work[w] \in {"exited", "dropped", "failed"}
  /\ prod = "returned" /\ result.ok =>
       /\ readErr = "none" /\ result.parts = partIdx
       /\ \A w \in Workers : work[w] # "failed"

UploadInv ==
  /\ UploadTypeOK /\ ProducerInv /\ QueueInv /\ HeldInv /\ SettledInv /\ CoverInv /\ ErrorInv

-----------------------------------------------------------------------------
\* Whatever is configured, a chunk has at least one byte.
LEMMA ChunkSizePositive == chunkSize \in Nat \ {0}
BY SizesAssumption DEF chunkSize, ChunkSize

\* What multiplying by the chunk size does to neighbours.
LEMMA NextChunk ==
  ASSUME NEW a \in Int
  PROVE  /\ Start(a) \in Int
         /\ Start(a + 1) = Start(a) + chunkSize
         /\ Start(a - 1) = Start(a) - chunkSize
<1> DEFINE c == chunkSize
<1>1. c \in Int
  BY ChunkSizePositive
<1> HIDE DEF c
<1>2. a * c \in Int /\ (a + 1) * c = a * c + c /\ (a - 1) * c = a * c - c
  BY <1>1
<1>. QED
  BY <1>2 DEF c, Start

\* The arithmetic of the place in the source.
LEMMA Counters ==
  ASSUME UploadTypeOK
  PROVE  /\ pos \in Nat /\ partIdx \in Nat /\ Start(pos) \in Int
         /\ chunkSize \in Nat /\ chunkSize > 0 /\ Length \in Nat /\ chunk \in Int
         /\ Start(pos + 1) = Start(pos) + chunkSize /\ Start(pos - 1) = Start(pos) - chunkSize
<1>1. pos \in Nat /\ partIdx \in Nat /\ chunk \in 0 .. chunkSize
  BY DEF UploadTypeOK
<1>2. chunkSize \in Nat /\ chunkSize > 0 /\ Length \in Nat
  BY ChunkSizePositive, SizesAssumption
<1>. QED
  BY <1>1, <1>2, NextChunk

\* What a call of io.ReadFull leaves behind.
LEMMA AfterReadFull ==
  ASSUME ReadFull
  PROVE  /\ prod = "read"
         /\ chunk' \in 0 .. chunkSize /\ end' \in {"more", "eof", "error"}
         /\ end' = "more" => chunk' = chunkSize /\ chunk' <= Length - Start(pos)
         /\ end' = "eof" => chunk' = Length - Start(pos) /\ chunk' < chunkSize
         /\ chunk' > 0 => pos' = pos + 1 /\ prod' = "queue" /\ UNCHANGED <<readErr, open>>
         /\ ~(chunk' > 0) => pos' = pos /\ LoopEnds(readErr, end')
         /\ UNCHANGED <<partIdx, jobs, errChan, ctx, workVars, result>>
<1>1. PICK n \in 0 .. chunkSize, how \in {"more", "eof", "error"} :
        /\ how = "more" => n = chunkSize /\ n <= Length - Start(pos)
        /\ how = "eof" => n = Length - Start(pos) /\ n < chunkSize
        /\ chunk' = n /\ end' = how
        /\ IF n > 0 THEN pos' = pos + 1 /\ prod' = "queue" /\ UNCHANGED <<readErr, open>>
                    ELSE UNCHANGED pos /\ LoopEnds(readErr, how)
  BY Zenon DEF ReadFull, Start
<1>. QED
  BY <1>1 DEF ReadFull

\* Every step keeps the types; that a worker that saves or counts has a job,
\* and that a chunk in hand has been read, is needed for it.
LEMMA TypeStep ==
  ASSUME UploadTypeOK, ProducerInv, HeldInv, [UploadNext]_uploadVars
  PROVE  UploadTypeOK'
<1> USE DEF UploadTypeOK, WorkPcs, prodVars, chanVars, workVars
<1>0. ASSUME NEW w \in Workers, Holds(w) PROVE job[w] \in Jobs /\ job[w].len \in Nat
  BY <1>0 DEF HeldInv, Jobs
<1>1. CASE ReadFull
  <2>1. prod' \in {"read", "queue", "wait"} /\ open' \in BOOLEAN
    BY <1>1, AfterReadFull DEF LoopEnds
  <2>2. pos' \in Nat /\ readErr' \in Errors \cup {"none"}
    BY <1>1, AfterReadFull DEF LoopEnds, Errors
  <2>. QED
    BY <1>1, <2>1, <2>2, AfterReadFull
<1>2. CASE QueueCtxDone
  BY <1>2 DEF QueueCtxDone, LoopEnds, Errors
<1>3. CASE QueueError
  BY <1>3 DEF QueueError, LoopEnds, Errors
<1>4. CASE QueueJob
  <2>1. [part |-> partIdx, data |-> pos - 1, len |-> chunk] \in Jobs
    BY <1>4, ChunkSizePositive DEF QueueJob, ProducerInv, Jobs
  <2>. QED
    BY <1>4, <2>1 DEF QueueJob, LoopEnds, Errors
<1>5. CASE Return
  <2>1. errChan' \in Seq({"invoke", "ctx"}) /\ Len(errChan') <= 1
    BY <1>5 DEF Return
  <2>2. errChan # << >> => Head(errChan) \in {"invoke", "ctx"}
    OBVIOUS
  <2>3. \/ \E e \in Errors : result' = Failed(e)
        \/ result' = Ok(partIdx)
    BY <1>5, <2>2 DEF Return, Errors
  <2>4. \A e \in Errors : Failed(e) \in [ok : BOOLEAN, err : Errors \cup {"none"}, parts : Nat]
    BY DEF Failed
  <2>5. Ok(partIdx) \in [ok : BOOLEAN, err : Errors \cup {"none"}, parts : Nat]
    BY DEF Ok
  <2>. QED
    BY <1>5, <2>1, <2>3, <2>4, <2>5 DEF Return
<1>6. ASSUME NEW w \in Workers, TakeJob(w) PROVE UploadTypeOK'
  <2>1. jobs' \in Seq(Jobs) /\ Head(jobs) \in Jobs
    BY <1>6, HeadTailProperties DEF TakeJob, UploadTypeOK
  <2>2. /\ work' \in [Workers -> WorkPcs]
        /\ job' \in [Workers -> Jobs \cup {NoJob}]
    <3>1. \/ /\ work' = [work EXCEPT ![w] = "invoke"]
             /\ job' = [job EXCEPT ![w] = Head(jobs)]
          \/ work' = [work EXCEPT ![w] = "dropped"] /\ job' = job
      BY <1>6 DEF TakeJob
    <3>2. /\ work \in [Workers -> WorkPcs]
          /\ job \in [Workers -> Jobs \cup {NoJob}]
      BY DEF UploadTypeOK
    <3> HIDE DEF UploadTypeOK
    <3>. QED
      BY <2>1, <3>1, <3>2
  <2>. QED
    BY <1>6, <2>1, <2>2 DEF TakeJob, UploadTypeOK, prodVars
<1>7. ASSUME NEW w \in Workers, WorkerExit(w) PROVE UploadTypeOK'
  BY <1>7 DEF WorkerExit
<1>8. ASSUME NEW w \in Workers, PartSaved(w) \/ PartRefused(w) PROVE UploadTypeOK'
  BY <1>0, <1>8 DEF PartSaved, PartRefused, Holds
<1>9. ASSUME NEW w \in Workers, PartFailed(w) PROVE UploadTypeOK'
  <2>1. errChan' \in Seq({"invoke", "ctx"}) /\ Len(errChan') <= 1
    <3>1. CASE errChan = << >>
      <4>1. PICK e \in {"invoke", "ctx"} : errChan' = <<e>>
        BY <1>9, <3>1, Zenon DEF PartFailed
      <4>. QED
        BY <4>1
    <3>2. CASE errChan # << >>
      BY <1>9, <3>2 DEF PartFailed
    <3>. QED
      BY <3>1, <3>2
  <2>2. stored' \subseteq Jobs
    BY <1>0, <1>9 DEF PartFailed, Holds
  <2>. QED
    BY <1>9, <2>1, <2>2 DEF PartFailed
<1>10. ASSUME NEW w \in Workers, Count(w) PROVE UploadTypeOK'
  <2>1. job[w].len \in Nat
    BY <1>0, <1>10 DEF Count, Holds
  <2>2. uploaded' \in Nat
    BY <1>10, <2>1 DEF Count
  <2>. QED
    BY <1>10, <2>2 DEF Count
<1>11. ASSUME NEW w \in Workers, Report(w) PROVE UploadTypeOK'
  BY <1>11 DEF Report
<1>12. CASE CancelCtx
  BY <1>12 DEF CancelCtx
<1>13. CASE UNCHANGED uploadVars
  BY <1>13 DEF uploadVars
<1>. QED
  BY <1>1, <1>2, <1>3, <1>4, <1>5, <1>6, <1>7, <1>8, <1>9, <1>10, <1>11, <1>12, <1>13
     DEF UploadNext, Producer, Worker

-----------------------------------------------------------------------------
\* An error that the producer has seen stays with it.
LEMMA ErrorStays ==
  ASSUME UploadTypeOK, [UploadNext]_uploadVars
  PROVE  readErr' = "none" => readErr = "none"
<1> USE DEF prodVars, chanVars, workVars
<1>1. CASE ReadFull
  BY <1>1, AfterReadFull DEF LoopEnds
<1>2. CASE QueueCtxDone
  BY <1>2 DEF QueueCtxDone, LoopEnds
<1>3. CASE QueueError
  <2>1. Head(errChan) \in {"invoke", "ctx"}
    BY <1>3 DEF QueueError, UploadTypeOK
  <2>. QED
    BY <1>3, <2>1 DEF QueueError, LoopEnds
<1>4. CASE QueueJob
  BY <1>4 DEF QueueJob, LoopEnds
<1>5. CASE Return \/ CancelCtx \/ UNCHANGED uploadVars
  BY <1>5 DEF Return, CancelCtx, uploadVars
<1>6. ASSUME NEW w \in Workers, Worker(w) PROVE readErr' = readErr
  BY <1>6 DEF Worker, TakeJob, WorkerExit, PartSaved, PartRefused, PartFailed, Count, Report
<1>. QED
  BY <1>1, <1>2, <1>3, <1>4, <1>5, <1>6 DEF UploadNext, Producer

\* The producer keeps count of the source, and stops at its end or at an error.
LEMMA ProducerStep ==
  ASSUME UploadTypeOK, ProducerInv, [UploadNext]_uploadVars
  PROVE  ProducerInv'
<1> USE DEF prodVars, chanVars, workVars
<1>0. /\ pos \in Nat /\ partIdx \in Nat /\ Start(pos) \in Int
      /\ chunkSize \in Nat /\ chunkSize > 0 /\ Length \in Nat /\ chunk \in Int
      /\ Start(pos + 1) = Start(pos) + chunkSize /\ Start(pos - 1) = Start(pos) - chunkSize
  BY Counters
<1>1. CASE ReadFull
  <2>1. /\ prod = "read" /\ chunk' \in Int /\ Start(pos) <= Length
        /\ readErr = "none" => pos = partIdx
    BY <1>0, <1>1, AfterReadFull DEF ProducerInv
  <2>2. CASE chunk' > 0
    <3>1. /\ pos' = pos + 1 /\ pos' - 1 = pos /\ pos' > 0 /\ prod' = "queue"
          /\ UNCHANGED <<readErr, open, partIdx>>
      BY <1>0, <1>1, <2>2, AfterReadFull
    <3>2. end' = "more" => chunk' = chunkSize /\ Start(pos') <= Length
      BY <1>0, <1>1, <3>1, AfterReadFull
    <3>3. end' = "eof" => chunk' < chunkSize /\ Start(pos' - 1) + chunk' = Length
      BY <1>0, <1>1, <3>1, AfterReadFull
    <3>4. open' <=> prod' \in {"read", "queue"}
      BY <2>1, <3>1 DEF ProducerInv
    <3>. QED
      BY <2>1, <2>2, <3>1, <3>2, <3>3, <3>4 DEF ProducerInv
  <2>3. CASE ~(chunk' > 0)
    <3>1. pos' = pos /\ LoopEnds(readErr, end') /\ end' \in {"eof", "error"} /\ partIdx' = partIdx
      BY <1>0, <1>1, <2>3, AfterReadFull
    <3>2. end' = "eof" => Start(pos) = Length
      BY <1>0, <1>1, <2>1, <2>3, AfterReadFull
    <3>3. prod' = "wait" /\ ~open' /\ (readErr' = "none" => end' = "eof" /\ readErr = "none")
      BY <3>1 DEF LoopEnds
    <3>4. end' = "eof" => Start(pos') >= Length /\ Start(pos' - 1) < Length
      BY <1>0, <3>1, <3>2
    <3>. QED
      BY <2>1, <3>1, <3>3, <3>4 DEF ProducerInv
  <2>. QED
    BY <2>2, <2>3
<1>2. ASSUME NEW e \in {"invoke", "ctx"}, prod = "queue", LoopEnds(e, end), UNCHANGED <<pos, end>>
      PROVE  ProducerInv'
  <2>1. readErr' # "none" /\ prod' = (IF end = "more" THEN "read" ELSE "wait")
    BY <1>2 DEF LoopEnds
  <2>2. open' <=> prod' \in {"read", "queue"}
    BY <1>2 DEF LoopEnds
  <2>. QED
    BY <1>2, <2>1, <2>2 DEF ProducerInv
<1>3. CASE QueueCtxDone \/ QueueError
  <2>1. QueueError => Head(errChan) \in {"invoke", "ctx"}
    BY DEF QueueError, UploadTypeOK
  <2>. QED
    BY <1>2, <1>3, <2>1 DEF QueueCtxDone, QueueError
<1>4. CASE QueueJob
  <2>1. /\ prod = "queue" /\ pos' = pos /\ partIdx' = partIdx + 1
        /\ LoopEnds(readErr, end) /\ UNCHANGED <<chunk, end>>
    BY <1>4 DEF QueueJob
  <2>2. end = "eof" => Start(pos) >= Length /\ Start(pos - 1) < Length
    BY <1>0, <2>1 DEF ProducerInv
  <2>3. /\ prod' = (IF end = "more" THEN "read" ELSE "wait")
        /\ readErr' = "none" => readErr = "none" /\ end # "error"
    BY <2>1 DEF LoopEnds
  <2>4. open' <=> prod' \in {"read", "queue"}
    BY <2>1 DEF LoopEnds
  <2>5. end = "more" => Start(pos) <= Length
    BY <2>1 DEF ProducerInv
  <2>6. readErr = "none" => pos' = partIdx'
    BY <1>0, <2>1 DEF ProducerInv
  <2>7. end \in {"more", "eof", "error"}
    BY DEF UploadTypeOK
  <2>. QED
    BY <2>1, <2>2, <2>3, <2>4, <2>5, <2>6, <2>7 DEF ProducerInv
<1>5. CASE Return
  BY <1>5 DEF Return, ProducerInv
<1>6. ASSUME UNCHANGED <<prodVars, open>> PROVE ProducerInv'
  BY <1>6 DEF ProducerInv
<1>7. ASSUME NEW w \in Workers, Worker(w) PROVE UNCHANGED <<prodVars, open>>
  BY <1>7 DEF Worker, TakeJob, WorkerExit, PartSaved, PartRefused, PartFailed, Count, Report
<1>. QED
  BY <1>1, <1>3, <1>4, <1>5, <1>6, <1>7 DEF UploadNext, Producer, CancelCtx, uploadVars

-----------------------------------------------------------------------------
LEMMA GoodStays ==
  ASSUME NEW j, NEW err, NEW later, Good(j, err), later = "none" => err = "none"
  PROVE  Good(j, later)
BY DEF Good

\* What happens to the channel of jobs and to the number of parts taken.
LEMMA TakenStep ==
  ASSUME UploadTypeOK, QueueInv, [UploadNext]_uploadVars
  PROVE  /\ Taken \in Nat
         /\ QueueJob => Taken' = Taken /\ Len(jobs') = Len(jobs) + 1
         /\ \A w \in Workers : TakeJob(w) => Taken' = Taken + 1
         /\ (\A w \in Workers : ~TakeJob(w)) /\ ~QueueJob =>
              Taken' = Taken /\ UNCHANGED <<jobs, partIdx>>
<1>1. partIdx \in Nat /\ jobs \in Seq(Jobs) /\ Len(jobs) \in Nat /\ Len(jobs) <= partIdx
  BY DEF UploadTypeOK, QueueInv
<1>2. QueueJob => Taken' = Taken /\ Len(jobs') = Len(jobs) + 1
  <2>1. ASSUME QueueJob PROVE Taken' = Taken /\ Len(jobs') = Len(jobs) + 1
    <3>1. PICK j : jobs' = Append(jobs, j)
      BY <2>1 DEF QueueJob
    <3>2. Len(jobs') = Len(jobs) + 1
      BY <1>1, <3>1
    <3>. QED
      BY <1>1, <2>1, <3>2 DEF QueueJob, Taken
  <2>. QED
    BY <2>1
<1>3. ASSUME NEW w \in Workers, TakeJob(w) PROVE Taken' = Taken + 1
  <2>1. partIdx' = partIdx /\ jobs' = Tail(jobs) /\ jobs # << >>
    BY <1>3 DEF TakeJob, prodVars
  <2>2. Len(jobs') = Len(jobs) - 1
    BY <1>1, <2>1
  <2>. QED
    BY <1>1, <2>1, <2>2 DEF Taken
<1>4. ASSUME \A w \in Workers : ~TakeJob(w), ~QueueJob PROVE UNCHANGED <<jobs, partIdx>>
  <2> USE DEF prodVars, chanVars
  <2>1. ASSUME NEW w \in Workers, Worker(w) PROVE UNCHANGED <<jobs, partIdx>>
    BY <1>4, <2>1 DEF Worker, WorkerExit, PartSaved, PartRefused, PartFailed, Count, Report
  <2>2. CASE ReadFull
    BY <2>2, AfterReadFull
  <2>3. CASE QueueCtxDone \/ QueueError \/ Return \/ CancelCtx \/ UNCHANGED uploadVars
    BY <2>3 DEF QueueCtxDone, QueueError, Return, CancelCtx, uploadVars
  <2>. QED
    BY <1>4, <2>1, <2>2, <2>3 DEF UploadNext, Producer
<1>5. Taken \in Nat
  BY <1>1 DEF Taken
<1>. QED
  BY <1>2, <1>3, <1>4, <1>5 DEF Taken

\* A chunk that is queued without an error is queued under its own number.
LEMMA QueuedPart ==
  ASSUME UploadTypeOK, ProducerInv, QueueJob,
         NEW j, j = [part |-> partIdx, data |-> pos - 1, len |-> chunk]
  PROVE  Good(j, readErr')
<1>1. j.part = partIdx /\ j.part \in Nat /\ j.len > 0
  BY Counters DEF ProducerInv, QueueJob
<1>2. ASSUME readErr' = "none" PROVE j = Part(j.part)
  <2>1. readErr = "none" /\ end \in {"more", "eof"}
    BY <1>2 DEF QueueJob, LoopEnds, UploadTypeOK
  <2>2. pos = partIdx + 1 /\ pos - 1 = partIdx
    BY <2>1, Counters DEF QueueJob, ProducerInv
  <2>3. chunk = PartLen(partIdx)
    <3>1. CASE end = "more"
      BY <2>2, <3>1 DEF QueueJob, ProducerInv, PartLen
    <3>2. CASE end = "eof"
      <4>1. chunk < chunkSize /\ Start(pos - 1) + chunk = Length
        BY <3>2 DEF QueueJob, ProducerInv
      <4>. QED
        BY <2>2, <4>1, Counters DEF PartLen
    <3>. QED
      BY <2>1, <3>1, <3>2
  <2>. QED
    BY <1>1, <2>2, <2>3 DEF Part
<1>. QED
  BY <1>1, <1>2 DEF Good

\* The channel hands out every part number once, in order.
LEMMA QueueStep ==
  ASSUME UploadTypeOK, ProducerInv, QueueInv, [UploadNext]_uploadVars
  PROVE  QueueInv'
<1>1. partIdx \in Nat /\ jobs \in Seq(Jobs) /\ Len(jobs) \in Nat /\ Taken \in Nat
  BY TakenStep DEF UploadTypeOK
<1>2. CASE QueueJob
  <2>1. PICK j : /\ j = [part |-> partIdx, data |-> pos - 1, len |-> chunk]
                 /\ jobs' = Append(jobs, j)
    BY <1>2 DEF QueueJob
  <2>2. Len(jobs) < Cardinality(Workers) /\ partIdx' = partIdx + 1
    BY <1>2 DEF QueueJob
  <2>3. Taken' = Taken /\ Len(jobs') = Len(jobs) + 1
    BY <1>2, TakenStep
  <2>4. ASSUME NEW k \in 1 .. Len(jobs')
        PROVE  jobs'[k].part = Taken' + k - 1 /\ Good(jobs'[k], readErr')
    <3>1. CASE k = Len(jobs) + 1
      <4>1. jobs'[k] = j
        BY <1>1, <2>1, <3>1
      <4>2. j.part = Taken' + k - 1
        BY <1>1, <2>1, <2>3, <3>1 DEF Taken
      <4>. QED
        BY <1>2, <2>1, <4>1, <4>2, QueuedPart
    <3>2. CASE k \in 1 .. Len(jobs)
      <4>1. jobs'[k] = jobs[k]
        BY <1>1, <2>1, <3>2
      <4>. QED
        BY <2>3, <3>2, <4>1, ErrorStays, GoodStays DEF QueueInv
    <3>. QED
      BY <1>1, <2>3, <3>1, <3>2
  <2>5. Cardinality(Workers) \in Nat
    BY WorkersAssumption, FS_CardinalityType
  <2>6. Len(jobs') <= Cardinality(Workers) /\ Len(jobs') <= partIdx'
    BY <1>1, <2>2, <2>3, <2>5 DEF QueueInv
  <2>. QED
    BY <2>4, <2>6 DEF QueueInv
<1>3. ASSUME NEW w \in Workers, TakeJob(w) PROVE QueueInv'
  <2>1. jobs' = Tail(jobs) /\ jobs # << >> /\ partIdx' = partIdx /\ Taken' = Taken + 1
    BY <1>3, TakenStep DEF TakeJob, prodVars
  <2>2. Len(jobs') = Len(jobs) - 1
    BY <1>1, <2>1
  <2>3. ASSUME NEW k \in 1 .. Len(jobs')
        PROVE  jobs'[k].part = Taken' + k - 1 /\ Good(jobs'[k], readErr')
    <3>1. k + 1 \in 1 .. Len(jobs) /\ jobs'[k] = jobs[k + 1]
      BY <1>1, <2>1, <2>2
    <3>2. jobs[k + 1].part = Taken + (k + 1) - 1 /\ Good(jobs[k + 1], readErr)
      BY <3>1 DEF QueueInv
    <3>3. Taken + (k + 1) - 1 = Taken' + k - 1
      BY <1>1, <2>1
    <3>. QED
      BY <3>1, <3>2, <3>3, ErrorStays, GoodStays
  <2>4. Cardinality(Workers) \in Nat
    BY WorkersAssumption, FS_CardinalityType
  <2>5. Len(jobs') <= Cardinality(Workers) /\ Len(jobs') <= partIdx'
    BY <1>1, <2>1, <2>2, <2>4 DEF QueueInv
  <2>. QED
    BY <2>3, <2>5 DEF QueueInv
<1>4. ASSUME ~QueueJob, \A w \in Workers : ~TakeJob(w) PROVE QueueInv'
  BY <1>4, TakenStep, ErrorStays, GoodStays DEF QueueInv
<1>. QED
  BY <1>2, <1>3, <1>4

-----------------------------------------------------------------------------
\* The steps that are not a worker's leave the workers' state alone.
LEMMA WorkersAlone ==
  ASSUME [UploadNext]_uploadVars, \A w \in Workers : ~Worker(w)
  PROVE  UNCHANGED <<work, job, newTotal, uploaded, reports, Settled>>
<1> USE DEF workVars, Settled
<1>1. CASE ReadFull
  BY <1>1, AfterReadFull
<1>2. CASE QueueCtxDone \/ QueueError \/ QueueJob \/ Return \/ CancelCtx \/ UNCHANGED uploadVars
  BY <1>2 DEF QueueCtxDone, QueueError, QueueJob, Return, CancelCtx, uploadVars
<1>. QED
  BY <1>1, <1>2 DEF UploadNext, Producer

\* An answer settles the part of the worker that has asked; a failure may.
Answered(w) == PartSaved(w) \/ PartRefused(w)

LEMMA Settlement ==
  ASSUME NEW w \in Workers, Worker(w)
  PROVE  /\ Answered(w) => Settled' = Settled \cup {job[w]}
         /\ PartFailed(w) => Settled' \in {Settled, Settled \cup {job[w]}}
         /\ TakeJob(w) \/ WorkerExit(w) \/ Count(w) \/ Report(w) => Settled' = Settled
BY DEF Answered, PartSaved, PartRefused, PartFailed, TakeJob, WorkerExit, Count, Report, Settled

\* The job at the head of the channel has a number that nobody has had.
LEMMA HeadIsNext ==
  ASSUME UploadTypeOK, QueueInv, jobs # << >>
  PROVE  /\ Head(jobs) \in Jobs /\ Head(jobs) # NoJob
         /\ Head(jobs).part = Taken /\ Good(Head(jobs), readErr)
<1>1. jobs \in Seq(Jobs) /\ Len(jobs) \in Nat /\ Len(jobs) > 0 /\ Head(jobs) = jobs[1]
  BY DEF UploadTypeOK
<1>2. Head(jobs) \in Jobs
  BY <1>1
<1>3. Head(jobs).part = Taken + 1 - 1 /\ Good(Head(jobs), readErr)
  BY <1>1 DEF QueueInv
<1>4. Head(jobs) # NoJob
  BY <1>2 DEF Jobs, NoJob
<1>5. Taken + 1 - 1 = Taken
  BY <1>1 DEF Taken, UploadTypeOK
<1>. QED
  BY <1>2, <1>3, <1>4, <1>5

\* Every part has at most one worker.
LEMMA HeldStep ==
  ASSUME UploadTypeOK, QueueInv, HeldInv, SettledInv, [UploadNext]_uploadVars
  PROVE  HeldInv'
<1> USE DEF Holds
<1>0. /\ work \in [Workers -> WorkPcs]
      /\ job \in [Workers -> Jobs \cup {NoJob}] 
  BY DEF UploadTypeOK, WorkPcs
<1>1. Taken \in Nat /\ Taken' \in Nat /\ Taken <= Taken'
  BY TakenStep
<1>2. ASSUME NEW v \in Workers, Holds(v)
      PROVE  job[v].part < Taken' /\ Good(job[v], readErr')
  <2>1. job[v].part < Taken /\ Good(job[v], readErr) /\ job[v].part \in Nat
    BY <1>2 DEF HeldInv, Good
  <2>. QED
    BY <1>1, <2>1, ErrorStays, GoodStays
<1>3. ASSUME NEW w \in Workers, TakeJob(w) PROVE HeldInv'
  <2>1. work[w] = "idle" /\ jobs # << >> /\ Settled' = Settled /\ job[w] = NoJob
    BY <1>3, Settlement DEF TakeJob, HeldInv, Worker
  <2>2. CASE ctx
    <3>1. PICK j : j = Head(jobs)
      OBVIOUS
    <3>2. /\ work' = [work EXCEPT ![w] = "invoke"] /\ job' = [job EXCEPT ![w] = j]
          /\ Taken' = Taken + 1
      BY <1>3, <2>2, <3>1, TakenStep DEF TakeJob
    <3>3. /\ j # NoJob /\ j.part = Taken /\ Good(j, readErr')
          /\ \A v \in Workers : Holds(v) => job[v].part # j.part
          /\ \A s \in Settled : s.part # j.part
      <4>1. j # NoJob /\ j.part = Taken /\ Good(j, readErr)
        BY <2>1, <3>1, HeadIsNext
      <4>2. \A v \in Workers : Holds(v) => job[v].part \in Nat /\ job[v].part < Taken
        BY DEF HeldInv, Good
      <4>3. \A s \in Settled : s.part \in Nat /\ s.part < Taken
        BY DEF SettledInv, Good
      <4>. QED
        BY <1>1, <4>1, <4>2, <4>3, ErrorStays, GoodStays
    <3>4. j.part < Taken'
      BY <1>1, <3>2, <3>3
    <3>5. ASSUME NEW v \in Workers, v # w PROVE work'[v] = work[v] /\ job'[v] = job[v]
      BY <1>0, <3>2, <3>5
    <3>6. work'[w] = "invoke" /\ job'[w] = j
      BY <1>0, <3>2
    <3>. QED
      BY <1>2, <2>1, <3>3, <3>4, <3>5, <3>6 DEF HeldInv
  <2>3. CASE ~ctx
    <3>1. work' = [work EXCEPT ![w] = "dropped"] /\ job' = job
      BY <1>3, <2>3 DEF TakeJob
    <3>. QED
      BY <1>0, <1>2, <2>1, <3>1 DEF HeldInv
  <2>. QED
    BY <2>2, <2>3
<1>4. ASSUME NEW w \in Workers, WorkerExit(w) PROVE HeldInv'
  <2>1. work[w] = "idle" /\ work' = [work EXCEPT ![w] = "exited"] /\ UNCHANGED <<job, Settled>>
    BY <1>4, Settlement DEF WorkerExit, Worker
  <2>. QED
    BY <1>0, <1>2, <2>1 DEF HeldInv
<1>5. ASSUME NEW w \in Workers, Answered(w) PROVE HeldInv'
  <2>1. /\ work[w] = "invoke" /\ work' = [work EXCEPT ![w] = "count"]
        /\ job' = job /\ Settled' = Settled \cup {job[w]}
    BY <1>5, Settlement DEF Answered, PartSaved, PartRefused, Worker
  <2>. QED
    BY <1>0, <1>2, <2>1 DEF HeldInv
<1>6. ASSUME NEW w \in Workers, PartFailed(w) PROVE HeldInv'
  <2>1. /\ work[w] = "invoke" /\ work' = [work EXCEPT ![w] = "failed"]
        /\ job' = [job EXCEPT ![w] = NoJob]
        /\ Settled' = Settled \/ Settled' = Settled \cup {job[w]}
    BY <1>6, Settlement DEF PartFailed, Worker
  <2>. QED
    BY <1>0, <1>2, <2>1 DEF HeldInv
<1>7. ASSUME NEW w \in Workers, Count(w) PROVE HeldInv'
  <2>1. /\ work[w] = "count" /\ work' = [work EXCEPT ![w] = "report"]
        /\ job' = job /\ Settled' = Settled
    BY <1>7, Settlement DEF Count, Worker
  <2>. QED
    BY <1>0, <1>2, <2>1 DEF HeldInv
<1>8. ASSUME NEW w \in Workers, Report(w) PROVE HeldInv'
  <2>1. /\ work[w] = "report" /\ work' = [work EXCEPT ![w] = "idle"]
        /\ job' = [job EXCEPT ![w] = NoJob] /\ Settled' = Settled
    BY <1>8, Settlement DEF Report, Worker
  <2>. QED
    BY <1>0, <1>2, <2>1 DEF HeldInv
<1>9. ASSUME \A w \in Workers : ~Worker(w) PROVE HeldInv'
  <2>1. UNCHANGED <<work, job, Settled>>
    BY <1>9, WorkersAlone
  <2>. QED
    BY <1>2, <2>1 DEF HeldInv
<1>. QED
  BY <1>3, <1>4, <1>5, <1>6, <1>7, <1>8, <1>9 DEF Worker, Answered

\* What is settled was taken before, and is right as long as nothing went wrong.
LEMMA SettledStep ==
  ASSUME UploadTypeOK, QueueInv, HeldInv, SettledInv, [UploadNext]_uploadVars
  PROVE  SettledInv'
<1>1. Taken \in Nat /\ Taken' \in Nat /\ Taken <= Taken'
  BY TakenStep
<1>2. ASSUME NEW s, s.part < Taken, Good(s, readErr) PROVE s.part < Taken' /\ Good(s, readErr')
  <2>1. s.part \in Nat
    BY <1>2 DEF Good
  <2>. QED
    BY <1>1, <1>2, <2>1, ErrorStays, GoodStays
<1>3. \A s \in Settled' : s \in Settled \/ \E w \in Workers : Holds(w) /\ s = job[w]
  <2>1. ASSUME NEW w \in Workers, Worker(w)
        PROVE  Settled' = Settled \/ (Holds(w) /\ Settled' = Settled \cup {job[w]})
    <3>1. Answered(w) \/ PartFailed(w) => Holds(w)
      BY DEF Answered, PartSaved, PartRefused, PartFailed, Holds
    <3>. QED
      BY <2>1, <3>1, Settlement DEF Worker, Answered
  <2>. QED
    BY <2>1, WorkersAlone
<1>. QED
  BY <1>2, <1>3 DEF SettledInv, HeldInv

\* No part disappears without a worker giving up.
LEMMA CoverStep ==
  ASSUME UploadTypeOK, QueueInv, CoverInv, [UploadNext]_uploadVars
  PROVE  CoverInv'
<1>0. /\ work \in [Workers -> WorkPcs]
      /\ job \in [Workers -> Jobs \cup {NoJob}] /\ Taken \in Nat
  BY TakenStep DEF UploadTypeOK, WorkPcs
<1>1. ASSUME NEW w \in Workers, TakeJob(w) PROVE CoverInv'
  <2>1. work[w] = "idle" /\ jobs # << >> /\ Settled' = Settled /\ Taken' = Taken + 1
    BY <1>1, TakenStep, Settlement DEF TakeJob, Worker
  <2>2. CASE ctx
    <3>1. PICK j : j = Head(jobs)
      OBVIOUS
    <3>2. /\ work' = [work EXCEPT ![w] = "invoke"] /\ job' = [job EXCEPT ![w] = j]
          /\ j.part = Taken
      BY <1>1, <2>1, <2>2, <3>1, HeadIsNext DEF TakeJob
    <3>3. \A i \in Nat : i < Taken' => i < Taken \/ i = Taken
      BY <1>0, <2>1
    <3>. QED
      BY <1>0, <2>1, <3>2, <3>3 DEF CoverInv
  <2>3. CASE ~ctx
    <3>1. work'[w] = "dropped"
      BY <1>0, <1>1, <2>3 DEF TakeJob
    <3>. QED
      BY <3>1 DEF CoverInv
  <2>. QED
    BY <2>2, <2>3
<1>2. ASSUME NEW w \in Workers, PartFailed(w) PROVE CoverInv'
  <2>1. work'[w] = "failed"
    BY <1>0, <1>2 DEF PartFailed
  <2>. QED
    BY <2>1 DEF CoverInv
<1>3. ASSUME NEW w \in Workers, Answered(w) PROVE CoverInv'
  <2>1. /\ work[w] = "invoke" /\ work' = [work EXCEPT ![w] = "count"] /\ job' = job
        /\ Taken' = Taken
    BY <1>3 DEF Answered, PartSaved, PartRefused, Taken, prodVars, chanVars
  <2>2. Settled' = Settled \cup {job[w]}
    BY <1>3, Settlement DEF Answered, Worker
  <2>. QED
    BY <1>0, <2>1, <2>2 DEF CoverInv
<1>4. ASSUME NEW w \in Workers, WorkerExit(w) \/ Count(w) \/ Report(w) PROVE CoverInv'
  <2>1. /\ work[w] \in {"idle", "count", "report"} /\ Taken' = Taken
        /\ \A v \in Workers : v # w => work'[v] = work[v] /\ job'[v] = job[v]
    BY <1>0, <1>4 DEF WorkerExit, Count, Report, Taken, prodVars, chanVars
  <2>2. Settled' = Settled
    BY <1>4, Settlement DEF Worker
  <2>. QED
    BY <2>1, <2>2 DEF CoverInv
<1>5. ASSUME \A w \in Workers : ~Worker(w) PROVE CoverInv'
  <2>1. UNCHANGED <<work, job, Settled>> /\ Taken' = Taken
    BY <1>5, WorkersAlone, TakenStep DEF Worker
  <2>. QED
    BY <2>1 DEF CoverInv
<1>. QED
  BY <1>1, <1>2, <1>3, <1>4, <1>5 DEF Worker, Answered

\* A worker's error stays in the channel until the producer takes it.
LEMMA ErrorStep ==
  ASSUME UploadTypeOK, ProducerInv, ErrorInv, [UploadNext]_uploadVars
  PROVE  ErrorInv'
<1> USE DEF prodVars, chanVars, workVars
<1>0. /\ work \in [Workers -> WorkPcs]
      /\ errChan \in Seq({"invoke", "ctx"})
  BY DEF UploadTypeOK, WorkPcs
<1>1. CASE ReadFull
  <2>1. prod = "read" /\ prod' # "returned" /\ open /\ (readErr' = "none" => readErr = "none")
    BY <1>1, AfterReadFull, ErrorStays DEF LoopEnds, ProducerInv
  <2>2. UNCHANGED <<jobs, errChan, ctx, work>>
    BY <1>1, AfterReadFull
  <2>. QED
    BY <2>1, <2>2 DEF ErrorInv
<1>2. CASE QueueCtxDone \/ QueueJob \/ QueueError
  <2>1. prod = "queue" /\ prod' # "returned" /\ open /\ (readErr' = "none" => readErr = "none")
    BY <1>2, ErrorStays DEF QueueCtxDone, QueueJob, QueueError, LoopEnds, ProducerInv
  <2>2. UNCHANGED <<ctx, work>> /\ \A w \in Workers : work[w] # "exited"
    BY <1>2, <2>1 DEF QueueCtxDone, QueueJob, QueueError, ErrorInv
  <2>3. readErr' = "none" => errChan' = errChan
    <3>1. QueueError => Head(errChan) \in {"invoke", "ctx"}
      BY <1>0 DEF QueueError
    <3>. QED
      BY <1>2, <3>1 DEF QueueCtxDone, QueueJob, QueueError, LoopEnds
  <2>. QED
    BY <2>1, <2>2, <2>3 DEF ErrorInv
<1>3. CASE Return
  <2>1. /\ prod = "wait" /\ prod' = "returned" /\ UNCHANGED <<jobs, open, ctx, work, readErr, partIdx>>
        /\ \A w \in Workers : work[w] \in {"exited", "dropped", "failed"}
    BY <1>3 DEF Return
  <2>2. result'.ok => readErr = "none" /\ errChan = << >> /\ result'.parts = partIdx
    BY <1>3 DEF Return, Failed, Ok
  <2>. QED
    BY <2>1, <2>2 DEF ErrorInv
<1>4. CASE CancelCtx
  BY <1>4 DEF CancelCtx, ErrorInv
<1>5. CASE UNCHANGED uploadVars
  BY <1>5 DEF uploadVars, ErrorInv
<1>6. ASSUME NEW w \in Workers, Worker(w) PROVE ErrorInv'
  <2>1. UNCHANGED <<prod, readErr, open, ctx, partIdx, result>>
    BY <1>6 DEF Worker, TakeJob, WorkerExit, PartSaved, PartRefused, PartFailed, Count, Report
  <2>2. work[w] \in {"idle", "invoke", "count", "report"} /\ prod # "returned"
    BY <1>6 DEF Worker, TakeJob, WorkerExit, PartSaved, PartRefused, PartFailed, Count, Report, ErrorInv
  <2>3. \A v \in Workers : v # w => work'[v] = work[v]
    BY <1>0, <1>6 DEF Worker, TakeJob, WorkerExit, PartSaved, PartRefused, PartFailed, Count, Report
  <2>4. /\ work'[w] = "dropped" => ~ctx
        /\ work'[w] = "exited" => jobs' = << >> /\ ~open
        /\ work'[w] = "failed" => errChan' # << >>
    <3>1. CASE PartFailed(w)
      <4>1. PICK e : errChan' = IF errChan = << >> THEN <<e>> ELSE errChan
        BY <3>1, Zenon DEF PartFailed
      <4>2. errChan' # << >>
        BY <4>1
      <4>. QED
        BY <1>0, <3>1, <4>2 DEF PartFailed
    <3>2. CASE ~PartFailed(w)
      BY <1>0, <1>6, <3>2 DEF Worker, TakeJob, WorkerExit, PartSaved, PartRefused, Count, Report
    <3>. QED
      BY <3>1, <3>2
  <2>5. /\ jobs = << >> => jobs' = << >>
        /\ errChan # << >> => errChan' = errChan
    <3>1. errChan # << >> => errChan' = errChan
      BY <1>6 DEF Worker, TakeJob, WorkerExit, PartSaved, PartRefused, PartFailed, Count, Report
    <3>2. jobs = << >> => jobs' = << >>
      BY <1>6 DEF Worker, TakeJob, WorkerExit, PartSaved, PartRefused, PartFailed, Count, Report
    <3>. QED
      BY <3>1, <3>2
  <2>. QED
    BY <2>1, <2>2, <2>3, <2>4, <2>5 DEF ErrorInv
<1>. QED
  BY <1>1, <1>2, <1>3, <1>4, <1>5, <1>6 DEF UploadNext, Producer

-----------------------------------------------------------------------------
LEMMA InvInit == UploadInit => UploadInv
<1> SUFFICES ASSUME UploadInit PROVE UploadInv
  OBVIOUS
<1>1. prod = "read" /\ pos = 0 /\ partIdx = 0 /\ jobs = << >> /\ open = TRUE /\ Settled = {}
  BY DEF UploadInit, Settled
<1>2. work = [w \in Workers |-> "idle"] /\ job = [w \in Workers |-> NoJob]
  BY DEF UploadInit
<1>3. Start(0) <= Length
  BY ChunkSizePositive, SizesAssumption DEF Start
<1>4. Cardinality(Workers) \in Nat
  BY WorkersAssumption, FS_CardinalityType
<1>5. Taken = 0
  <2>1. partIdx = 0 /\ Len(jobs) = 0
    BY DEF UploadInit
  <2>. QED
    BY <2>1 DEF Taken
<1>6. UploadTypeOK
  BY ChunkSizePositive DEF UploadInit, UploadTypeOK, NoResult, Errors
<1>7. ProducerInv
  BY <1>1, <1>3 DEF ProducerInv
<1>8. QueueInv
  BY <1>1, <1>4 DEF QueueInv
<1>9. HeldInv /\ SettledInv /\ CoverInv /\ ErrorInv
  BY <1>1, <1>2, <1>5 DEF HeldInv, SettledInv, CoverInv, ErrorInv, Holds
<1>. QED
  BY <1>6, <1>7, <1>8, <1>9 DEF UploadInv

LEMMA InvStep == UploadInv /\ [UploadNext]_uploadVars => UploadInv'
BY TypeStep, ProducerStep, QueueStep, HeldStep, SettledStep, CoverStep, ErrorStep DEF UploadInv

\* The invariant of Upload, from which the rest follows.
THEOREM UploadSafe == UploadSpec => []UploadInv
BY InvInit, InvStep, PTL DEF UploadSpec

\* Every variable of Upload keeps its type.
THEOREM UploadTypes == UploadSpec => []UploadTypeOK
<1>1. UploadInv => UploadTypeOK
  BY DEF UploadInv
<1>. QED
  BY <1>1, UploadSafe, PTL

-----------------------------------------------------------------------------
\* A later chunk begins at least one chunk later.
LEMMA LaterChunk ==
  ASSUME NEW x \in Int, NEW y \in Int, NEW c \in Nat, x < y
  PROVE  x * c \in Int /\ y * c \in Int /\ x * c + c <= y * c
<1>1. y - x - 1 \in Nat
  OBVIOUS
<1>2. (y - x - 1) * c >= 0
  BY <1>1
<1>3. (y - x - 1) * c = y * c - x * c - c
  OBVIOUS
<1>4. y * c \in Int /\ x * c \in Int
  OBVIOUS
<1>. QED
  BY <1>2, <1>3, <1>4

\* Division by the chunk size is what multiplication says it is.
LEMMA Quotient ==
  ASSUME NEW a \in Nat, NEW n \in Int, NEW c \in Nat \ {0}, n * c <= a, a < n * c + c
  PROVE  a \div c = n
<1> DEFINE q == a \div c
           r == a % c
<1>1. q \in Int /\ r \in 0 .. c - 1 /\ a = q * c + r
  OBVIOUS
<1> HIDE DEF q, r
<1>2. q * c \in Int /\ n * c \in Int
  BY <1>1
<1>3. ~(q < n)
  BY <1>1, <1>2, LaterChunk
<1>4. ~(n < q)
  BY <1>1, <1>2, LaterChunk
<1>. QED
  BY <1>1, <1>3, <1>4 DEF q

\* n chunks that just reach the end of the source are all its parts.
LEMMA PartsCount ==
  ASSUME NEW n \in Nat, Start(n) >= Length, n > 0 => Start(n - 1) < Length
  PROVE  Parts = n
<1>1. chunkSize \in Nat \ {0} /\ Length \in Nat /\ Length + chunkSize - 1 \in Nat
  BY ChunkSizePositive, SizesAssumption
<1>2. Start(n) \in Int /\ Start(n - 1) = Start(n) - chunkSize
  BY NextChunk
<1>3. n = 0 => Start(n) = 0
  BY <1>1 DEF Start
<1>4. Start(n) <= Length + chunkSize - 1 /\ Length + chunkSize - 1 < Start(n) + chunkSize
  BY <1>1, <1>2, <1>3
<1>5. n * chunkSize <= Length + chunkSize - 1 /\ Length + chunkSize - 1 < n * chunkSize + chunkSize
  BY <1>4 DEF Start
<1>. QED
  BY <1>1, <1>5, Quotient DEF Parts

\* The complete file is made of that many parts.
LEMMA WholeFileParts ==
  /\ Parts \in Nat
  /\ WholeFile = {Part(i) : i \in 0 .. Parts - 1}
  /\ IsFiniteSet(WholeFile) /\ Cardinality(WholeFile) = Parts
<1>1. Parts \in Nat
  <2>1. chunkSize \in Nat \ {0} /\ Length + chunkSize - 1 \in Nat
    BY ChunkSizePositive, SizesAssumption
  <2>. QED
    BY <2>1 DEF Parts
<1>2. WholeFile = {Part(i) : i \in 0 .. Parts - 1}
  BY Zenon DEF WholeFile, Part, PartLen, Start, Parts
<1> DEFINE f == [i \in 0 .. Parts - 1 |-> Part(i)]
<1>3. f \in Bijection(0 .. Parts - 1, WholeFile)
  <2>1. \A i, k \in 0 .. Parts - 1 : Part(i) = Part(k) => i = k
    BY DEF Part
  <2>2. f \in [0 .. Parts - 1 -> WholeFile]
    BY <1>2
  <2>. QED
    BY <1>2, <2>1, <2>2 DEF Bijection, Injection, IsInjective, Surjection
<1>4. IsFiniteSet(0 .. Parts - 1) /\ Cardinality(0 .. Parts - 1) = Parts
  BY <1>1, FS_Interval
<1>5. ExistsBijection(0 .. Parts - 1, WholeFile)
  BY <1>3 DEF ExistsBijection
<1>. QED
  BY <1>1, <1>2, <1>4, <1>5, FS_Bijection

\* When Upload has succeeded, its parts are the source's.
LEMMA AfterSuccess ==
  ASSUME UploadInv, Returned, result.ok
  PROVE  /\ readErr = "none" /\ result.parts = Parts /\ partIdx = Parts
         /\ \A w \in Workers : work[w] # "failed"
         /\ \/ jobs = << >> /\ \A w \in Workers : work[w] = "exited"
            \/ ~ctx /\ \E w \in Workers : work[w] = "dropped"
<1>1. /\ readErr = "none" /\ result.parts = partIdx
      /\ \A w \in Workers : work[w] # "failed" /\ work[w] \in {"exited", "dropped", "failed"}
  BY DEF UploadInv, ErrorInv, Returned
<1>2. pos \in Nat /\ pos = partIdx /\ Start(pos) >= Length /\ (pos > 0 => Start(pos - 1) < Length)
  BY <1>1 DEF UploadInv, UploadTypeOK, ProducerInv, Returned
<1>3. pos = Parts
  BY <1>2, PartsCount
<1>4. \A w \in Workers : /\ work[w] = "dropped" => ~ctx
                         /\ work[w] = "exited" => jobs = << >>
  BY DEF UploadInv, ErrorInv
<1>5. \/ jobs = << >> /\ \A w \in Workers : work[w] = "exited"
      \/ ~ctx /\ \E w \in Workers : work[w] = "dropped"
  BY <1>1, <1>4, WorkersAssumption
<1>. QED
  BY <1>1, <1>2, <1>3, <1>5

\* Success of Upload means that the server has the whole source, each chunk
\* under its own number, except for the parts it has refused, and when a
\* cancelled worker dropped one in silence.
THEOREM SuccessMeansStored == UploadSpec => []OkMeansStored
<1>1. UploadInv => OkMeansStored
  <2> SUFFICES ASSUME UploadInv, Returned, result.ok
               PROVE  /\ Settled \subseteq WholeFile
                      /\ WholeFile \ stored \subseteq refused \/ (~ctx /\ \E w \in Workers : work[w] = "dropped")
                      /\ \A w \in Workers : work[w] # "failed"
                      /\ result.parts = Cardinality(WholeFile)
                      /\ Size = Length /\ Size > 0 => result.parts = totalParts
    BY DEF OkMeansStored
  <2>1. jobs \in Seq(Jobs) /\ Len(jobs) \in Nat /\ Taken = Parts - Len(jobs) /\ Parts \in Nat
    BY AfterSuccess, WholeFileParts DEF UploadInv, UploadTypeOK, Taken
  <2>2. \A s \in Settled : s.part \in Nat /\ s.part < Taken /\ s = Part(s.part)
    BY AfterSuccess DEF UploadInv, SettledInv, Good
  <2>3. Settled \subseteq WholeFile
    BY <2>1, <2>2, WholeFileParts
  <2>4. ASSUME jobs = << >>, \A w \in Workers : work[w] = "exited" PROVE WholeFile \subseteq Settled
    <3>1. Taken = Parts
      BY <2>1, <2>4
    <3>2. ASSUME NEW i \in 0 .. Parts - 1 PROVE Part(i) \in Settled
      <4>1. i \in Nat /\ i < Taken
        BY <2>1, <3>1
      <4>2. PICK s \in Settled : s.part = i
        BY <2>4, <4>1 DEF UploadInv, CoverInv
      <4>. QED
        BY <2>2, <4>2
    <3>. QED
      BY <3>2, WholeFileParts
  <2>5. Size = Length /\ Size > 0 => Parts = totalParts
    <3>1. Size > 0 => ~(Size <= 0)
      BY SizesAssumption
    <3>. QED
      BY <3>1, Zenon DEF Parts, totalParts, TotalParts
  <2>. QED
    BY <2>3, <2>4, <2>5, AfterSuccess, WholeFileParts DEF Settled
<1>. QED
  BY <1>1, UploadSafe, PTL

\* Upload never holds more than two chunks per worker outside its own hands.
THEOREM MemoryBounded == UploadSpec => []BoundedMemory
<1>1. UploadInv => BoundedMemory
  <2> SUFFICES ASSUME UploadInv PROVE BoundedMemory
    OBVIOUS
  <2> DEFINE held == {w \in Workers : job[w] # NoJob}
  <2>1. Cardinality(Workers) \in Nat
    BY WorkersAssumption, FS_CardinalityType
  <2>2. IsFiniteSet(held) /\ Cardinality(held) <= Cardinality(Workers)
    <3>1. held \in SUBSET Workers
      OBVIOUS
    <3>. QED
      BY <3>1, WorkersAssumption, FS_Subset
  <2>3. Cardinality(held) \in Nat
    BY <2>2, FS_CardinalityType
  <2>4. Len(jobs) \in Nat /\ Len(jobs) <= Cardinality(Workers)
    BY DEF UploadInv, UploadTypeOK, QueueInv
  <2> HIDE DEF held
  <2>5. Len(jobs) + Cardinality(held) <= 2 * Cardinality(Workers)
    BY <2>1, <2>2, <2>3, <2>4
  <2>. QED
    BY <2>5 DEF BoundedMemory, Buffered, held
<1>. QED
  BY <1>1, UploadSafe, PTL

-----------------------------------------------------------------------------
(* Progress                                                                *)

Counting  == {w \in Workers : work[w] = "count"}
Reporting == {w \in Workers : work[w] = "report"}

\* The number of parts that are settled and have been counted, and whether the
\* last part of the source, the only one that may be short, is one of them.
Counted     == Cardinality(Settled) - Cardinality(Counting)
LastCounted == /\ Part(Parts - 1) \in Settled
               /\ \A w \in Counting : job[w] # Part(Parts - 1)

NoneFailed == \A w \in Workers : work[w] # "failed"

\* The counter is the number of bytes of the parts counted.
CountInv ==
  /\ IsFiniteSet(Settled)
  /\ readErr = "none" /\ NoneFailed =>
       uploaded = IF LastCounted THEN Start(Counted - 1) + PartLen(Parts - 1)
                                 ELSE Start(Counted)

(***************************************************************************)
(* The totals that are reported, and those on their way, are all different *)
(* values that the counter has had, the last one included; one for every   *)
(* part counted.  (A part that is stored by an Invoke that fails is never  *)
(* counted.)                                                               *)
(***************************************************************************)
TotalsInv ==
  /\ \A i \in 1 .. Len(reports) : reports[i] > 0 /\ reports[i] <= uploaded
  /\ \A w \in Reporting : newTotal[w] > 0 /\ newTotal[w] <= uploaded
  /\ \A i, k \in 1 .. Len(reports) : i # k => reports[i] # reports[k]
  /\ \A v, w \in Reporting : v # w => newTotal[v] # newTotal[w]
  /\ \A i \in 1 .. Len(reports), w \in Reporting : reports[i] # newTotal[w]
  /\ uploaded > 0 => \/ \E i \in 1 .. Len(reports) : reports[i] = uploaded
                     \/ \E w \in Reporting : newTotal[w] = uploaded
  /\ Len(reports) + Cardinality(Reporting) <= Counted
  /\ NoneFailed => Len(reports) + Cardinality(Reporting) = Counted

ProgressInv == CountInv /\ TotalsInv

\* Every part but the last is a full chunk.
LEMMA FullParts ==
  ASSUME NEW i \in Nat, PartLen(i) > 0
  PROVE  i # Parts - 1 => PartLen(i) = chunkSize
<1>1. chunkSize \in Nat /\ chunkSize > 0 /\ Length \in Nat /\ Parts \in Nat
  BY ChunkSizePositive, SizesAssumption, WholeFileParts
<1>2. Start(Parts) \in Int /\ Start(Parts) >= Length /\ Start(Parts) < Length + chunkSize
  <2> DEFINE a == Length + chunkSize - 1
             c == chunkSize
             q == a \div c
  <2>1. a \in Nat /\ c \in Nat \ {0}
    BY <1>1
  <2> HIDE DEF a, c
  <2>2. q \in Int /\ q * c \in Int /\ q * c <= a /\ a < q * c + c
    BY <2>1
  <2> HIDE DEF q
  <2>3. q = Parts /\ q * c = Start(Parts)
    BY DEF a, c, q, Parts, Start
  <2>. QED
    BY <1>1, <2>2, <2>3 DEF a, c
<1>3. Start(i) \in Int /\ Start(i + 1) = Start(i) + chunkSize
  BY NextChunk
<1>4. Start(i) < Length
  BY <1>1, <1>3 DEF PartLen
<1>5. i < Parts
  <2>1. ~(Parts < i)
    <3>1. Parts < i => Start(Parts) + chunkSize <= Start(i)
      BY <1>1, LaterChunk DEF Start
    <3>. QED
      BY <1>1, <1>2, <1>3, <1>4, <3>1
  <2>2. Parts # i
    BY <1>1, <1>2, <1>4
  <2>. QED
    BY <1>1, <2>1, <2>2
<1>6. ASSUME i # Parts - 1 PROVE PartLen(i) = chunkSize
  <2>1. i + 1 < Parts
    BY <1>1, <1>5, <1>6
  <2>2. Start(i + 1) + chunkSize <= Start(Parts)
    BY <1>1, <2>1, LaterChunk DEF Start
  <2>3. Start(i + 1) <= Length
    BY <1>1, <1>2, <1>3, <2>2
  <2>. QED
    BY <2>3 DEF PartLen
<1>. QED
  BY <1>6

\* Sets of workers have a size.
LEMMA WorkersFinite ==
  ASSUME NEW S \in SUBSET Workers
  PROVE  IsFiniteSet(S) /\ Cardinality(S) \in Nat
BY WorkersAssumption, FS_Subset, FS_CardinalityType

\* Which steps change the number of parts counted.
LEMMA CountedStep ==
  ASSUME UploadInv, IsFiniteSet(Settled), [UploadNext]_uploadVars
  PROVE  /\ IsFiniteSet(Settled') /\ Counted \in Int /\ Counted' \in Int
         /\ \A w \in Workers : Count(w) => Counted' = Counted + 1
         /\ \A w \in Workers : PartFailed(w) => Counted' >= Counted
         /\ (\A w \in Workers : ~Count(w) /\ ~PartFailed(w)) =>
              Counted' = Counted /\ (LastCounted' <=> LastCounted)
<1>0. /\ UploadTypeOK /\ HeldInv /\ work \in [Workers -> WorkPcs]
      /\ job \in [Workers -> Jobs \cup {NoJob}]
  BY DEF UploadInv, UploadTypeOK, WorkPcs
<1>1. /\ IsFiniteSet(Counting) /\ Cardinality(Counting) \in Nat
      /\ Cardinality(Settled) \in Nat /\ Cardinality(Counting') \in Nat
  BY WorkersFinite, FS_CardinalityType DEF Counting
<1>2. ASSUME IsFiniteSet(Settled') PROVE Counted \in Int /\ Counted' \in Int
  BY <1>1, <1>2, FS_CardinalityType DEF Counted
<1>3. ASSUME NEW w \in Workers, Count(w) PROVE Settled' = Settled /\ Counted' = Counted + 1
  <2>1. /\ work[w] = "count" /\ work' = [work EXCEPT ![w] = "report"] /\ Settled' = Settled
    BY <1>3, Settlement DEF Count, Worker
  <2>2. Counting' = Counting \ {w} /\ w \in Counting
    BY <1>0, <2>1 DEF Counting
  <2>3. Cardinality(Counting \ {w}) = Cardinality(Counting) - 1
    BY <1>1, <2>2, FS_RemoveElement
  <2>. QED
    BY <1>1, <2>1, <2>2, <2>3 DEF Counted
<1>4. ASSUME NEW w \in Workers, PartFailed(w) PROVE IsFiniteSet(Settled') /\ Counted' >= Counted
  <2>1. /\ work[w] = "invoke" /\ work' = [work EXCEPT ![w] = "failed"]
        /\ Settled' = Settled \/ Settled' = Settled \cup {job[w]}
    BY <1>4, Settlement DEF PartFailed, Worker
  <2>2. Counting' = Counting
    BY <1>0, <2>1 DEF Counting
  <2>3. CASE Settled' = Settled
    BY <1>1, <2>2, <2>3 DEF Counted
  <2>4. CASE Settled' = Settled \cup {job[w]}
    <3>1. /\ IsFiniteSet(Settled')
          /\ Cardinality(Settled') = IF job[w] \in Settled THEN Cardinality(Settled)
                                                          ELSE Cardinality(Settled) + 1
      BY <1>1, <2>4, FS_AddElement
    <3>. QED
      BY <1>1, <2>2, <3>1 DEF Counted
  <2>. QED
    BY <2>1, <2>3, <2>4
<1>5. ASSUME NEW w \in Workers, Answered(w)
      PROVE  IsFiniteSet(Settled') /\ Counted' = Counted /\ (LastCounted' <=> LastCounted)
  <2>1. /\ work[w] = "invoke" /\ work' = [work EXCEPT ![w] = "count"] /\ job' = job
        /\ Settled' = Settled \cup {job[w]}
    BY <1>5, Settlement DEF Answered, PartSaved, PartRefused, Worker
  <2>2. job[w] \notin Settled /\ w \notin Counting /\ Counting' = Counting \cup {w}
    BY <1>0, <2>1 DEF HeldInv, Counting
  <2>3. /\ Cardinality(Settled') = Cardinality(Settled) + 1 /\ IsFiniteSet(Settled')
        /\ Cardinality(Counting') = Cardinality(Counting) + 1
    BY <1>1, <2>1, <2>2, FS_AddElement
  <2>4. Counted' = Counted
    BY <1>1, <2>3 DEF Counted
  <2>5. LastCounted' <=> LastCounted
    BY <2>1, <2>2 DEF LastCounted
  <2>. QED
    BY <2>3, <2>4, <2>5
<1>6. ASSUME NEW w \in Workers, TakeJob(w) \/ WorkerExit(w) \/ Report(w)
      PROVE  Settled' = Settled /\ Counted' = Counted /\ (LastCounted' <=> LastCounted)
  <2>1. Settled' = Settled /\ work[w] \in {"idle", "report"}
    BY <1>6, Settlement DEF TakeJob, WorkerExit, Report, Worker
  <2>2. \A v \in Workers : v # w => work'[v] = work[v] /\ job'[v] = job[v]
    BY <1>0, <1>6 DEF TakeJob, WorkerExit, Report
  <2>3. work'[w] # "count"
    BY <1>0, <1>6 DEF TakeJob, WorkerExit, Report
  <2>4. Counting' = Counting /\ \A v \in Counting : job'[v] = job[v]
    BY <2>1, <2>2, <2>3 DEF Counting
  <2>. QED
    BY <2>1, <2>4 DEF Counted, LastCounted
<1>7. ASSUME \A w \in Workers : ~Worker(w)
      PROVE  Settled' = Settled /\ Counted' = Counted /\ (LastCounted' <=> LastCounted)
  <2>1. UNCHANGED <<work, job, Settled>>
    BY <1>7, WorkersAlone
  <2>. QED
    BY <2>1 DEF Counted, LastCounted, Counting
<1>8. IsFiniteSet(Settled')
  BY <1>3, <1>4, <1>5, <1>6, <1>7 DEF Worker, Answered
<1>9. ASSUME \A w \in Workers : ~Count(w) /\ ~PartFailed(w)
      PROVE  Counted' = Counted /\ (LastCounted' <=> LastCounted)
  BY <1>5, <1>6, <1>7, <1>9 DEF Worker, Answered
<1>. QED
  BY <1>2, <1>3, <1>4, <1>8, <1>9

\* A worker that has failed stays so.
LEMMA FailureStays ==
  ASSUME UploadTypeOK, [UploadNext]_uploadVars
  PROVE  NoneFailed' => NoneFailed /\ \A w \in Workers : ~PartFailed(w)
<1>0. work \in [Workers -> WorkPcs]
  BY DEF UploadTypeOK, WorkPcs
<1>1. ASSUME NEW w \in Workers, Worker(w)
      PROVE  (work'[w] = "failed" <=> PartFailed(w)) /\ work[w] # "failed"
             /\ \A v \in Workers : v # w => work'[v] = work[v]
  BY <1>0, <1>1 DEF Worker, TakeJob, WorkerExit, PartSaved, PartRefused, PartFailed, Count, Report
<1>2. ASSUME \A w \in Workers : ~Worker(w) PROVE work' = work
  BY <1>2, WorkersAlone
<1>. QED
  BY <1>1, <1>2 DEF NoneFailed, Worker

\* The counter follows the parts that are settled.
LEMMA CountStep ==
  ASSUME UploadInv, CountInv, [UploadNext]_uploadVars
  PROVE  CountInv'
<1>0. /\ UploadTypeOK /\ HeldInv /\ work \in [Workers -> WorkPcs]
      /\ job \in [Workers -> Jobs \cup {NoJob}] /\ uploaded \in Nat
  BY DEF UploadInv, UploadTypeOK, WorkPcs
<1>1. /\ IsFiniteSet(Settled') /\ Counted \in Int /\ Counted' \in Int
      /\ \A w \in Workers : Count(w) => Counted' = Counted + 1
      /\ (\A w \in Workers : ~Count(w) /\ ~PartFailed(w)) =>
           Counted' = Counted /\ (LastCounted' <=> LastCounted)
  BY CountedStep DEF CountInv
<1>2. /\ NoneFailed' => NoneFailed /\ \A w \in Workers : ~PartFailed(w)
      /\ readErr' = "none" => readErr = "none"
  BY <1>0, FailureStays, ErrorStays
<1>3. ASSUME NEW w \in Workers, Count(w) PROVE CountInv'
  <2>1. /\ work[w] = "count" /\ work' = [work EXCEPT ![w] = "report"]
        /\ job' = job /\ Settled' = Settled /\ uploaded' = uploaded + job[w].len
        /\ readErr' = readErr
    BY <1>3, Settlement DEF Count, Worker, prodVars
  <2>2. job[w] \in Settled /\ job[w].len \in Nat /\ job[w].len > 0 /\ Good(job[w], readErr)
    BY <1>0, <2>1 DEF HeldInv, Holds, Good, Jobs
  <2>3. Counting' = Counting \ {w} /\ w \in Counting
    BY <1>0, <2>1 DEF Counting
  <2>4. Counted' = Counted + 1
    BY <1>1, <1>3
  <2>5. ASSUME readErr' = "none", NoneFailed'
        PROVE  uploaded' = IF LastCounted' THEN Start(Counted' - 1) + PartLen(Parts - 1)
                                           ELSE Start(Counted')
    <3>1. uploaded = IF LastCounted THEN Start(Counted - 1) + PartLen(Parts - 1)
                                    ELSE Start(Counted)
      BY <1>2, <2>1, <2>5 DEF CountInv
    <3>2. PICK i \in Nat : job[w] = Part(i) /\ job[w].part = i /\ job[w].len = PartLen(i)
      BY <2>1, <2>2, <2>5 DEF Good, Part
    <3>3. /\ Start(Counted) \in Int /\ Start(Counted - 1) = Start(Counted) - chunkSize
          /\ Start(Counted + 1) = Start(Counted) + chunkSize /\ chunkSize \in Nat
      BY <1>1, NextChunk, ChunkSizePositive
    <3>4. \A v \in Workers : v # w => job'[v] = job[v]
      BY <1>0, <2>1
    <3>5. CASE i = Parts - 1
      <4>1. ~LastCounted
        BY <2>3, <3>2, <3>5 DEF LastCounted
      <4>2. ASSUME NEW v \in Counting' PROVE job'[v] # Part(Parts - 1)
        <5>1. v \in Workers /\ v # w /\ work[v] = "count"
          BY <2>3, <4>2 DEF Counting
        <5>2. job[v].part # job[w].part
          BY <2>1, <5>1, <1>0 DEF HeldInv, Holds
        <5>. QED
          BY <3>2, <3>4, <3>5, <5>1, <5>2
      <4>3. LastCounted'
        BY <2>1, <2>2, <3>2, <3>5, <4>2 DEF LastCounted
      <4>4. Counted' - 1 = Counted
        BY <1>1, <2>4
      <4>. QED
        BY <2>1, <3>1, <3>2, <3>5, <4>1, <4>3, <4>4
    <3>6. CASE i # Parts - 1
      <4>1. job[w].len = chunkSize
        BY <2>2, <3>2, <3>6, FullParts
      <4>2. job[w] # Part(Parts - 1)
        BY <3>2, <3>6 DEF Part
      <4>3. LastCounted' <=> LastCounted
        <5>1. \A v \in Counting : v # w => v \in Counting' /\ job'[v] = job[v]
          BY <2>3, <3>4 DEF Counting
        <5>2. \A v \in Counting' : v \in Counting /\ job'[v] = job[v]
          BY <2>3, <3>4 DEF Counting
        <5>. QED
          BY <2>1, <4>2, <5>1, <5>2 DEF LastCounted
      <4>4. Start(Counted') = Start(Counted) + chunkSize /\ Start(Counted' - 1) = Start(Counted)
        BY <1>1, <2>4, <3>3
      <4>5. CASE LastCounted
        <5>1. PartLen(Parts - 1) \in Int
          BY NextChunk, WholeFileParts, ChunkSizePositive, SizesAssumption DEF PartLen
        <5>. QED
          BY <2>1, <3>1, <3>3, <4>1, <4>3, <4>4, <4>5, <5>1
      <4>6. CASE ~LastCounted
        BY <2>1, <3>1, <3>3, <4>1, <4>3, <4>4, <4>6
      <4>. QED
        BY <4>5, <4>6
    <3>. QED
      BY <3>5, <3>6
  <2>. QED
    BY <1>1, <2>5 DEF CountInv
<1>4. ASSUME NEW w \in Workers, PartFailed(w) PROVE CountInv'
  BY <1>1, <1>2, <1>4 DEF CountInv
<1>5. ASSUME \A w \in Workers : ~Count(w) /\ ~PartFailed(w) PROVE CountInv'
  <2>1. uploaded' = uploaded
    <3>1. ASSUME NEW w \in Workers, Worker(w) PROVE uploaded' = uploaded
      BY <1>5, <3>1 DEF Worker, TakeJob, WorkerExit, PartSaved, PartRefused, Report
    <3>. QED
      BY <3>1, WorkersAlone
  <2>. QED
    BY <1>1, <1>2, <1>5, <2>1 DEF CountInv
<1>. QED
  BY <1>3, <1>4, <1>5

\* Every total is reported once, by the worker that has counted it.
LEMMA TotalsStep ==
  ASSUME UploadInv, IsFiniteSet(Settled), TotalsInv, [UploadNext]_uploadVars
  PROVE  TotalsInv'
<1>0. /\ UploadTypeOK /\ HeldInv /\ work \in [Workers -> WorkPcs]
      /\ job \in [Workers -> Jobs \cup {NoJob}] /\ uploaded \in Nat
      /\ newTotal \in [Workers -> Nat] /\ reports \in Seq(Nat) /\ Len(reports) \in Nat
      /\ \A i \in 1 .. Len(reports) : reports[i] \in Nat
  BY DEF UploadInv, UploadTypeOK, WorkPcs
<1>1. /\ Counted \in Int /\ Counted' \in Int
      /\ \A w \in Workers : Count(w) => Counted' = Counted + 1
      /\ \A w \in Workers : PartFailed(w) => Counted' >= Counted
      /\ (\A w \in Workers : ~Count(w) /\ ~PartFailed(w)) => Counted' = Counted
  BY CountedStep
<1>2. NoneFailed' => NoneFailed /\ \A w \in Workers : ~PartFailed(w)
  BY <1>0, FailureStays
<1>3. IsFiniteSet(Reporting) /\ Cardinality(Reporting) \in Nat
  BY WorkersFinite DEF Reporting
<1>4. ASSUME NEW w \in Workers, Count(w) PROVE TotalsInv'
  <2>1. /\ work[w] = "count" /\ work' = [work EXCEPT ![w] = "report"]
        /\ uploaded' = uploaded + job[w].len /\ reports' = reports
        /\ newTotal' = [newTotal EXCEPT ![w] = uploaded']
    BY <1>4 DEF Count
  <2>2. uploaded' \in Nat /\ uploaded' > uploaded /\ uploaded' > 0
    <3>1. job[w].len \in Nat /\ job[w].len > 0
      BY <1>0, <2>1 DEF HeldInv, Holds, Good, Jobs
    <3>. QED
      BY <1>0, <2>1, <3>1
  <2>3. Reporting' = Reporting \cup {w} /\ w \notin Reporting
    BY <1>0, <2>1 DEF Reporting
  <2>4. newTotal'[w] = uploaded' /\ \A v \in Reporting : newTotal'[v] = newTotal[v]
    BY <1>0, <2>1, <2>2, <2>3 DEF Reporting
  <2>5. /\ \A i \in 1 .. Len(reports) : reports[i] > 0 /\ reports[i] <= uploaded
        /\ \A v \in Reporting : newTotal[v] \in Nat /\ newTotal[v] > 0 /\ newTotal[v] <= uploaded
    BY <1>0 DEF TotalsInv, Reporting
  <2>6. /\ \A i \in 1 .. Len(reports) : reports[i] > 0 /\ reports[i] < uploaded'
        /\ \A v \in Reporting : newTotal[v] > 0 /\ newTotal[v] < uploaded'
    BY <1>0, <2>2, <2>5
  <2>7. /\ \A i \in 1 .. Len(reports) : reports[i] > 0 /\ reports[i] <= uploaded' /\ reports[i] # uploaded'
        /\ \A v \in Reporting : newTotal[v] > 0 /\ newTotal[v] <= uploaded' /\ newTotal[v] # uploaded'
    BY <1>0, <2>2, <2>5, <2>6
  <2>8. Cardinality(Reporting') = Cardinality(Reporting) + 1
    BY <1>3, <2>3, FS_AddElement
  <2>9. /\ Len(reports') + Cardinality(Reporting') <= Counted'
        /\ NoneFailed' => Len(reports') + Cardinality(Reporting') = Counted'
    BY <1>0, <1>1, <1>2, <1>3, <1>4, <2>1, <2>8 DEF TotalsInv
  <2>10. /\ \A i \in 1 .. Len(reports') : reports'[i] > 0 /\ reports'[i] <= uploaded'
         /\ \A v \in Reporting' : newTotal'[v] > 0 /\ newTotal'[v] <= uploaded'
    BY <2>1, <2>2, <2>3, <2>4, <2>7
  <2>11. /\ \A i, k \in 1 .. Len(reports') : i # k => reports'[i] # reports'[k]
         /\ \A u, v \in Reporting' : u # v => newTotal'[u] # newTotal'[v]
         /\ \A i \in 1 .. Len(reports'), v \in Reporting' : reports'[i] # newTotal'[v]
    BY <2>1, <2>3, <2>4, <2>7 DEF TotalsInv
  <2>12. \E v \in Reporting' : newTotal'[v] = uploaded'
    BY <2>3, <2>4
  <2>. QED
    BY <2>9, <2>10, <2>11, <2>12 DEF TotalsInv
<1>5. ASSUME NEW w \in Workers, Report(w) PROVE TotalsInv'
  <2>1. /\ work[w] = "report" /\ work' = [work EXCEPT ![w] = "idle"] /\ uploaded' = uploaded
        /\ reports' = Append(reports, newTotal[w])
        /\ newTotal' = [newTotal EXCEPT ![w] = 0]
    BY <1>5 DEF Report
  <2>2. Reporting' = Reporting \ {w} /\ w \in Reporting
    BY <1>0, <2>1 DEF Reporting
  <2>3. \A v \in Reporting' : v \in Reporting /\ v # w /\ newTotal'[v] = newTotal[v]
    BY <1>0, <2>1, <2>2 DEF Reporting
  <2>4. /\ Len(reports') = Len(reports) + 1 /\ reports'[Len(reports) + 1] = newTotal[w]
        /\ \A i \in 1 .. Len(reports) : reports'[i] = reports[i]
    BY <1>0, <2>1
  <2>5. \A i \in 1 .. Len(reports') : i \in 1 .. Len(reports) \/ i = Len(reports) + 1
    BY <1>0, <2>4
  <2>6. Cardinality(Reporting') = Cardinality(Reporting) - 1
    BY <1>3, <2>2, FS_RemoveElement
  <2>7. Counted' = Counted /\ (NoneFailed' => NoneFailed)
    <3>1. \A v \in Workers : ~Count(v) /\ ~PartFailed(v)
      BY <1>0, <2>1 DEF Count, PartFailed
    <3>. QED
      BY <1>1, <1>2, <3>1
  <2>8. /\ Len(reports') + Cardinality(Reporting') <= Counted'
        /\ NoneFailed' => Len(reports') + Cardinality(Reporting') = Counted'
    BY <1>0, <1>1, <1>3, <2>4, <2>6, <2>7 DEF TotalsInv
  <2>9. /\ \A i \in 1 .. Len(reports') : reports'[i] > 0 /\ reports'[i] <= uploaded'
        /\ \A v \in Reporting' : newTotal'[v] > 0 /\ newTotal'[v] <= uploaded'
    BY <2>1, <2>2, <2>3, <2>4, <2>5 DEF TotalsInv
  <2>10. /\ \A i, k \in 1 .. Len(reports') : i # k => reports'[i] # reports'[k]
         /\ \A u, v \in Reporting' : u # v => newTotal'[u] # newTotal'[v]
         /\ \A i \in 1 .. Len(reports'), v \in Reporting' : reports'[i] # newTotal'[v]
    BY <2>2, <2>3, <2>4, <2>5 DEF TotalsInv
  <2>11. uploaded' > 0 => \/ \E i \in 1 .. Len(reports') : reports'[i] = uploaded'
                          \/ \E v \in Reporting' : newTotal'[v] = uploaded'
    <3>1. \A i \in 1 .. Len(reports) : i \in 1 .. Len(reports')
      BY <1>0, <2>4
    <3>2. Len(reports) + 1 \in 1 .. Len(reports')
      BY <1>0, <2>4
    <3>3. \A v \in Reporting : v = w \/ v \in Reporting'
      BY <2>2
    <3>. QED
      BY <2>1, <2>3, <2>4, <3>1, <3>2, <3>3 DEF TotalsInv
  <2>. QED
    BY <2>8, <2>9, <2>10, <2>11 DEF TotalsInv
<1>6. ASSUME \A w \in Workers : ~Count(w) /\ ~Report(w) PROVE TotalsInv'
  <2>1. UNCHANGED <<reports, newTotal, uploaded>> /\ Reporting' = Reporting
    <3>1. ASSUME NEW w \in Workers, Worker(w)
          PROVE  UNCHANGED <<reports, newTotal, uploaded>> /\ Reporting' = Reporting
      <4>1. UNCHANGED <<reports, newTotal, uploaded>>
        BY <1>6, <3>1 DEF Worker, TakeJob, WorkerExit, PartSaved, PartRefused, PartFailed
      <4>2. work[w] # "report" /\ work'[w] # "report" /\ \A v \in Workers : v # w => work'[v] = work[v]
        BY <1>0, <1>6, <3>1 DEF Worker, TakeJob, WorkerExit, PartSaved, PartRefused, PartFailed
      <4>. QED
        BY <4>1, <4>2 DEF Reporting
    <3>. QED
      BY <3>1, WorkersAlone DEF Reporting
  <2>2. /\ Len(reports) + Cardinality(Reporting) <= Counted'
        /\ NoneFailed' => Len(reports) + Cardinality(Reporting) = Counted'
    BY <1>0, <1>1, <1>2, <1>3, <1>6 DEF TotalsInv
  <2>. QED
    BY <2>1, <2>2 DEF TotalsInv
<1>. QED
  BY <1>4, <1>5, <1>6

LEMMA ProgressInit == UploadInit => ProgressInv
<1> SUFFICES ASSUME UploadInit PROVE ProgressInv
  OBVIOUS
<1>1. /\ work = [w \in Workers |-> "idle"] /\ Settled = {} /\ reports = << >> /\ uploaded = 0
  BY DEF UploadInit, Settled
<1>2. Counting = {} /\ Reporting = {} /\ ~LastCounted
  BY <1>1 DEF Counting, Reporting, LastCounted
<1>3. Counted = 0 /\ Cardinality(Reporting) = 0 /\ Len(reports) = 0
  BY <1>1, <1>2, FS_EmptySet DEF Counted
<1>4. Start(0) = 0
  BY ChunkSizePositive DEF Start
<1>5. CountInv
  BY <1>1, <1>2, <1>3, <1>4, FS_EmptySet DEF CountInv
<1>6. TotalsInv
  BY <1>1, <1>2, <1>3 DEF TotalsInv
<1>. QED
  BY <1>5, <1>6 DEF ProgressInv

LEMMA ProgressStep == UploadInv /\ ProgressInv /\ [UploadNext]_uploadVars => ProgressInv'
BY CountStep, TotalsStep DEF ProgressInv, CountInv

\* Progress is told each total once: no two calls have the same, none has more
\* than was counted, and after a success there was one for every part, one of
\* them with the size of the source.
THEOREM ProgressIsTrue == UploadSpec => []ProgressAddsUp
<1>1. UploadInv /\ ProgressInv => ProgressAddsUp
  <2> SUFFICES ASSUME UploadInv, ProgressInv PROVE ProgressAddsUp
    OBVIOUS
  <2>0. /\ reports \in Seq(Nat) /\ Len(reports) \in Nat /\ uploaded \in Nat
        /\ IsFiniteSet(Settled) /\ Cardinality(Settled) \in Nat
    BY FS_CardinalityType DEF UploadInv, UploadTypeOK, ProgressInv, CountInv
  <2>1. ASSUME Returned, result.ok, ctx
        PROVE  /\ Len(reports) = result.parts
               /\ Length > 0 => \E i \in 1 .. Len(reports) : reports[i] = Length
    <3>1. /\ readErr = "none" /\ \A w \in Workers : work[w] = "exited"
          /\ jobs = << >> /\ partIdx = Parts /\ result.parts = Parts
      BY <2>1, AfterSuccess
    <3>2. Parts \in Nat
      BY WholeFileParts
    <3>3. Settled = WholeFile
      <4>1. Taken = Parts
        <5>1. Len(jobs) = 0
          BY <3>1
        <5>. QED
          BY <3>1, <3>2, <5>1 DEF Taken
      <4>2. \A s \in Settled : s.part \in Nat /\ s.part < Parts /\ s = Part(s.part)
        BY <3>1, <4>1 DEF UploadInv, SettledInv, Good
      <4>3. \A i \in 0 .. Parts - 1 : \E s \in Settled : s.part = i
        BY <3>1, <3>2, <4>1 DEF UploadInv, CoverInv
      <4>. QED
        BY <3>2, <4>2, <4>3, WholeFileParts
    <3>4. Counting = {} /\ Reporting = {} /\ NoneFailed
      BY <3>1 DEF Counting, Reporting, NoneFailed
    <3>5. Counted = Parts /\ Len(reports) = Parts
      <4>1. Cardinality(Settled) = Parts
        BY <3>3, WholeFileParts
      <4>2. Cardinality(Counting) = 0 /\ Cardinality(Reporting) = 0
        BY <3>4, FS_EmptySet
      <4>3. Counted = Parts
        BY <3>2, <4>1, <4>2 DEF Counted
      <4>. QED
        BY <2>0, <3>2, <3>4, <4>2, <4>3 DEF ProgressInv, TotalsInv
    <3>6. ASSUME Length > 0 PROVE \E i \in 1 .. Len(reports) : reports[i] = Length
      <4>1. Start(Parts) >= Length
        BY <3>1, <2>1 DEF UploadInv, ProducerInv, Returned
      <4>2. Parts > 0
        <5>1. Parts = 0 => Start(Parts) = 0
          BY ChunkSizePositive DEF Start
        <5>. QED
          BY <3>2, <3>6, <4>1, <5>1, SizesAssumption
      <4>3. LastCounted
        <5>1. Part(Parts - 1) \in Settled
          BY <3>2, <3>3, <4>2, WholeFileParts
        <5>. QED
          BY <3>4, <5>1 DEF LastCounted
      <4>4. uploaded = Start(Parts - 1) + PartLen(Parts - 1)
        BY <3>1, <3>4, <3>5, <4>3 DEF ProgressInv, CountInv
      <4>5. uploaded = Length
        <5>1. /\ Parts - 1 + 1 = Parts /\ chunkSize \in Nat /\ Length \in Nat
              /\ Start(Parts) \in Int /\ Start(Parts - 1) = Start(Parts) - chunkSize
          BY <3>2, <4>2, NextChunk, ChunkSizePositive, SizesAssumption
        <5>. QED
          BY <4>1, <4>4, <5>1 DEF PartLen
      <4>. QED
        BY <3>4, <3>6, <4>5 DEF ProgressInv, TotalsInv
    <3>. QED
      BY <3>1, <3>5, <3>6
  <2>2. Len(reports) + Cardinality({w \in Workers : work[w] \in {"count", "report"}})
          <= Cardinality(Settled)
    <3>1. /\ IsFiniteSet(Counting) /\ Cardinality(Counting) \in Nat
          /\ IsFiniteSet(Reporting) /\ Cardinality(Reporting) \in Nat
      BY WorkersFinite DEF Counting, Reporting
    <3>2. {w \in Workers : work[w] \in {"count", "report"}} = Counting \cup Reporting
          /\ Counting \cap Reporting = {}
      BY DEF Counting, Reporting
    <3>3. Cardinality(Counting \cup Reporting) = Cardinality(Counting) + Cardinality(Reporting)
      BY <3>1, <3>2, FS_Union, FS_EmptySet
    <3>4. Len(reports) + Cardinality(Reporting) <= Cardinality(Settled) - Cardinality(Counting)
      BY DEF ProgressInv, TotalsInv, Counted
    <3>5. Len(reports) + (Cardinality(Counting) + Cardinality(Reporting)) <= Cardinality(Settled)
      BY <2>0, <3>1, <3>4
    <3>. QED
      BY <3>2, <3>3, <3>5
  <2>. QED
    BY <2>1, <2>2 DEF ProgressAddsUp, ProgressInv, TotalsInv
<1>2. UploadSpec => []ProgressInv
  BY ProgressInit, ProgressStep, UploadSafe, PTL DEF UploadSpec
<1>. QED
  BY <1>1, <1>2, UploadSafe, PTL
-----------------------------------------------------------------------------
(* Download                                                                *)

\* A sequence of bytes that begins at the start of the file and skips nothing.
InOrder(bytes) == \A i \in 1 .. Len(bytes) : bytes[i] = i - 1

\* Until Download returns, the writer has exactly the bytes below offset.
LoopInv ==
  /\ pc # "returned" => outcome = "none" /\ Len(written) = offset
  /\ outcome # "error" => Len(written) = offset
  /\ offset <= Len(written)
  /\ InOrder(written)

DownInv == DownTypeOK /\ LoopInv /\ OkMeansWhole

\* The numbers the proofs reckon with.
LEMMA Sizes ==
  ASSUME DownTypeOK
  PROVE  /\ fileSize \in Nat /\ offset \in Nat /\ offset <= fileSize
         /\ Limit \in Nat /\ Limit > 0 /\ written \in Seq(Nat)
BY FileAssumption DEF DownTypeOK

\* A piece is never longer than the rest of the file, and only the last one is
\* shorter than the limit.
LEMMA PieceIs ==
  ASSUME DownTypeOK
  PROVE  /\ Piece \in Seq(Nat) /\ Len(Piece) \in Nat /\ offset + Len(Piece) <= fileSize
         /\ \A i \in 1 .. Len(Piece) : Piece[i] = offset + i - 1
         /\ IsLast(Piece) => offset + Len(Piece) = fileSize
<1> DEFINE n == IF fileSize - offset < Limit THEN fileSize - offset ELSE Limit
<1>1. n \in Nat /\ offset + n <= fileSize /\ (n < Limit => offset + n = fileSize)
  BY Sizes
<1>2. Piece = [i \in 1 .. n |-> offset + i - 1]
  BY DEF Piece
<1> HIDE DEF n
<1>3. \A i \in 1 .. n : offset + i - 1 \in Nat
  BY <1>1, Sizes
<1>4. Piece \in Seq(Nat) /\ Len(Piece) = n
  BY <1>1, <1>2, <1>3
<1>. QED
  BY <1>1, <1>2, <1>4 DEF IsLast

\* Writing the beginning of a piece behind the bytes below offset keeps the order.
LEMMA WriteInOrder ==
  ASSUME NEW s \in Seq(Nat), NEW p \in Seq(Nat), InOrder(s),
         \A i \in 1 .. Len(p) : p[i] = Len(s) + i - 1
  PROVE  s \o p \in Seq(Nat) /\ Len(s \o p) = Len(s) + Len(p) /\ InOrder(s \o p)
<1>1. s \o p \in Seq(Nat) /\ Len(s \o p) = Len(s) + Len(p)
  OBVIOUS
<1>2. ASSUME NEW i \in 1 .. Len(s \o p) PROVE (s \o p)[i] = i - 1
  <2>1. CASE i \in 1 .. Len(s)
    BY <2>1 DEF InOrder
  <2>2. CASE i - Len(s) \in 1 .. Len(p)
    <3>1. (s \o p)[i] = p[i - Len(s)]
      BY <1>1, <2>2
    <3>2. p[i - Len(s)] = Len(s) + (i - Len(s)) - 1
      BY <2>2
    <3>. QED
      BY <3>1, <3>2
  <2>. QED
    BY <1>1, <2>1, <2>2
<1>. QED
  BY <1>1, <1>2 DEF InOrder

LEMMA DownInvInit == DownInit => DownInv
<1> SUFFICES ASSUME DownInit PROVE DownInv
  OBVIOUS
<1>1. fileSize \in FileSizes /\ pc = "loop" /\ offset = 0 /\ outcome = "none" /\ sent = {}
  BY DEF DownInit
<1>2. written \in Seq(Nat) /\ Len(written) = 0
  BY DEF DownInit
<1>3. fallback \in BOOLEAN /\ live \in BOOLEAN /\ stubborn \in BOOLEAN
  BY DEF DownInit
<1>4. req \in [precise : BOOLEAN, cdn : BOOLEAN, flags : SUBSET Flags]
  BY DEF DownInit
<1>5. offset \in 0 .. fileSize
  BY <1>1, FileAssumption
<1>6. DownTypeOK
  BY <1>1, <1>2, <1>3, <1>4, <1>5 DEF DownTypeOK
<1>7. LoopInv /\ OkMeansWhole
  BY <1>1, <1>2 DEF LoopInv, InOrder, OkMeansWhole
<1>. QED
  BY <1>6, <1>7 DEF DownInv

\* Encoding a request keeps it a request.
LEMMA EncodeType ==
  ASSUME NEW r \in [precise : BOOLEAN, cdn : BOOLEAN, flags : SUBSET Flags]
  PROVE  /\ Encode(r) \in [precise : BOOLEAN, cdn : BOOLEAN, flags : SUBSET Flags]
         /\ Encode(r).flags \in SUBSET Flags
BY DEF Encode

LEMMA DownInvStep == DownInv /\ [DownNext]_downVars => DownInv'
<1> SUFFICES ASSUME DownInv, [DownNext]_downVars PROVE DownInv'
  OBVIOUS
<1>0. DownTypeOK /\ LoopInv /\ OkMeansWhole
  BY DEF DownInv
<1> USE DEF Finish
<1>1. CASE CancelDownload
  BY <1>0, <1>1 DEF CancelDownload, DownInv, DownTypeOK, LoopInv, InOrder, OkMeansWhole
<1>2. CASE CtxDone
  BY <1>0, <1>2 DEF CtxDone, DownInv, DownTypeOK, LoopInv, InOrder, OkMeansWhole
<1>3. CASE AnswerBad
  BY <1>0, <1>3 DEF AnswerBad, DownInv, DownTypeOK, LoopInv, InOrder, OkMeansWhole
<1>4. CASE GetFile
  <2>1. PICK r \in [precise : BOOLEAN, cdn : BOOLEAN, flags : SUBSET Flags] :
          req' = Encode(r) /\ sent' = Encode(r).flags
    BY <1>4 DEF GetFile, Ask
  <2>2. /\ req' \in [precise : BOOLEAN, cdn : BOOLEAN, flags : SUBSET Flags]
        /\ sent' \in SUBSET Flags
    BY <2>1, EncodeType
  <2>. QED
    BY <1>0, <1>4, <2>2 DEF GetFile, DownInv, DownTypeOK, LoopInv, InOrder, OkMeansWhole
<1>5. CASE AnswerRedirect
  <2>1. PICK r \in [precise : BOOLEAN, cdn : BOOLEAN, flags : SUBSET Flags] :
          req' = Encode(r) /\ sent' = Encode(r).flags
    BY <1>0, <1>5 DEF AnswerRedirect, Ask, DownTypeOK
  <2>2. /\ req' \in [precise : BOOLEAN, cdn : BOOLEAN, flags : SUBSET Flags]
        /\ sent' \in SUBSET Flags
    BY <2>1, EncodeType
  <2>. QED
    BY <1>0, <1>5, <2>2 DEF AnswerRedirect, DownInv, DownTypeOK, LoopInv, InOrder, OkMeansWhole
<1>6. CASE AnswerRedirectAgain
  BY <1>0, <1>6 DEF AnswerRedirectAgain, DownInv, DownTypeOK, LoopInv, InOrder, OkMeansWhole
<1>7. CASE AnswerFile
  <2>1. /\ pc = "sent" /\ outcome = "none" /\ Len(written) = offset /\ InOrder(written)
        /\ UNCHANGED <<fileSize, req, sent, fallback, live, stubborn>>
    BY <1>0, <1>7 DEF AnswerFile, LoopInv
  <2>2. ASSUME NEW p \in Seq(Nat), \A i \in 1 .. Len(p) : p[i] = offset + i - 1,
               written' = written \o p
        PROVE  /\ written' \in Seq(Nat) /\ Len(written') = offset + Len(p)
               /\ InOrder(written')
    BY <1>0, <2>1, <2>2, Sizes, WriteInOrder
  <2>3. CASE Take(Piece)
    <3>1. /\ written' \in Seq(Nat) /\ Len(written') = offset' /\ InOrder(written')
          /\ offset' = offset + Len(Piece)
      BY <1>0, <2>2, <2>3, PieceIs DEF Take
    <3>2. offset' \in 0 .. fileSize /\ offset' <= Len(written')
      BY <1>0, <3>1, Sizes, PieceIs
    <3>3. \/ pc' = "returned" /\ outcome' = "ok" /\ IsLast(Piece)
          \/ pc' = "loop" /\ outcome' = outcome
          \/ pc' = "returned" /\ outcome' = "error"
      BY <1>7 DEF AnswerFile
    <3>4. outcome' = "ok" => offset' = fileSize
      BY <1>0, <2>1, <3>1, <3>3, PieceIs
    <3>. QED
      BY <1>0, <2>1, <3>1, <3>2, <3>3, <3>4 DEF DownInv, DownTypeOK, LoopInv, OkMeansWhole
  <2>4. CASE ~Take(Piece)
    <3>1. PICK n \in 0 .. Len(Piece) - 1 : written' = written \o SubSeq(Piece, 1, n)
      BY <1>7, <2>4 DEF AnswerFile
    <3>2. pc' = "returned" /\ outcome' = "error" /\ offset' = offset
      BY <1>7, <2>4 DEF AnswerFile
    <3>3. PICK p : p = SubSeq(Piece, 1, n)
      OBVIOUS
    <3>4. p \in Seq(Nat) /\ Len(p) = n /\ \A i \in 1 .. Len(p) : p[i] = offset + i - 1
      <4>1. n \in Nat /\ n <= Len(Piece) /\ Piece \in Seq(Nat) /\ Len(Piece) \in Nat
        BY <1>0, PieceIs
      <4>2. p \in Seq(Nat) /\ Len(p) = n /\ \A i \in 1 .. n : p[i] = Piece[i]
        BY <3>3, <4>1
      <4>3. \A i \in 1 .. n : i \in 1 .. Len(Piece)
        BY <4>1
      <4>4. \A i \in 1 .. n : Piece[i] = offset + i - 1
        BY <1>0, <4>3, PieceIs
      <4>. QED
        BY <4>2, <4>4
    <3>5. written' \in Seq(Nat) /\ Len(written') = offset + n /\ InOrder(written')
      BY <2>2, <3>1, <3>3, <3>4
    <3>6. offset' <= Len(written')
      BY <1>0, <3>1, <3>2, <3>5, Sizes, PieceIs
    <3>. QED
      BY <1>0, <2>1, <3>2, <3>5, <3>6 DEF DownInv, DownTypeOK, LoopInv, OkMeansWhole
  <2>. QED
    BY <2>3, <2>4
<1>8. CASE UNCHANGED downVars
  BY <1>0, <1>8 DEF downVars, DownInv, DownTypeOK, LoopInv, InOrder, OkMeansWhole
<1>. QED
  BY <1>1, <1>2, <1>3, <1>4, <1>5, <1>6, <1>7, <1>8 DEF DownNext, Answer

\* The invariant of Download, from which the two properties follow.
THEOREM DownloadSafe == DownSpec => []DownInv
BY DownInvInit, DownInvStep, PTL DEF DownSpec

\* The writer gets the bytes of the file in order, each once, redirects or not.
THEOREM WritesInOrder == DownSpec => []WrittenIsPrefix
<1>1. DownInv => WrittenIsPrefix
  <2> SUFFICES ASSUME DownInv PROVE WrittenIsPrefix
    OBVIOUS
  <2>1. written \in Seq(Nat) /\ offset \in Nat /\ Len(written) \in Nat
    BY Sizes DEF DownInv
  <2>2. Len(written) = offset \/ (outcome = "error" /\ Len(written) > offset)
    <3>1. offset <= Len(written)
      BY DEF DownInv, LoopInv
    <3>2. outcome # "error" => Len(written) = offset
      BY DEF DownInv, LoopInv
    <3>. QED
      BY <2>1, <3>1, <3>2
  <2>3. \A i \in DOMAIN written : written[i] = i - 1
    <3>1. DOMAIN written = 1 .. Len(written)
      BY <2>1
    <3>. QED
      BY <3>1 DEF DownInv, LoopInv, InOrder
  <2>. QED
    BY <2>2, <2>3 DEF WrittenIsPrefix
<1>. QED
  BY <1>1, DownloadSafe, PTL

\* Success means the whole file, but for a server that insists on redirecting.
THEOREM SuccessMeansWhole == DownSpec => []OkMeansWhole
<1>1. DownInv => OkMeansWhole
  BY DEF DownInv
<1>. QED
  BY <1>1, DownloadSafe, PTL
=============================================================================
