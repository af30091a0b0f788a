-------------------------- MODULE AnalysisJobsProofs --------------------------
(***************************************************************************)
(* Theorems about AnalysisJobs, for any number of workers and jobs: why    *)
(* two writers of one job never meet.  A job is in one place at a time: to *)
(* be recovered, about to be queued, in the queue, or in the hands of one  *)
(* worker; and what the cleanup loop may delete has ended, so that no      *)
(* worker will start on it again.                                          *)
(* The second half shows what clients rely on: the provider implements     *)
(* ProviderJobs, because a worker's record is still processing until its   *)
(* last write and the result is stored before that write.                  *)
(***************************************************************************)
EXTENDS AnalysisJobs, TLAPS

RecordTypeOK == record \in [Job -> JobRecord] /\ active \subseteq Job

StoreTypeOK ==
  /\ saved \in [Job -> {"none", "saved", "expired"}]
  /\ expiring \subseteq Job
  /\ file \in [Job -> {"none", "partial", "whole"}]

ProcessTypeOK ==
  process \in [phase : {"down", "recovering", "up"}, toRecover : SUBSET Job,
               submitting : SUBSET Job, crashes : 0..MaxCrashes]

QueueTypeOK == queue \in Seq(Job)

WorkerTypeOK == worker \in [Workers -> Worker]

CleanerTypeOK ==
  cleaner \in [phase : {"off", "idle", "deleted", "dead"}, job : 0..MaxJobs]

SetupTypeOK == setup \in [remote : BOOLEAN, keepFailed : BOOLEAN, faulty : BOOLEAN]

TypePartsOK ==
  /\ RecordTypeOK /\ StoreTypeOK /\ ProcessTypeOK /\ QueueTypeOK
  /\ WorkerTypeOK /\ CleanerTypeOK /\ SetupTypeOK

LEMMA TypeParts ==
  (AnalysisJobsTypeOK <=> TypePartsOK) /\ (AnalysisJobsTypeOK' <=> TypePartsOK')
BY DEF AnalysisJobsTypeOK, TypePartsOK, RecordTypeOK, StoreTypeOK, ProcessTypeOK, QueueTypeOK,
       WorkerTypeOK, CleanerTypeOK, SetupTypeOK
-----------------------------------------------------------------------------
InQueue(j) == Contains(queue, j)

NoRepeats == \A i, k \in 1..Len(queue) : queue[i] = queue[k] => i = k

Holds(w) == worker[w].phase # "waiting"

Ended(j) == record[j].status \in Terminal \cup {"gone"}

\* A job is in one place at a time.
InPlaces ==
  /\ NoRepeats
  /\ \A j \in process.toRecover \cup process.submitting :
       ~ InQueue(j) /\ \A w \in Workers : Holds(w) => worker[w].job # j
  /\ \A w \in Workers : Holds(w) => worker[w].job \in Job /\ ~ InQueue(worker[w].job)
  /\ \A v, w \in Workers : Holds(v) /\ Holds(w) /\ worker[v].job = worker[w].job => v = w

\* What is there in which part of the life of the process.
Phases ==
  /\ process.phase = "down" => queue = <<>> /\ \A w \in Workers : ~ Holds(w)
  /\ process.phase # "recovering" => process.toRecover = {}
  /\ process.phase # "up" => process.submitting = {}

\* A job that has a place has a record.
Recorded ==
  /\ \A j \in Job : InQueue(j) => record[j].status # "none"
  /\ \A j \in process.submitting : record[j].status # "none"
  /\ \A w \in Workers : Holds(w) => record[worker[w].job].status # "none"
  /\ \A j \in process.toRecover : record[j].status \in {"queued", "processing", "gone"}

\* What is to be deleted has ended, and nobody is at work on it.
Planned ==
  /\ \A w \in Workers : worker[w].phase \in {"scheduling", "disposing"} => Ended(worker[w].job)
  /\ \A j \in expiring : Ended(j) /\ \A w \in Workers : ~ Writes(w, j)
  /\ cleaner.phase = "deleted" => cleaner.job \in expiring

JobsInv == AnalysisJobsTypeOK /\ InPlaces /\ Phases /\ Recorded /\ Planned
-----------------------------------------------------------------------------
(***************************************************************************)
(* The queue and the records.                                              *)
(***************************************************************************)

LEMMA EnqueueAdds ==
  ASSUME QueueTypeOK, NoRepeats, NEW j \in Job, Enqueue(j)
  PROVE  /\ QueueTypeOK' /\ NoRepeats'
         /\ \A i \in Job : InQueue(i)' <=> InQueue(i) \/ i = j
<1>1. CASE InQueue(j)
  BY <1>1 DEF QueueTypeOK, NoRepeats, InQueue, Enqueue, Contains
<1>2. CASE ~ InQueue(j)
  <2>1. queue' = Append(queue, j)
    BY <1>2 DEF Enqueue, InQueue
  <2>2. /\ queue' \in Seq(Job) /\ Len(queue') = Len(queue) + 1 /\ Len(queue) \in Nat
        /\ queue'[Len(queue) + 1] = j
        /\ \A i \in 1..Len(queue) : queue'[i] = queue[i]
    BY <2>1 DEF QueueTypeOK
  <2>3. \A i \in Job : InQueue(i)' <=> InQueue(i) \/ i = j
    BY <2>2 DEF InQueue, Contains
  <2>4. NoRepeats'
    BY <1>2, <2>2 DEF NoRepeats, InQueue, Contains
  <2> QED
    BY <2>2, <2>3, <2>4 DEF QueueTypeOK
<1> QED
  BY <1>1, <1>2

LEMMA TakingRemoves ==
  ASSUME QueueTypeOK, NoRepeats, queue # <<>>, queue' = Tail(queue)
  PROVE  /\ Head(queue) \in Job /\ InQueue(Head(queue))
         /\ QueueTypeOK' /\ NoRepeats'
         /\ \A i \in Job : InQueue(i)' <=> InQueue(i) /\ i # Head(queue)
<1>1. /\ Len(queue) \in Nat /\ Len(queue) > 0
      /\ Head(queue) = queue[1] /\ queue[1] \in Job
      /\ queue' \in Seq(Job) /\ Len(queue') = Len(queue) - 1
      /\ \A i \in 1..(Len(queue) - 1) : queue'[i] = queue[i + 1]
  BY DEF QueueTypeOK
<1>2. InQueue(Head(queue))
  BY <1>1 DEF InQueue, Contains
<1>3. NoRepeats'
  BY <1>1 DEF NoRepeats
<1>4. ASSUME NEW i \in Job PROVE InQueue(i)' <=> InQueue(i) /\ i # Head(queue)
  <2>1. ASSUME InQueue(i)' PROVE InQueue(i) /\ i # Head(queue)
    <3>1. PICK k \in 1..(Len(queue) - 1) : queue'[k] = i
      BY <1>1, <2>1 DEF InQueue, Contains
    <3>2. k + 1 \in 1..Len(queue) /\ k + 1 # 1 /\ queue[k + 1] = i /\ 1 \in 1..Len(queue)
      BY <1>1, <3>1
    <3> QED
      BY <1>1, <3>2 DEF InQueue, Contains, NoRepeats
  <2>2. ASSUME InQueue(i), i # Head(queue) PROVE InQueue(i)'
    <3>1. PICK k \in 1..Len(queue) : queue[k] = i
      BY <2>2 DEF InQueue, Contains
    <3>2. k - 1 \in 1..(Len(queue) - 1) /\ queue'[k - 1] = queue[k]
      BY <1>1, <2>2, <3>1
    <3> QED
      BY <1>1, <3>1, <3>2 DEF InQueue, Contains
  <2> QED
    BY <2>1, <2>2
<1> QED
  BY <1>1, <1>2, <1>3, <1>4 DEF QueueTypeOK

\* A write of a record changes that record alone, and leaves one that is gone.
LEMMA UpdateKeeps ==
  ASSUME RecordTypeOK, NEW j \in Job, NEW status \in JobStatus, NEW cached \in BOOLEAN,
         UpdateRecord(j, status, cached)
  PROVE  /\ RecordTypeOK'
         /\ \A i \in Job : i # j => record'[i] = record[i]
         /\ record'[j].status = IF record[j].status = "gone" THEN "gone" ELSE status
<1>1. CASE record[j].status = "gone"
  BY <1>1 DEF RecordTypeOK, UpdateRecord
<1>2. CASE record[j].status # "gone"
  BY <1>2 DEF RecordTypeOK, UpdateRecord, JobRecord
<1> QED
  BY <1>1, <1>2

\* As long as nothing is queued, recovered or taken, jobs keep their places.
LEMMA PlacesKept ==
  ASSUME InPlaces, queue' = queue,
         process'.toRecover \subseteq process.toRecover,
         process'.submitting \subseteq process.submitting,
         \A w \in Workers : Holds(w)' => Holds(w) /\ worker'[w].job = worker[w].job
  PROVE  InPlaces'
BY DEF InPlaces, NoRepeats, InQueue
-----------------------------------------------------------------------------
(***************************************************************************)
(* The process.                                                            *)
(***************************************************************************)

LEMMA StartKeeps == JobsInv /\ StartProcess => JobsInv'
<1> SUFFICES ASSUME JobsInv, StartProcess PROVE JobsInv'
  OBVIOUS
<1> USE DEF JobsInv, TypePartsOK
<1>1. /\ Recoverable \in SUBSET Job
      /\ process' = [process EXCEPT !.phase = "recovering", !.toRecover = Recoverable]
  BY TypeParts DEF StartProcess, Recoverable, RecordTypeOK
<1>2. AnalysisJobsTypeOK'
  BY <1>1, TypeParts DEF StartProcess, RecordTypeOK, StoreTypeOK, ProcessTypeOK,
     QueueTypeOK, WorkerTypeOK, CleanerTypeOK, SetupTypeOK
<1>3. /\ process'.phase = "recovering" /\ process'.toRecover = Recoverable
      /\ process'.submitting = {} /\ queue = <<>> /\ queue' = <<>> /\ worker' = worker
      /\ \A w \in Workers : ~ Holds(w)
  BY <1>1, TypeParts DEF StartProcess, ProcessTypeOK, Phases
<1>4. \A j : ~ InQueue(j)'
  BY <1>3 DEF InQueue, Contains
<1>5. InPlaces' /\ Phases'
  BY <1>3, <1>4 DEF InPlaces, Phases, NoRepeats, Holds
<1>6. Recorded'
  BY <1>3, <1>4 DEF Recorded, Holds, Recoverable, StartProcess
<1>7. Planned'
  BY DEF StartProcess, Planned, Ended, Writes, Busy
<1> QED
  BY <1>2, <1>5, <1>6, <1>7

LEMMA RecoverKeeps == JobsInv /\ RecoverJob => JobsInv'
<1> SUFFICES ASSUME JobsInv, RecoverJob PROVE JobsInv'
  OBVIOUS
<1> USE DEF JobsInv, TypePartsOK
<1>1. PICK j \in process.toRecover :
        /\ UpdateRecord(j, "queued", record[j].cached)
        /\ Enqueue(j)
        /\ process' = [process EXCEPT !.toRecover = @ \ {j}]
  BY DEF RecoverJob
<1>2. /\ j \in Job /\ process.phase = "recovering"
      /\ record[j].cached \in BOOLEAN /\ "queued" \in JobStatus
      /\ record[j].status \in {"queued", "processing", "gone"}
  BY TypeParts DEF ProcessTypeOK, RecordTypeOK, JobRecord, JobStatus, RecoverJob, Recorded
<1>3. /\ RecordTypeOK'
      /\ \A i \in Job : i # j => record'[i] = record[i]
      /\ record'[j].status \in {"queued", "gone"}
      /\ Ended(j) => record'[j].status = "gone"
  BY <1>1, <1>2, TypeParts, UpdateKeeps DEF Ended, Terminal
<1>4. QueueTypeOK' /\ NoRepeats' /\ \A i \in Job : InQueue(i)' <=> InQueue(i) \/ i = j
  BY <1>1, <1>2, TypeParts, EnqueueAdds DEF InPlaces
<1>5. /\ process'.phase = process.phase /\ process'.submitting = process.submitting
      /\ process'.toRecover = process.toRecover \ {j} /\ ProcessTypeOK'
      /\ process.submitting = {}
  BY <1>1, <1>2, TypeParts DEF ProcessTypeOK, Phases
<1>6. AnalysisJobsTypeOK'
  BY <1>3, <1>4, <1>5, TypeParts DEF RecoverJob, StoreTypeOK, WorkerTypeOK,
     CleanerTypeOK, SetupTypeOK
<1>7. worker' = worker /\ expiring' = expiring /\ cleaner' = cleaner
  BY DEF RecoverJob
<1>8. InPlaces'
  BY <1>2, <1>4, <1>5, <1>7, TypeParts DEF InPlaces, Holds, ProcessTypeOK
<1>9. Phases'
  BY <1>2, <1>5 DEF Phases
<1>10. Recorded'
  BY <1>2, <1>3, <1>4, <1>5, <1>7, TypeParts DEF Recorded, InPlaces, Holds, ProcessTypeOK
<1>11. Planned'
  <2>1. \A i \in Job : Ended(i) => Ended(i)'
    BY <1>3 DEF Ended
  <2>2. \A w \in Workers : Holds(w) => worker[w].job \in Job
    BY DEF InPlaces
  <2> QED
    BY <1>7, <2>1, <2>2, TypeParts DEF Planned, Writes, Busy, Holds, StoreTypeOK
<1> QED
  BY <1>6, <1>8, <1>9, <1>10, <1>11

LEMMA ServingKeeps == JobsInv /\ BeginServing => JobsInv'
<1> SUFFICES ASSUME JobsInv, BeginServing PROVE JobsInv'
  OBVIOUS
<1> USE DEF JobsInv, TypePartsOK
<1>1. /\ process'.phase = "up" /\ process'.submitting = process.submitting
      /\ process'.toRecover = {} /\ ProcessTypeOK' /\ process.toRecover = {}
  BY TypeParts DEF BeginServing, ProcessTypeOK
<1>2. CleanerTypeOK'
  BY AnalysisJobsAssumption DEF BeginServing, CleanerTypeOK
<1>3. AnalysisJobsTypeOK'
  BY <1>1, <1>2, TypeParts DEF BeginServing, RecordTypeOK, StoreTypeOK, QueueTypeOK,
     WorkerTypeOK, SetupTypeOK
<1>4. InPlaces'
  BY <1>1, PlacesKept DEF BeginServing, Holds
<1>5. Phases' /\ Recorded'
  BY <1>1 DEF BeginServing, Phases, Recorded, Holds, InQueue
<1>6. Planned'
  BY DEF BeginServing, Planned, Ended, Writes, Busy
<1> QED
  BY <1>3, <1>4, <1>5, <1>6

LEMMA SubmitKeeps == ASSUME NEW j \in Job PROVE JobsInv /\ SubmitJob(j) => JobsInv'
<1> SUFFICES ASSUME JobsInv, SubmitJob(j) PROVE JobsInv'
  OBVIOUS
<1> USE DEF JobsInv, TypePartsOK
<1>1. /\ process.phase = "up" /\ record[j].status = "none"
      /\ process' = [process EXCEPT !.submitting = @ \cup {j}]
      /\ record' = [record EXCEPT ![j].status = "queued"]
      /\ UNCHANGED <<saved, expiring, file, queue, worker, cleaner, setup>>
  BY DEF SubmitJob
<1>2. /\ process'.phase = "up" /\ process'.submitting = process.submitting \cup {j}
      /\ process'.toRecover = {} /\ process.toRecover = {} /\ ProcessTypeOK'
  BY <1>1, TypeParts DEF ProcessTypeOK, Phases
<1>3. /\ RecordTypeOK' /\ record'[j].status = "queued"
      /\ \A i \in Job : i # j => record'[i] = record[i]
  BY <1>1, TypeParts DEF SubmitJob, RecordTypeOK, JobRecord, JobStatus
<1>4. AnalysisJobsTypeOK'
  BY <1>1, <1>2, <1>3, TypeParts DEF StoreTypeOK, QueueTypeOK, WorkerTypeOK,
     CleanerTypeOK, SetupTypeOK
<1>5. ~ InQueue(j) /\ \A w \in Workers : Holds(w) => worker[w].job # j
  BY <1>1 DEF Recorded
<1>6. InPlaces'
  BY <1>1, <1>2, <1>5 DEF InPlaces, NoRepeats, InQueue, Holds
<1>7. Phases'
  BY <1>1, <1>2 DEF Phases, Holds
<1>8. Recorded'
  BY <1>1, <1>2, <1>3, TypeParts DEF Recorded, InQueue, Holds, InPlaces, ProcessTypeOK
<1>9. Planned'
  <2>1. \A i \in Job : Ended(i) => Ended(i)'
    BY <1>1, <1>3 DEF Ended, Terminal
  <2>2. \A w \in Workers : Holds(w) => worker[w].job \in Job
    BY DEF InPlaces
  <2> QED
    BY <1>1, <2>1, <2>2, TypeParts DEF Planned, Writes, Busy, Holds, StoreTypeOK
<1> QED
  BY <1>4, <1>6, <1>7, <1>8, <1>9

LEMMA QueueingKeeps == ASSUME NEW j \in Job PROVE JobsInv /\ EnqueueJob(j) => JobsInv'
<1> SUFFICES ASSUME JobsInv, EnqueueJob(j) PROVE JobsInv'
  OBVIOUS
<1> USE DEF JobsInv, TypePartsOK
<1>1. /\ j \in process.submitting /\ Enqueue(j)
      /\ process' = [process EXCEPT !.submitting = @ \ {j}]
      /\ UNCHANGED <<record, active, saved, expiring, file, worker, cleaner, setup>>
  BY DEF EnqueueJob
<1>2. /\ process'.phase = process.phase /\ process'.toRecover = process.toRecover
      /\ process'.submitting = process.submitting \ {j} /\ ProcessTypeOK'
      /\ process.phase = "up" /\ process.toRecover = {}
  BY <1>1, TypeParts DEF ProcessTypeOK, Phases
<1>3. QueueTypeOK' /\ NoRepeats' /\ \A i \in Job : InQueue(i)' <=> InQueue(i) \/ i = j
  BY <1>1, TypeParts, EnqueueAdds DEF InPlaces
<1>4. AnalysisJobsTypeOK'
  BY <1>1, <1>2, <1>3, TypeParts DEF RecordTypeOK, StoreTypeOK, WorkerTypeOK,
     CleanerTypeOK, SetupTypeOK
<1>5. InPlaces'
  BY <1>1, <1>2, <1>3, TypeParts DEF InPlaces, Holds, ProcessTypeOK
<1>6. Phases'
  BY <1>2 DEF Phases
<1>7. Recorded'
  BY <1>1, <1>2, <1>3 DEF Recorded, Holds
<1>8. Planned'
  BY <1>1 DEF Planned, Ended, Writes, Busy
<1> QED
  BY <1>4, <1>5, <1>6, <1>7, <1>8

LEMMA EndingKeeps == JobsInv /\ ProcessEnds => JobsInv'
<1> SUFFICES ASSUME JobsInv, ProcessEnds PROVE JobsInv'
  OBVIOUS
<1> USE DEF JobsInv, TypePartsOK
<1>1. /\ process' = [phase |-> "down", toRecover |-> {}, submitting |-> {},
                     crashes |-> process.crashes + 1]
      /\ queue' = <<>> /\ worker' = [w \in Workers |-> Waiting]
      /\ cleaner' = [phase |-> "off", job |-> 0]
      /\ UNCHANGED <<record, active, saved, expiring, file, setup>>
      /\ process.crashes < MaxCrashes
  BY DEF ProcessEnds
<1>2. ProcessTypeOK' /\ CleanerTypeOK' /\ WorkerTypeOK' /\ QueueTypeOK'
  BY <1>1, TypeParts, AnalysisJobsAssumption DEF ProcessTypeOK, CleanerTypeOK,
     WorkerTypeOK, QueueTypeOK, Worker, WorkerPhase, Waiting
<1>3. AnalysisJobsTypeOK'
  BY <1>1, <1>2, TypeParts DEF RecordTypeOK, StoreTypeOK, SetupTypeOK
<1>4. (\A j : ~ InQueue(j)') /\ \A w \in Workers : ~ Holds(w)' /\ worker'[w].phase = "waiting"
  BY <1>1 DEF InQueue, Contains, Holds, Waiting
<1>5. InPlaces' /\ Phases' /\ Recorded'
  BY <1>1, <1>4 DEF InPlaces, Phases, Recorded, NoRepeats
<1>6. Planned'
  BY <1>1, <1>4 DEF Planned, Ended, Writes, Busy
<1> QED
  BY <1>3, <1>5, <1>6

LEMMA ExpiryKeeps ==
  ASSUME NEW j \in Job PROVE JobsInv /\ (RecordExpires(j) \/ ResultExpires(j)) => JobsInv'
<1> SUFFICES ASSUME JobsInv, RecordExpires(j) \/ ResultExpires(j) PROVE JobsInv'
  OBVIOUS
<1> USE DEF JobsInv, TypePartsOK
<1>1. /\ saved' \in [Job -> {"none", "saved", "expired"}]
      /\ UNCHANGED <<active, expiring, file, process, queue, worker, cleaner, setup>>
  BY TypeParts DEF RecordExpires, ResultExpires, StoreTypeOK
<1>2. /\ RecordTypeOK' /\ \A i \in Job : record'[i].status \in {record[i].status, "gone"}
  <2>1. CASE RecordExpires(j)
    <3>1. /\ record' = [record EXCEPT ![j] = [status |-> "gone", cached |-> FALSE]]
          /\ [status |-> "gone", cached |-> FALSE] \in JobRecord
      BY <2>1 DEF RecordExpires, JobRecord, JobStatus
    <3>2. RecordTypeOK'
      BY <3>1, <1>1, TypeParts DEF RecordTypeOK
    <3> QED
      BY <3>1, <3>2, TypeParts DEF RecordTypeOK
  <2>2. CASE ResultExpires(j)
    BY <1>1, <2>2, TypeParts DEF ResultExpires, RecordTypeOK
  <2> QED
    BY <2>1, <2>2
<1>3. AnalysisJobsTypeOK'
  BY <1>1, <1>2, TypeParts DEF StoreTypeOK, ProcessTypeOK, QueueTypeOK, WorkerTypeOK,
     CleanerTypeOK, SetupTypeOK
<1>4. InPlaces' /\ Phases'
  BY <1>1, PlacesKept DEF Phases, Holds
<1>5. Recorded'
  BY <1>1, <1>2, TypeParts DEF Recorded, InQueue, Holds, InPlaces, ProcessTypeOK
<1>6. Planned'
  <2>1. \A i \in Job : Ended(i) => Ended(i)'
    BY <1>2 DEF Ended
  <2>2. \A w \in Workers : Holds(w) => worker[w].job \in Job
    BY DEF InPlaces
  <2> QED
    BY <1>1, <2>1, <2>2, TypeParts DEF Planned, Writes, Busy, Holds, StoreTypeOK
<1> QED
  BY <1>3, <1>4, <1>5, <1>6
-----------------------------------------------------------------------------
(***************************************************************************)
(* The cleanup loop.                                                       *)
(***************************************************************************)

LEMMA CleanerKeeps == JobsInv /\ (CleanerStep \/ CleanerDies) => JobsInv'
<1> SUFFICES ASSUME JobsInv, CleanerStep \/ CleanerDies PROVE JobsInv'
  OBVIOUS
<1> USE DEF JobsInv, TypePartsOK
<1>1. UNCHANGED <<saved, process, queue, worker, setup>>
  BY DEF CleanerStep, CleanerDies, ClearVideoCache, DeleteExpiredFile
<1>2. InPlaces' /\ Phases'
  BY <1>1, PlacesKept DEF Phases, Holds
<1>3. CASE CleanerDies
  <2>1. /\ UNCHANGED <<record, active, expiring, file>>
        /\ cleaner' = [phase |-> "dead", job |-> 0]
    BY <1>3 DEF CleanerDies
  <2>2. AnalysisJobsTypeOK'
    BY <1>1, <2>1, TypeParts, AnalysisJobsAssumption DEF RecordTypeOK, StoreTypeOK,
       ProcessTypeOK, QueueTypeOK, WorkerTypeOK, CleanerTypeOK, SetupTypeOK
  <2>3. Recorded' /\ Planned'
    BY <1>1, <2>1 DEF Recorded, Planned, InQueue, Holds, Ended, Writes, Busy
  <2> QED
    BY <1>2, <2>2, <2>3
<1>4. ASSUME NEW j \in Job, DeleteExpiredFile(j) PROVE JobsInv'
  <2>1. /\ UNCHANGED <<record, active, expiring>> /\ j \in expiring
        /\ file' = [file EXCEPT ![j] = "none"]
        /\ cleaner' = [phase |-> "deleted", job |-> j]
    BY <1>4 DEF DeleteExpiredFile
  <2>2. StoreTypeOK' /\ CleanerTypeOK'
    BY <1>1, <2>1, TypeParts, AnalysisJobsAssumption DEF StoreTypeOK, CleanerTypeOK, Job
  <2>3. AnalysisJobsTypeOK'
    BY <1>1, <2>1, <2>2, TypeParts DEF RecordTypeOK, ProcessTypeOK, QueueTypeOK,
       WorkerTypeOK, SetupTypeOK
  <2>4. Recorded' /\ Planned'
    BY <1>1, <2>1 DEF Recorded, Planned, InQueue, Holds, Ended, Writes, Busy
  <2> QED
    BY <1>2, <2>3, <2>4
<1>5. CASE ClearVideoCache
  <2> DEFINE j == cleaner.job
  <2>1. /\ UpdateRecord(j, record[j].status, FALSE) /\ j \in expiring
        /\ expiring' = expiring \ {j} /\ UNCHANGED file
        /\ cleaner' = [phase |-> "idle", job |-> 0]
    BY <1>5 DEF ClearVideoCache, Planned
  <2>2. j \in Job /\ record[j].status \in JobStatus
    BY <2>1, TypeParts DEF StoreTypeOK, RecordTypeOK, JobRecord
  <2>3. RecordTypeOK' /\ \A i \in Job : record'[i].status = record[i].status
    <3>1. RecordTypeOK /\ FALSE \in BOOLEAN
      BY TypeParts
    <3> HIDE DEF j
    <3>2. /\ RecordTypeOK' /\ \A i \in Job : i # j => record'[i] = record[i]
          /\ record'[j].status = record[j].status
      BY <2>1, <2>2, <3>1, UpdateKeeps
    <3> QED
      BY <3>2
  <2>4. AnalysisJobsTypeOK'
    BY <1>1, <2>1, <2>3, TypeParts, AnalysisJobsAssumption DEF StoreTypeOK,
       ProcessTypeOK, QueueTypeOK, WorkerTypeOK, CleanerTypeOK, SetupTypeOK
  <2>5. Recorded'
    BY <1>1, <2>3, TypeParts DEF Recorded, InQueue, Holds, InPlaces, ProcessTypeOK
  <2>6. Planned'
    <3>1. \A i \in Job : Ended(i) => Ended(i)'
      BY <2>3 DEF Ended
    <3>2. \A w \in Workers : Holds(w) => worker[w].job \in Job
      BY DEF InPlaces
    <3> QED
      BY <1>1, <2>1, <3>1, <3>2, TypeParts DEF Planned, Writes, Busy, Holds, StoreTypeOK
  <2> QED
    BY <1>2, <2>4, <2>5, <2>6
<1> QED
  BY <1>3, <1>4, <1>5 DEF CleanerStep
-----------------------------------------------------------------------------
(***************************************************************************)
(* The workers.                                                            *)
(***************************************************************************)

LEMMA TakeKeeps == ASSUME NEW w \in Workers PROVE JobsInv /\ TakeJob(w) => JobsInv'
<1> SUFFICES ASSUME JobsInv, TakeJob(w) PROVE JobsInv'
  OBVIOUS
<1> USE DEF JobsInv, TypePartsOK
<1> DEFINE j == Head(queue)
<1>1. /\ process.phase # "down" /\ worker[w].phase = "waiting" /\ queue # <<>>
      /\ worker' = [worker EXCEPT ![w] = [phase |-> "taken", job |-> j, path |-> FALSE]]
      /\ queue' = Tail(queue)
      /\ UNCHANGED <<record, active, saved, expiring, file, process, cleaner, setup>>
  BY DEF TakeJob
<1>2. /\ j \in Job /\ InQueue(j) /\ QueueTypeOK' /\ NoRepeats'
      /\ \A i \in Job : InQueue(i)' <=> InQueue(i) /\ i # j
  BY <1>1, TypeParts, TakingRemoves DEF InPlaces
<1> HIDE DEF j
<1>3. /\ WorkerTypeOK' /\ worker'[w].phase = "taken" /\ worker'[w].job = j
      /\ \A v \in Workers : v # w => worker'[v] = worker[v]
  <2> DEFINE taken == [phase |-> "taken", job |-> j, path |-> FALSE]
  <2>1. taken \in Worker /\ taken.phase = "taken" /\ taken.job = j
    <3>1. j \in 0..MaxJobs
      BY <1>2, AnalysisJobsAssumption DEF Job
    <3> QED
      BY <3>1 DEF Worker, WorkerPhase
  <2>2. worker' = [worker EXCEPT ![w] = taken]
    BY <1>1
  <2> HIDE DEF taken
  <2> QED
    BY <2>1, <2>2, TypeParts DEF WorkerTypeOK
<1>4. AnalysisJobsTypeOK'
  BY <1>1, <1>2, <1>3, TypeParts DEF RecordTypeOK, StoreTypeOK, ProcessTypeOK,
     CleanerTypeOK, SetupTypeOK
<1>5. /\ \A v \in Workers : Holds(v) => worker[v].job # j
      /\ j \notin process.toRecover \cup process.submitting
  BY <1>2 DEF InPlaces
<1>6. InPlaces'
  <2>1. \A v \in Workers : Holds(v)' =>
           \/ v = w /\ worker'[v].job = j
           \/ v # w /\ Holds(v) /\ worker'[v].job = worker[v].job
    BY <1>3 DEF Holds
  <2>2. \A i \in process'.toRecover \cup process'.submitting :
          i \in Job /\ ~ InQueue(i)' /\ \A v \in Workers : Holds(v)' => worker'[v].job # i
    <3>1. process' = process /\ process.toRecover \cup process.submitting \subseteq Job
      BY <1>1, TypeParts DEF ProcessTypeOK
    <3> QED
      BY <1>2, <1>5, <2>1, <3>1 DEF InPlaces
  <2>3. \A v \in Workers : Holds(v)' => worker'[v].job \in Job /\ ~ InQueue(worker[v].job)'
    BY <1>2, <2>1 DEF InPlaces
  <2>4. \A u, v \in Workers :
          Holds(u)' /\ Holds(v)' /\ worker'[u].job = worker'[v].job => u = v
    BY <1>5, <2>1 DEF InPlaces
  <2> QED
    BY <1>2, <2>2, <2>3, <2>4 DEF InPlaces
<1>7. Phases'
  BY <1>1 DEF Phases
<1>8. Recorded'
  BY <1>1, <1>2, <1>3 DEF Recorded, Holds
<1>9. Planned'
  BY <1>1, <1>3 DEF Planned, Ended, Writes, Busy
<1> QED
  BY <1>4, <1>6, <1>7, <1>8, <1>9

\* What a worker with a job does to the jobs: it keeps the job or lets it go, and
\* changes no other's record and plans no other's deletion.
WorkerKeeps(w) ==
  /\ Holds(w)
  /\ UNCHANGED <<process, queue, cleaner, setup>>
  /\ WorkerTypeOK' /\ RecordTypeOK' /\ StoreTypeOK'
  /\ \A v \in Workers : v # w => worker'[v] = worker[v]
  /\ Holds(w)' => worker'[w].job = worker[w].job
  /\ \A i \in Job : i # worker[w].job => record'[i] = record[i]
  /\ record[worker[w].job].status # "none" => record'[worker[w].job].status # "none"
  /\ \A i \in expiring' : i # worker[w].job => i \in expiring

\* After the step.
HasEnded(j) == record'[j].status \in Terminal \cup {"gone"}

\* How a deletion comes to be planned, and when a worker sets to work.
Plans(w) ==
  /\ worker'[w].phase \in {"scheduling", "disposing"} => HasEnded(worker[w].job)
  /\ worker[w].job \in expiring' => /\ HasEnded(worker[w].job)
                                    /\ worker'[w].phase \in {"waiting", "taken", "dead"}
  /\ \A i \in expiring : i # worker[w].job => i \in expiring'
  /\ worker[w].job \in expiring => worker[w].job \in expiring' \/ Writes(w, worker[w].job)

LEMMA WorkKeeps ==
  ASSUME NEW w \in Workers, JobsInv, WorkerKeeps(w), Plans(w) PROVE JobsInv'
<1> USE DEF JobsInv, TypePartsOK, WorkerKeeps
<1> DEFINE j == worker[w].job
<1>1. /\ j \in Job /\ ~ InQueue(j) /\ j \notin process.toRecover \cup process.submitting
      /\ \A v \in Workers : v # w /\ Holds(v) => worker[v].job # j
  BY DEF InPlaces
<1>2. \A v \in Workers : Holds(v)' => Holds(v) /\ worker'[v].job = worker[v].job
  BY DEF Holds
<1>3. AnalysisJobsTypeOK'
  BY TypeParts DEF ProcessTypeOK, QueueTypeOK, CleanerTypeOK, SetupTypeOK
<1>4. InPlaces'
  BY <1>2, PlacesKept
<1>5. Phases'
  BY <1>2 DEF Phases
<1>6. Recorded'
  <2>1. \A i \in Job : InQueue(i)' => record'[i].status # "none"
    BY DEF Recorded, InQueue
  <2>2. \A v \in Workers : Holds(v)' => record'[worker'[v].job].status # "none"
    BY <1>2 DEF Recorded, InPlaces
  <2>3. \A i \in process'.toRecover \cup process'.submitting : record'[i] = record[i]
    BY <1>1, TypeParts DEF ProcessTypeOK
  <2> QED
    BY <2>1, <2>2, <2>3 DEF Recorded
<1>7. Planned'
  <2>1. \A v \in Workers : worker'[v].phase \in {"scheduling", "disposing"}
                             => Ended(worker[v].job)'
    <3> SUFFICES ASSUME NEW v \in Workers, worker'[v].phase \in {"scheduling", "disposing"}
                 PROVE  Ended(worker[v].job)'
      OBVIOUS
    <3>1. Holds(v)' /\ Holds(v) /\ worker'[v].job = worker[v].job /\ worker[v].job \in Job
      BY <1>2 DEF Holds, InPlaces
    <3>2. CASE v = w
      BY <3>1, <3>2 DEF Plans, Ended, HasEnded
    <3>3. CASE v # w
      <4>1. Ended(worker[v].job) /\ worker[v].job # j
        BY <1>1, <3>1, <3>3 DEF Planned
      <4> QED
        BY <3>1, <4>1 DEF Ended
    <3> QED
      BY <3>2, <3>3
  <2>2. \A i \in expiring' : Ended(i)' /\ \A v \in Workers : ~ Writes(v, i)'
    <3> SUFFICES ASSUME NEW i \in expiring'
                 PROVE  Ended(i)' /\ \A v \in Workers : ~ Writes(v, i)'
      OBVIOUS
    <3>1. CASE i = j
      <4>1. \A v \in Workers : v # w => ~ Writes(v, i)'
        <5>1. \A v \in Workers : Writes(v, i)' => Holds(v)' /\ worker'[v].job = i
          BY DEF Writes, Busy, Holds
        <5> QED
          BY <1>1, <1>2, <3>1, <5>1
      <4>2. Ended(i)' /\ ~ Writes(w, i)'
        BY <3>1 DEF Plans, Ended, HasEnded, Writes, Busy
      <4> QED
        BY <4>1, <4>2
    <3>2. CASE i # j
      <4>1. i \in Job /\ i \in expiring /\ record'[i] = record[i]
        BY <3>2 DEF StoreTypeOK
      <4>2. ~ Writes(w, i)'
        BY <1>2, <3>2 DEF Writes, Busy, Holds
      <4> QED
        BY <4>1, <4>2 DEF Planned, Ended, Writes, Busy
    <3> QED
      BY <3>1, <3>2
  <2>3. cleaner'.phase = "deleted" => cleaner'.job \in expiring'
    <3>1. expiring \subseteq expiring' \/ \E i \in expiring : i = j /\ Writes(w, j)
      BY DEF Plans
    <3>2. \A i \in expiring : ~ Writes(w, i)
      BY DEF Planned
    <3> QED
      BY <3>1, <3>2 DEF Planned
  <2> QED
    BY <2>1, <2>2, <2>3 DEF Planned
<1> QED
  BY <1>3, <1>4, <1>5, <1>6, <1>7

\* What a step does with its worker.
Moved(w, phase) ==
  /\ WorkerTypeOK' /\ worker'[w].phase = phase
  /\ phase # "waiting" => worker'[w].job = worker[w].job
  /\ \A v \in Workers : v # w => worker'[v] = worker[v]

LEMMA WorkerMoves ==
  ASSUME JobsInv, NEW w \in Workers, NEW phase \in WorkerPhase, Goes(w, phase)
  PROVE  Moved(w, phase)
<1>1. worker \in [Workers -> Worker] /\ worker' = [worker EXCEPT ![w].phase = phase]
  BY TypeParts DEF JobsInv, TypePartsOK, WorkerTypeOK, Goes
<1> QED
  BY <1>1 DEF WorkerTypeOK, Worker, Moved

LEMMA WorkerRests ==
  ASSUME JobsInv, NEW w \in Workers, worker' = [worker EXCEPT ![w] = Waiting]
  PROVE  Moved(w, "waiting")
<1>1. Waiting \in Worker /\ Waiting.phase = "waiting"
  BY AnalysisJobsAssumption DEF Worker, WorkerPhase, Waiting
<1>2. worker \in [Workers -> Worker]
  BY TypeParts DEF JobsInv, TypePartsOK, WorkerTypeOK
<1> HIDE DEF Waiting
<1>3. worker'[w] = Waiting
  BY <1>2
<1> QED
  BY <1>1, <1>2, <1>3 DEF WorkerTypeOK, Moved

\* The job of a worker is known; while it is worked on it is not to be deleted.
LEMMA JobAtHand ==
  ASSUME JobsInv, NEW w \in Workers, Holds(w)
  PROVE  /\ worker[w].job \in Job
         /\ record[worker[w].job] \in JobRecord
         /\ record[worker[w].job].status \in JobStatus \ {"none"}
         /\ record[worker[w].job].cached \in BOOLEAN
         /\ worker[w].phase \notin {"taken", "dead"} => worker[w].job \notin expiring
         /\ worker[w].job \in expiring => Ended(worker[w].job)
         /\ worker[w].path \in BOOLEAN
<1>1. worker[w].job \in Job /\ record[worker[w].job] \in JobRecord
  BY TypeParts DEF JobsInv, TypePartsOK, InPlaces, RecordTypeOK
<1>2. worker[w].phase \notin {"taken", "dead"} => Writes(w, worker[w].job)
  BY DEF Writes, Busy, Holds
<1>3. worker[w].path \in BOOLEAN
  BY TypeParts DEF JobsInv, TypePartsOK, WorkerTypeOK, Worker
<1> QED
  BY <1>1, <1>2, <1>3 DEF JobsInv, Recorded, Planned, JobRecord

Elsewhere == UNCHANGED <<process, queue, cleaner, setup>>

\* A worker that goes on and leaves the records alone.
LEMMA GoingOnKeeps ==
  ASSUME JobsInv, NEW w \in Workers, Holds(w), NEW phase, Moved(w, phase),
         Elsewhere, UNCHANGED <<record, active, expiring>>, StoreTypeOK',
         phase \notin {"scheduling", "disposing"},
         worker[w].phase \in {"taken", "dead"} => phase \in {"waiting", "dead"}
  PROVE  JobsInv'
<1>1. RecordTypeOK' /\ \A i : record'[i] = record[i]
  BY TypeParts DEF JobsInv, TypePartsOK, RecordTypeOK
<1>2. WorkerKeeps(w)
  BY <1>1 DEF WorkerKeeps, Moved, Holds, Elsewhere
<1>3. Plans(w)
  <2>1. worker[w].job \in expiring => /\ Ended(worker[w].job)
                                      /\ phase \in {"waiting", "dead"}
    BY JobAtHand
  <2> QED
    BY <1>1, <2>1 DEF Plans, HasEnded, Ended, Moved
<1> QED
  BY <1>2, <1>3, WorkKeeps

\* A worker that writes the record of its job, which no deletion is planned for.
LEMMA WritingKeeps ==
  ASSUME JobsInv, NEW w \in Workers, Holds(w), NEW phase, Moved(w, phase), Elsewhere,
         NEW status \in JobStatus \ {"none"}, NEW cached \in BOOLEAN,
         UpdateRecord(worker[w].job, status, cached),
         expiring' = expiring, StoreTypeOK', worker[w].job \notin expiring,
         phase \in {"scheduling", "disposing"} => status \in Terminal
  PROVE  JobsInv'
<1> DEFINE j == worker[w].job
<1>1. j \in Job /\ RecordTypeOK
  BY JobAtHand, TypeParts DEF JobsInv, TypePartsOK
<1>2. /\ RecordTypeOK' /\ \A i \in Job : i # j => record'[i] = record[i]
      /\ record'[j].status = IF record[j].status = "gone" THEN "gone" ELSE status
  <2> HIDE DEF j
  <2>1. UpdateRecord(j, status, cached)
    BY DEF j
  <2> QED
    BY <1>1, <2>1, UpdateKeeps
<1>3. WorkerKeeps(w)
  BY <1>2 DEF WorkerKeeps, Moved, Holds, Elsewhere
<1>4. Plans(w)
  BY <1>2 DEF Plans, HasEnded, Moved
<1> QED
  BY <1>3, <1>4, WorkKeeps
-----------------------------------------------------------------------------
LEMMA StoreStays ==
  ASSUME JobsInv, UNCHANGED <<saved, expiring, file>> PROVE StoreTypeOK'
BY TypeParts DEF JobsInv, TypePartsOK, StoreTypeOK

LEMMA StartJobKeeps ==
  ASSUME JobsInv, NEW w \in Workers, StartJob(w) PROVE JobsInv'
<1> DEFINE j == worker[w].job
<1>1. /\ worker[w].phase = "taken" /\ Holds(w) /\ Elsewhere
      /\ UNCHANGED <<saved, expiring, file>>
      /\ IF record[j].status \in {"gone"} \cup Terminal
         THEN worker' = [worker EXCEPT ![w] = Waiting] /\ UNCHANGED <<record, active>>
         ELSE /\ worker' = [worker EXCEPT ![w].phase = "started", ![w].path = record[j].cached]
              /\ UpdateRecord(j, "processing", record[j].cached)
  BY DEF StartJob, Holds, Elsewhere
<1>2. StoreTypeOK'
  BY <1>1, StoreStays
<1>3. CASE record[j].status \in {"gone"} \cup Terminal
  <2>1. Moved(w, "waiting")
    BY <1>1, <1>3, WorkerRests
  <2> QED
    BY <1>1, <1>2, <1>3, <2>1, GoingOnKeeps
<1>4. CASE record[j].status \notin {"gone"} \cup Terminal
  <2>1. /\ j \notin expiring /\ record[j].cached \in BOOLEAN
        /\ "processing" \in JobStatus \ {"none"}
    BY <1>1, <1>4, JobAtHand DEF Ended, JobStatus
  <2>2. Moved(w, "started")
    <3>1. worker \in [Workers -> Worker]
      BY TypeParts DEF JobsInv, TypePartsOK, WorkerTypeOK
    <3> DEFINE c == record[j].cached
    <3>2. c \in BOOLEAN /\ worker' = [worker EXCEPT ![w].phase = "started", ![w].path = c]
      BY <1>1, <1>4, <2>1
    <3> HIDE DEF c
    <3> QED
      BY <3>1, <3>2 DEF Moved, WorkerTypeOK, Worker, WorkerPhase
  <2> QED
    BY <1>1, <1>2, <1>4, <2>1, <2>2, WritingKeeps
<1> QED
  BY <1>3, <1>4

LEMMA PreparingKeeps ==
  ASSUME JobsInv, NEW w \in Workers, UseRemoteUrl(w) \/ PreprocessVideo(w) PROVE JobsInv'
<1>1. /\ worker[w].phase \in {"started", "downloaded"} /\ Holds(w) /\ Elsewhere
      /\ UNCHANGED <<saved, expiring, file>>
  BY DEF UseRemoteUrl, PreprocessVideo, Holds, Elsewhere
<1>2. StoreTypeOK' /\ worker[w].job \notin expiring
  BY <1>1, StoreStays, JobAtHand
<1>3. ASSUME NEW cached \in BOOLEAN, UpdateRecord(worker[w].job, "processing", cached),
             Goes(w, "prepared")
      PROVE  JobsInv'
  <2>1. Moved(w, "prepared") /\ "processing" \in JobStatus \ {"none"}
    BY <1>3, WorkerMoves DEF WorkerPhase, JobStatus
  <2> QED
    BY <1>1, <1>2, <1>3, <2>1, WritingKeeps
<1>4. CASE UNCHANGED <<record, active>> /\ Goes(w, "failing")
  <2>1. Moved(w, "failing")
    BY <1>4, WorkerMoves DEF WorkerPhase
  <2> QED
    BY <1>1, <1>2, <1>4, <2>1, GoingOnKeeps
<1> QED
  BY <1>3, <1>4 DEF UseRemoteUrl, PreprocessVideo

LEMMA DownloadKeeps ==
  ASSUME JobsInv, NEW w \in Workers, DownloadVideo(w) PROVE JobsInv'
<1> DEFINE j == worker[w].job
<1>1. /\ worker[w].phase = "started" /\ Holds(w) /\ Elsewhere
      /\ UNCHANGED <<record, active, saved, expiring>>
      /\ \/ /\ file' = [file EXCEPT ![j] = "whole"]
            /\ worker' = [worker EXCEPT ![w].phase = "downloaded", ![w].path = TRUE]
         \/ /\ file' = [file EXCEPT ![j] = "partial"]
            /\ Goes(w, "failing")
  BY DEF DownloadVideo, Holds, Elsewhere
<1>2. StoreTypeOK'
  BY <1>1, TypeParts DEF JobsInv, TypePartsOK, StoreTypeOK
<1>3. \E phase \in {"downloaded", "failing"} : Moved(w, phase)
  <2>1. CASE worker' = [worker EXCEPT ![w].phase = "downloaded", ![w].path = TRUE]
    <3>1. worker \in [Workers -> Worker]
      BY TypeParts DEF JobsInv, TypePartsOK, WorkerTypeOK
    <3> QED
      BY <2>1, <3>1 DEF Moved, WorkerTypeOK, Worker, WorkerPhase
  <2>2. CASE Goes(w, "failing")
    BY <2>2, WorkerMoves DEF WorkerPhase
  <2> QED
    BY <1>1, <2>1, <2>2
<1> QED
  BY <1>1, <1>2, <1>3, GoingOnKeeps

\* The steps that only move the worker on.
LEMMA PassingKeeps ==
  ASSUME JobsInv, NEW w \in Workers,
         \/ AcquireModel(w) \/ GenerateResult(w) \/ SaveResult(w)
         \/ RunFails(w) \/ WorkerDies(w)
  PROVE  JobsInv'
<1>1. /\ worker[w].phase # "waiting" /\ Holds(w) /\ Elsewhere
      /\ UNCHANGED <<record, active, expiring, file>>
  BY DEF AcquireModel, GenerateResult, SaveResult, RunFails, WorkerDies, Holds, Elsewhere
<1>2. StoreTypeOK'
  BY <1>1, TypeParts DEF JobsInv, TypePartsOK, StoreTypeOK, AcquireModel, GenerateResult,
     SaveResult, RunFails, WorkerDies
<1>3. \E phase \in {"generating", "saving", "failing", "saved", "dead"} :
        /\ Moved(w, phase)
        /\ worker[w].phase \in {"taken", "dead"} => phase \in {"waiting", "dead"}
  BY WorkerMoves DEF AcquireModel, GenerateResult, SaveResult, RunFails, WorkerDies,
     WorkerPhase
<1> QED
  BY <1>1, <1>2, <1>3, GoingOnKeeps

\* The steps that end a job, with and without a file to dispose of.
LEMMA FinishingKeeps ==
  ASSUME JobsInv, NEW w \in Workers, CompleteJob(w) \/ HandleFailure(w) PROVE JobsInv'
<1>1. /\ worker[w].phase \in {"saved", "failing"} /\ Holds(w) /\ Elsewhere
      /\ UNCHANGED <<saved, expiring, file>>
  BY DEF CompleteJob, HandleFailure, Holds, Elsewhere
<1>2. StoreTypeOK' /\ worker[w].job \notin expiring
  BY <1>1, StoreStays, JobAtHand
<1>3. \E phase \in {"scheduling", "disposing", "waiting"} : Moved(w, phase)
  BY WorkerMoves, WorkerRests DEF CompleteJob, HandleFailure, WorkerPhase
<1>4. \E status \in Terminal, cached \in BOOLEAN :
        UpdateRecord(worker[w].job, status, cached)
  <2>1. /\ record[worker[w].job].cached \in BOOLEAN
        /\ (worker[w].path \/ record[worker[w].job].cached) \in BOOLEAN
    BY <1>1, JobAtHand
  <2> QED
    BY <2>1 DEF CompleteJob, HandleFailure, Terminal
<1>5. Terminal \subseteq JobStatus \ {"none"}
  BY DEF Terminal, JobStatus
<1> QED
  BY <1>1, <1>2, <1>3, <1>4, <1>5, WritingKeeps

LEMMA SchedulingKeeps ==
  ASSUME JobsInv, NEW w \in Workers, ScheduleExpiration(w) PROVE JobsInv'
<1>1. /\ worker[w].phase = "scheduling" /\ Holds(w) /\ Elsewhere
      /\ UNCHANGED <<record, active, saved, file>>
      /\ expiring' = expiring \cup {worker[w].job}
      /\ worker' = [worker EXCEPT ![w] = Waiting]
  BY DEF ScheduleExpiration, Holds, Elsewhere
<1>2. worker[w].job \in Job /\ Ended(worker[w].job)
  BY <1>1, JobAtHand DEF JobsInv, Planned
<1>3. Moved(w, "waiting")
  BY <1>1, WorkerRests
<1>4. RecordTypeOK' /\ StoreTypeOK'
  BY <1>1, <1>2, TypeParts DEF JobsInv, TypePartsOK, RecordTypeOK, StoreTypeOK
<1>5. WorkerKeeps(w) /\ Plans(w)
  BY <1>1, <1>2, <1>3, <1>4 DEF WorkerKeeps, Plans, Moved, Elsewhere, Holds, HasEnded, Ended
<1> QED
  BY <1>1, <1>5, WorkKeeps

LEMMA DisposalKeeps ==
  ASSUME JobsInv, NEW w \in Workers, DisposeOfFile(w) PROVE JobsInv'
<1> DEFINE j == worker[w].job
<1>1. /\ worker[w].phase = "disposing" /\ Holds(w) /\ Elsewhere
      /\ worker' = [worker EXCEPT ![w] = Waiting] /\ saved' = saved
      /\ \E cached \in BOOLEAN : UpdateRecord(j, record[j].status, cached)
      /\ \/ expiring' = expiring \cup {j} /\ file' = file
         \/ expiring' = expiring \ {j} /\ file' = [file EXCEPT ![j] = "none"]
  BY DEF DisposeOfFile, Holds, Elsewhere
<1>2. j \in Job /\ Ended(j) /\ j \notin expiring /\ record[j].status \in JobStatus \ {"none"}
  BY <1>1, JobAtHand DEF JobsInv, Planned
<1>3. Moved(w, "waiting")
  BY <1>1, WorkerRests
<1>4. StoreTypeOK'
  BY <1>1, <1>2, TypeParts DEF JobsInv, TypePartsOK, StoreTypeOK
<1>5. /\ RecordTypeOK' /\ \A i \in Job : i # j => record'[i] = record[i]
      /\ record'[j].status = record[j].status
  <2>1. RecordTypeOK
    BY TypeParts DEF JobsInv, TypePartsOK
  <2> HIDE DEF j
  <2> QED
    BY <1>1, <1>2, <2>1, UpdateKeeps
<1>6. WorkerKeeps(w) /\ Plans(w)
  BY <1>1, <1>2, <1>3, <1>4, <1>5
  DEF WorkerKeeps, Plans, Moved, Elsewhere, Holds, HasEnded, Ended
<1> QED
  BY <1>1, <1>6, WorkKeeps
-----------------------------------------------------------------------------
LEMMA JobsInvInit == AnalysisJobsInit => JobsInv
<1> SUFFICES ASSUME AnalysisJobsInit PROVE JobsInv
  OBVIOUS
<1>1. AnalysisJobsTypeOK
  BY AnalysisJobsAssumption, TypeParts
  DEF AnalysisJobsInit, JobsRest, TypePartsOK, RecordTypeOK, StoreTypeOK, ProcessTypeOK,
      QueueTypeOK, WorkerTypeOK, CleanerTypeOK, SetupTypeOK, JobRecord, JobStatus, Worker,
      WorkerPhase, Waiting
<1>2. (\A j : ~ InQueue(j)) /\ \A w \in Workers : ~ Holds(w) /\ worker[w].phase = "waiting"
  BY DEF AnalysisJobsInit, JobsRest, InQueue, Contains, Holds, Waiting
<1>3. InPlaces /\ Phases /\ Recorded
  BY <1>2 DEF AnalysisJobsInit, JobsRest, InPlaces, Phases, Recorded, NoRepeats
<1>4. Planned
  BY <1>2 DEF AnalysisJobsInit, JobsRest, Planned
<1> QED
  BY <1>1, <1>3, <1>4 DEF JobsInv

LEMMA JobsInvStep == JobsInv /\ [AnalysisJobsNext]_jobsVars => JobsInv'
<1> SUFFICES ASSUME JobsInv, [AnalysisJobsNext]_jobsVars PROVE JobsInv'
  OBVIOUS
<1>1. CASE ProcessStep
  BY <1>1, StartKeeps, RecoverKeeps, ServingKeeps DEF ProcessStep
<1>2. CASE ProcessEnds
  BY <1>2, EndingKeeps
<1>3. CASE CleanerStep \/ CleanerDies
  BY <1>3, CleanerKeeps
<1>4. CASE \E j \in Job : \/ SubmitJob(j) \/ EnqueueJob(j)
                          \/ RecordExpires(j) \/ ResultExpires(j)
  BY <1>4, SubmitKeeps, QueueingKeeps, ExpiryKeeps
<1>5. CASE \E w \in Workers : WorkerStep(w) \/ RunFails(w) \/ WorkerDies(w)
  BY <1>5, TakeKeeps, StartJobKeeps, PreparingKeeps, DownloadKeeps, PassingKeeps,
     FinishingKeeps, SchedulingKeeps, DisposalKeeps DEF WorkerStep
<1>6. CASE UNCHANGED jobsVars
  <2>1. AnalysisJobsTypeOK'
    BY <1>6 DEF JobsInv, jobsVars, AnalysisJobsTypeOK
  <2> QED
    BY <1>6, <2>1 DEF JobsInv, jobsVars, InPlaces, Phases, Recorded, Planned, NoRepeats,
       InQueue, Holds, Ended, Writes, Busy
<1> QED
  BY <1>1, <1>2, <1>3, <1>4, <1>5, <1>6 DEF AnalysisJobsNext

LEMMA JobsInvariance == AnalysisJobsSpec => []JobsInv
BY JobsInvInit, JobsInvStep, PTL DEF AnalysisJobsSpec

\* Records, queue, workers and cleanup keep their types, through faults and restarts.
THEOREM JobsTypeCorrectness == AnalysisJobsSpec => []AnalysisJobsTypeOK
<1>1. JobsInv => AnalysisJobsTypeOK
  BY DEF JobsInv
<1> QED
  BY <1>1, JobsInvariance, PTL

\* Two writers of one job record never meet, for any number of workers and jobs,
\* through faults and restarts: JobStore.update needs no check.
THEOREM OneWriter == AnalysisJobsSpec => []OneWriterPerJob
<1>1. JobsInv => OneWriterPerJob
  <2>1. ASSUME JobsInv, NEW j \in Job, NEW v \in Workers, NEW w \in Workers,
               Writes(v, j), Writes(w, j)
        PROVE  v = w
    BY <2>1 DEF JobsInv, InPlaces, Writes, Busy, Holds
  <2>2. ASSUME JobsInv, NEW j \in Job, cleaner.phase = "deleted", cleaner.job = j,
               NEW w \in Workers
        PROVE  ~ Writes(w, j)
    BY <2>2 DEF JobsInv, Planned
  <2> QED
    BY <2>1, <2>2 DEF OneWriterPerJob
<1> QED
  BY <1>1, JobsInvariance, PTL
-----------------------------------------------------------------------------
(***************************************************************************)
(* The provider is what its client takes it to be.                         *)
(***************************************************************************)

\* What the client is told of one job.
Told(j) ==
  IF record[j].status \in {"queued", "processing"} THEN "running"
  ELSE IF record[j].status = "completed" /\ saved[j] = "none" THEN "empty"
  ELSE record[j].status

\* Before the last write of a record.
AtWork == {"started", "downloaded", "prepared", "generating", "saving", "saved"}

\* What a worker may rely on, although it does not look: the record cannot have
\* changed under it, and the result is there before the record says so.
WorkerKnows(w) ==
  LET j == worker[w].job IN
  /\ worker[w].phase \in AtWork => record[j].status = "processing"
  /\ worker[w].phase = "failing" => record[j].status \in {"processing", "completed"}
  /\ worker[w].phase = "scheduling" => record[j].status = "completed"
  /\ worker[w].phase = "saved" => saved[j] = "saved"

CompletedAreSaved == \A j \in Job : record[j].status = "completed" => saved[j] # "none"

ProgressInv == (\A w \in Workers : WorkerKnows(w)) /\ CompletedAreSaved

\* One job is told of anew, in a way its client expects, or none is.
LEMMA OneIsTold ==
  ASSUME NEW j \in Job,
         \A i \in Job : i # j => Told(i)' = Told(i),
         \/ Told(j)' = Told(j)
         \/ Told(j) = "none" /\ Told(j)' = "running"
         \/ Told(j) = "running" /\ Told(j)' \in {"completed", "failed"}
         \/ Told(j) # "none" /\ Told(j)' = "gone"
  PROVE  [Client!Next]_ClientView
<1>1. /\ ClientView = [i \in Job |-> Told(i)]
      /\ ClientView' = [i \in Job |-> Told(i)']
  BY DEF ClientView, Told
<1>2. CASE Told(j)' = Told(j)
  BY <1>1, <1>2
<1>3. CASE Told(j)' # Told(j)
  <2>1. ClientView' = [ClientView EXCEPT ![j] = Told(j)']
    BY <1>1
  <2>2. Client!Accept(j) \/ Client!End(j) \/ Client!Forget(j)
    BY <1>1, <1>3, <2>1 DEF Client!Accept, Client!End, Client!Forget
  <2> QED
    BY <2>2 DEF Client!Next
<1> QED
  BY <1>2, <1>3

LEMMA NoneIsTold ==
  ASSUME \A i \in Job : record'[i].status = record[i].status /\ saved'[i] = saved[i]
  PROVE  ClientView' = ClientView
<1>1. \A i \in Job : Told(i)' = Told(i)
  BY DEF Told
<1>2. /\ ClientView = [i \in Job |-> Told(i)]
      /\ ClientView' = [i \in Job |-> Told(i)']
  BY DEF ClientView, Told
<1> QED
  BY <1>1, <1>2

\* What other workers know stays so when records of jobs they do not have change.
LEMMA OthersKnow ==
  ASSUME JobsInv, ProgressInv, NEW v \in Workers,
         \/ worker'[v].phase \in {"waiting", "taken", "dead", "disposing"}
         \/ /\ worker'[v] = worker[v]
            /\ Holds(v) => /\ record'[worker[v].job].status = record[worker[v].job].status
                           /\ saved'[worker[v].job] = saved[worker[v].job]
  PROVE  WorkerKnows(v)'
BY DEF ProgressInv, WorkerKnows, AtWork, Holds

\* Steps that leave all records and results alone.
LEMMA NothingProgresses ==
  ASSUME JobsInv, ProgressInv,
         \A i \in Job : record'[i].status = record[i].status /\ saved'[i] = saved[i],
         \A v \in Workers : \/ worker'[v].phase \in {"waiting", "taken", "dead", "disposing"}
                            \/ worker'[v] = worker[v]
  PROVE  ProgressInv' /\ ClientView' = ClientView
<1>1. \A v \in Workers : Holds(v) => worker[v].job \in Job
  BY DEF JobsInv, InPlaces
<1> QED
  BY <1>1, OthersKnow, NoneIsTold DEF ProgressInv, CompletedAreSaved

\* Steps of one worker, on its own job.
LEMMA WorkerProgresses ==
  ASSUME JobsInv, ProgressInv, NEW w \in Workers, Holds(w), NEW phase, Moved(w, phase),
         \A i \in Job : i # worker[w].job =>
           record'[i].status = record[i].status /\ saved'[i] = saved[i],
         phase \in AtWork \cup {"failing", "scheduling"} => WorkerKnows(w)',
         record'[worker[w].job].status = "completed" => saved'[worker[w].job] # "none"
  PROVE  ProgressInv'
<1>1. \A v \in Workers : v # w /\ Holds(v) =>
        worker[v].job \in Job /\ worker[v].job # worker[w].job
  BY DEF JobsInv, InPlaces
<1>2. \A v \in Workers : v # w => WorkerKnows(v)'
  BY <1>1, OthersKnow DEF Moved
<1>3. WorkerKnows(w)'
  BY DEF Moved, WorkerKnows, AtWork
<1> QED
  BY <1>2, <1>3 DEF ProgressInv, CompletedAreSaved

LEMMA ProcessProgresses ==
  ASSUME JobsInv, ProgressInv, ProcessStep \/ ProcessEnds \/ CleanerStep \/ CleanerDies
  PROVE  ProgressInv' /\ ClientView' = ClientView
<1>0. RecordTypeOK /\ WorkerTypeOK /\ expiring \subseteq Job /\ process.toRecover \subseteq Job
  BY TypeParts DEF JobsInv, TypePartsOK, StoreTypeOK, ProcessTypeOK
<1>1. CASE \/ StartProcess \/ BeginServing \/ CleanerDies
           \/ \E j \in Job : DeleteExpiredFile(j)
  <2>1. record' = record /\ saved' = saved /\ worker' = worker
    BY <1>1 DEF StartProcess, BeginServing, CleanerDies, DeleteExpiredFile
  <2> QED
    BY <2>1, NothingProgresses
<1>2. CASE ProcessEnds
  <2>1. /\ record' = record /\ saved' = saved
        /\ \A v \in Workers : worker'[v].phase = "waiting"
    BY <1>2 DEF ProcessEnds, Waiting
  <2> QED
    BY <2>1, NothingProgresses
<1>3. CASE ClearVideoCache
  <2>1. /\ cleaner.job \in Job /\ saved' = saved /\ worker' = worker
        /\ UpdateRecord(cleaner.job, record[cleaner.job].status, FALSE)
    BY <1>0, <1>3 DEF ClearVideoCache, JobsInv, Planned
  <2>2. record[cleaner.job].status \in JobStatus
    BY <1>0, <2>1 DEF RecordTypeOK, JobRecord
  <2>3. \A i \in Job : record'[i].status = record[i].status
    BY <1>0, <2>1, <2>2, UpdateKeeps
  <2> QED
    BY <2>1, <2>3, NothingProgresses
<1>4. CASE RecoverJob
  <2>1. PICK j \in process.toRecover : UpdateRecord(j, "queued", record[j].cached)
    BY <1>4 DEF RecoverJob
  <2>2. /\ j \in Job /\ record[j].cached \in BOOLEAN /\ "queued" \in JobStatus
        /\ record[j].status \in {"queued", "processing", "gone"}
        /\ saved' = saved /\ worker' = worker
        /\ \A v \in Workers : Holds(v) => worker[v].job # j /\ worker[v].job \in Job
    BY <1>0, <1>4 DEF RecoverJob, JobsInv, Recorded, InPlaces, RecordTypeOK, JobRecord, JobStatus
  <2>3. /\ \A i \in Job : i # j => record'[i] = record[i]
        /\ record'[j].status = IF record[j].status = "gone" THEN "gone" ELSE "queued"
    BY <1>0, <2>1, <2>2, UpdateKeeps
  <2>4. ProgressInv'
    <3>1. \A v \in Workers : WorkerKnows(v)'
      BY <2>2, <2>3, OthersKnow
    <3> QED
      BY <2>2, <2>3, <3>1 DEF ProgressInv, CompletedAreSaved
  <2>5. \A i \in Job : Told(i)' = Told(i)
    BY <2>2, <2>3 DEF Told
  <2> QED
    BY <2>4, <2>5 DEF ClientView, Told
<1> QED
  BY <1>1, <1>2, <1>3, <1>4 DEF ProcessStep, CleanerStep

LEMMA JobProgresses ==
  ASSUME JobsInv, ProgressInv, NEW j \in Job,
         SubmitJob(j) \/ EnqueueJob(j) \/ RecordExpires(j) \/ ResultExpires(j)
  PROVE  ProgressInv' /\ [Client!Next]_ClientView
<1>0. RecordTypeOK /\ StoreTypeOK /\ worker' = worker
  BY TypeParts DEF JobsInv, TypePartsOK, SubmitJob, EnqueueJob, RecordExpires, ResultExpires
<1>1. CASE EnqueueJob(j)
  <2>1. record' = record /\ saved' = saved
    BY <1>1 DEF EnqueueJob
  <2> QED
    BY <1>0, <2>1, NothingProgresses
<1>2. CASE SubmitJob(j)
  <2>1. /\ record[j].status = "none" /\ record'[j].status = "queued" /\ saved' = saved
        /\ \A i \in Job : i # j => record'[i] = record[i]
    BY <1>0, <1>2 DEF SubmitJob, RecordTypeOK, JobRecord
  <2>2. \A v \in Workers : Holds(v) => worker[v].job # j /\ worker[v].job \in Job
    BY <2>1 DEF JobsInv, Recorded, InPlaces
  <2>3. \A v \in Workers : WorkerKnows(v)'
    BY <1>0, <2>1, <2>2, OthersKnow
  <2>4. \A i \in Job : i # j => Told(i)' = Told(i)
    BY <2>1 DEF Told
  <2>5. Told(j) = "none" /\ Told(j)' = "running"
    BY <2>1 DEF Told
  <2> QED
    BY <2>1, <2>3, <2>4, <2>5, OneIsTold DEF ProgressInv, CompletedAreSaved
<1>3. CASE RecordExpires(j)
  <2>1. /\ record[j].status \in {"queued", "processing", "completed", "failed"}
        /\ record'[j].status = "gone"
        /\ \A i \in Job : i # j => record'[i] = record[i] /\ saved'[i] = saved[i]
        /\ \A v \in Workers : worker[v].job = j => worker[v].phase \in {"taken", "dead"}
    BY <1>0, <1>3 DEF RecordExpires, RecordTypeOK, StoreTypeOK
  <2>2. \A v \in Workers : Holds(v) => worker[v].job \in Job
    BY DEF JobsInv, InPlaces
  <2>3. \A v \in Workers : WorkerKnows(v)'
    BY <1>0, <2>1, <2>2, OthersKnow
  <2>4. \A i \in Job : i # j => Told(i)' = Told(i)
    BY <2>1 DEF Told
  <2>5. Told(j) # "none" /\ Told(j)' = "gone"
    BY <2>1 DEF Told
  <2>6. CompletedAreSaved'
    BY <2>1 DEF ProgressInv, CompletedAreSaved
  <2> QED
    BY <2>3, <2>4, <2>5, <2>6, OneIsTold DEF ProgressInv
<1>4. CASE ResultExpires(j)
  <2>1. /\ record' = record /\ record[j].status = "completed" /\ saved[j] = "saved"
        /\ saved'[j] = "expired" /\ \A i \in Job : i # j => saved'[i] = saved[i]
    BY <1>0, <1>4 DEF ResultExpires, StoreTypeOK
  <2>2. \A v \in Workers : WorkerKnows(v)'
    <3> SUFFICES ASSUME NEW v \in Workers PROVE WorkerKnows(v)'
      OBVIOUS
    <3>1. WorkerKnows(v) /\ worker'[v] = worker[v]
      BY <1>0 DEF ProgressInv
    <3>2. worker[v].phase = "saved" => worker[v].job \in Job /\ worker[v].job # j
      BY <2>1, <3>1 DEF JobsInv, InPlaces, Holds, WorkerKnows, AtWork
    <3> QED
      BY <2>1, <3>1, <3>2 DEF WorkerKnows
  <2>3. \A i \in Job : Told(i)' = Told(i)
    BY <2>1 DEF Told
  <2> QED
    BY <2>1, <2>2, <2>3, OneIsTold DEF ProgressInv, CompletedAreSaved
<1> QED
  BY <1>1, <1>2, <1>3, <1>4

\* A worker's steps: what it has to know afterwards, and what the client is told.
LEMMA WorkProgresses ==
  ASSUME JobsInv, ProgressInv, NEW w \in Workers,
         WorkerStep(w) \/ RunFails(w) \/ WorkerDies(w)
  PROVE  /\ ProgressInv'
         /\ \/ [Client!Next]_ClientView
            \/ /\ HandleFailure(w)
               /\ record[worker[w].job].status = "completed"
<1> PICK j : j = worker[w].job
  OBVIOUS
<1>0. /\ RecordTypeOK /\ StoreTypeOK /\ WorkerKnows(w) /\ CompletedAreSaved
      /\ worker \in [Workers -> Worker]
  BY TypeParts DEF JobsInv, TypePartsOK, ProgressInv, WorkerTypeOK
<1>1. Holds(w) => /\ j \in Job /\ record[j].status \in JobStatus \ {"none"}
                  /\ record[j].cached \in BOOLEAN /\ worker[w].path \in BOOLEAN
  BY JobAtHand
<1>m. \A phase \in WorkerPhase : Goes(w, phase) => worker'[w].phase = phase
  BY WorkerMoves DEF Moved
<1>2. CASE TakeJob(w)
  <2>1. /\ record' = record /\ saved' = saved
        /\ \A v \in Workers : worker'[v].phase = "taken" \/ worker'[v] = worker[v]
    BY <1>0, <1>2 DEF TakeJob
  <2>2. ProgressInv' /\ ClientView' = ClientView
    BY <2>1, NothingProgresses
  <2> QED
    BY <2>2
<1>3. CASE \/ DownloadVideo(w) \/ AcquireModel(w) \/ GenerateResult(w)
           \/ ScheduleExpiration(w) \/ RunFails(w) \/ WorkerDies(w)
           \/ PreprocessVideo(w) /\ worker'[w].phase = "failing" /\ UNCHANGED <<record, active>>
  <2>1. record' = record /\ saved' = saved /\ Holds(w)
    BY <1>3 DEF DownloadVideo, AcquireModel, GenerateResult, ScheduleExpiration, RunFails,
       WorkerDies, PreprocessVideo, Holds
  <2>2. ClientView' = ClientView
    BY <2>1, NoneIsTold
  <2>3. PICK phase : Moved(w, phase)
    <3>1. CASE DownloadVideo(w)
      <4>1. \/ worker' = [worker EXCEPT ![w].phase = "downloaded", ![w].path = TRUE]
            \/ worker' = [worker EXCEPT ![w].phase = "failing"]
        BY <3>1 DEF DownloadVideo, Goes
      <4>2. WorkerTypeOK'
        BY <1>0, <4>1 DEF WorkerTypeOK, Worker, WorkerPhase
      <4>3. Moved(w, worker'[w].phase)
        BY <1>0, <4>1, <4>2 DEF Moved, Worker
      <4> QED
        BY <4>3
    <3>2. CASE ScheduleExpiration(w)
      BY <3>2, WorkerRests DEF ScheduleExpiration
    <3>3. CASE ~ DownloadVideo(w) /\ ~ ScheduleExpiration(w)
      <4>1. \E phase \in WorkerPhase : Goes(w, phase)
        BY <1>3, <3>3 DEF AcquireModel, GenerateResult, RunFails, WorkerDies, PreprocessVideo,
           WorkerPhase, Goes, UpdateRecord
      <4> QED
        BY <4>1, WorkerMoves
    <3> QED
      BY <3>1, <3>2, <3>3
  <2>4. phase \in AtWork \cup {"failing", "scheduling"} => WorkerKnows(w)'
    <3>1. worker'[w].phase = phase /\ (phase # "waiting" => worker'[w].job = j)
      BY <2>3 DEF Moved
    <3>2. /\ worker[w].phase \in {"taken", "failing", "disposing"} =>
               phase \in {"waiting", "dead"} \/ phase = "failing"
          /\ phase \in AtWork => worker[w].phase \in AtWork /\ phase # "saved"
          /\ phase # "scheduling"
          /\ phase = "failing" => worker[w].phase \in AtWork \cup {"scheduling"}
      <4>1. \A p \in {"failing", "generating", "saving", "dead"} : Goes(w, p) => phase = p
        BY <1>m, <3>1 DEF WorkerPhase
      <4>2. DownloadVideo(w) =>
              worker[w].phase = "started" /\ phase \in {"downloaded", "failing"}
        BY <1>0, <3>1, <4>1 DEF DownloadVideo, Worker
      <4>3. ScheduleExpiration(w) => worker[w].phase = "scheduling" /\ phase = "waiting"
        BY <1>0, <3>1 DEF ScheduleExpiration, Waiting
      <4>4. AcquireModel(w) => worker[w].phase = "prepared" /\ phase = "generating"
        BY <4>1 DEF AcquireModel
      <4>5. GenerateResult(w) =>
              worker[w].phase = "generating" /\ phase \in {"saving", "failing"}
        BY <4>1 DEF GenerateResult
      <4>6. RunFails(w) =>
              worker[w].phase \in AtWork \cup {"scheduling"} /\ phase = "failing"
        BY <4>1 DEF RunFails, AtWork
      <4>7. WorkerDies(w) => phase = "dead"
        BY <4>1 DEF WorkerDies
      <4>8. PreprocessVideo(w) => worker[w].phase = "downloaded"
        BY DEF PreprocessVideo
      <4> QED
        BY <1>3, <3>1, <4>2, <4>3, <4>4, <4>5, <4>6, <4>7, <4>8 DEF AtWork
    <3> QED
      BY <1>0, <2>1, <3>1, <3>2 DEF WorkerKnows, AtWork
  <2>5. ProgressInv'
    BY <1>0, <1>1, <2>1, <2>3, <2>4, WorkerProgresses DEF CompletedAreSaved
  <2> QED
    BY <2>2, <2>5
<1>4. CASE SaveResult(w)
  <2>1. /\ worker[w].phase = "saving" /\ Holds(w) /\ record' = record
        /\ saved'[j] = "saved" /\ \A i \in Job : i # j => saved'[i] = saved[i]
        /\ Goes(w, "saved") /\ "saved" \in WorkerPhase
    BY <1>0, <1>1, <1>4 DEF SaveResult, Holds, StoreTypeOK, WorkerPhase
  <2>2. Moved(w, "saved")
    BY <2>1, WorkerMoves
  <2>3. WorkerKnows(w)'
    BY <1>0, <2>1, <2>2 DEF WorkerKnows, Moved, AtWork
  <2>4. ProgressInv'
    BY <2>1, <2>2, <2>3, WorkerProgresses
  <2>5. record[j].status = "processing"
    BY <1>0, <2>1 DEF WorkerKnows, AtWork
  <2>6. \A i \in Job : Told(i)' = Told(i)
    BY <2>1, <2>5 DEF Told
  <2> QED
    BY <1>1, <2>1, <2>4, <2>6, OneIsTold
<1>5. CASE StartJob(w)
  <2>1. worker[w].phase = "taken" /\ Holds(w) /\ saved' = saved
    BY <1>5 DEF StartJob, Holds
  <2>2. CASE record[j].status \in {"gone"} \cup Terminal
    <3>1. record' = record /\ worker' = [worker EXCEPT ![w] = Waiting]
      BY <1>5, <2>2 DEF StartJob
    <3>2. \A v \in Workers : worker'[v].phase = "waiting" \/ worker'[v] = worker[v]
      BY <1>0, <3>1 DEF Waiting
    <3>3. ProgressInv' /\ ClientView' = ClientView
      BY <2>1, <3>1, <3>2, NothingProgresses
    <3> QED
      BY <3>3
  <2>3. CASE record[j].status \notin {"gone"} \cup Terminal
    <3>1. /\ UpdateRecord(j, "processing", record[j].cached) /\ "processing" \in JobStatus
          /\ worker' = [worker EXCEPT ![w].phase = "started", ![w].path = record[j].cached]
      BY <1>5, <2>3 DEF StartJob, JobStatus
    <3>2. /\ record'[j].status = "processing"
          /\ \A i \in Job : i # j => record'[i] = record[i]
      BY <1>0, <1>1, <2>1, <2>3, <3>1, UpdateKeeps
    <3>3. Moved(w, "started")
      <4>1. WorkerTypeOK'
        BY ZenonT(30), <1>0, <1>1, <2>1, <3>1 DEF WorkerTypeOK, Worker, WorkerPhase
      <4> QED
        BY <1>0, <3>1, <4>1 DEF Moved, Worker
    <3>4. WorkerKnows(w)'
      BY <3>2, <3>3 DEF WorkerKnows, Moved
    <3>5. ProgressInv'
      BY <2>1, <3>2, <3>3, <3>4, WorkerProgresses
    <3>6. record[j].status \in {"queued", "processing"}
      BY <1>1, <2>1, <2>3 DEF JobStatus, Terminal
    <3>7. \A i \in Job : Told(i)' = Told(i)
      BY <2>1, <3>2, <3>6 DEF Told
    <3> QED
      BY <1>1, <2>1, <3>5, <3>7, OneIsTold
  <2> QED
    BY <2>2, <2>3
<1>6. CASE \/ UseRemoteUrl(w)
           \/ PreprocessVideo(w) /\ worker'[w].phase # "failing"
  <2>1. /\ worker[w].phase \in {"started", "downloaded"} /\ Holds(w) /\ saved' = saved
        /\ Goes(w, "prepared") /\ "prepared" \in WorkerPhase /\ "processing" \in JobStatus
        /\ \E cached \in BOOLEAN : UpdateRecord(j, "processing", cached)
    <3>1. Goes(w, "failing") => worker'[w].phase = "failing"
      BY <1>m DEF WorkerPhase
    <3>2. /\ worker[w].phase \in {"started", "downloaded"} /\ saved' = saved
          /\ Goes(w, "prepared")
          /\ UpdateRecord(j, "processing", TRUE) \/ UpdateRecord(j, "processing", FALSE)
      BY <1>6, <3>1 DEF UseRemoteUrl, PreprocessVideo
    <3> QED
      BY <3>2 DEF Holds, WorkerPhase, JobStatus
  <2>2. Moved(w, "prepared")
    BY <2>1, WorkerMoves
  <2>3. record[j].status = "processing"
    BY <1>0, <2>1 DEF WorkerKnows, AtWork
  <2>4. /\ record'[j].status = "processing"
        /\ \A i \in Job : i # j => record'[i] = record[i]
    BY <1>0, <1>1, <2>1, <2>3, UpdateKeeps
  <2>5. WorkerKnows(w)'
    BY <2>2, <2>4 DEF WorkerKnows, Moved
  <2>6. ProgressInv'
    BY <2>1, <2>2, <2>4, <2>5, WorkerProgresses
  <2>7. \A i \in Job : record'[i].status = record[i].status /\ saved'[i] = saved[i]
    BY <2>1, <2>3, <2>4
  <2> QED
    BY <2>6, <2>7, NoneIsTold
<1>7. CASE CompleteJob(w)
  <2>1. /\ worker[w].phase = "saved" /\ Holds(w) /\ saved' = saved
        /\ "completed" \in JobStatus
        /\ UpdateRecord(j, "completed", worker[w].path \/ record[j].cached)
        /\ IF worker[w].path THEN Goes(w, "scheduling")
           ELSE worker' = [worker EXCEPT ![w] = Waiting]
    BY <1>7 DEF CompleteJob, Holds, JobStatus
  <2>2. record[j].status = "processing" /\ saved[j] = "saved"
    BY <1>0, <2>1 DEF WorkerKnows, AtWork
  <2>3. /\ record'[j].status = "completed"
        /\ \A i \in Job : i # j => record'[i] = record[i]
    <3>1. (worker[w].path \/ record[j].cached) \in BOOLEAN
      OBVIOUS
    <3> QED
      BY <1>0, <1>1, <2>1, <2>2, <3>1, UpdateKeeps
  <2>4. Moved(w, "scheduling") \/ Moved(w, "waiting")
    <3>1. "scheduling" \in WorkerPhase
      BY DEF WorkerPhase
    <3> QED
      BY <2>1, <3>1, WorkerMoves, WorkerRests
  <2>5. worker'[w].phase = "scheduling" => WorkerKnows(w)'
    BY <2>3, <2>4 DEF WorkerKnows, Moved, AtWork
  <2>6. ProgressInv'
    <3>1. CASE Moved(w, "scheduling")
      <4>1. WorkerKnows(w)'
        BY <2>5, <3>1 DEF Moved
      <4> QED
        BY <2>1, <2>2, <2>3, <3>1, <4>1, WorkerProgresses
    <3>2. CASE Moved(w, "waiting")
      <4>1. "waiting" \notin AtWork \cup {"failing", "scheduling"}
        BY DEF AtWork
      <4> QED
        BY <2>1, <2>2, <2>3, <3>2, <4>1, WorkerProgresses
    <3> QED
      BY <2>4, <3>1, <3>2
  <2>7. \A i \in Job : i # j => Told(i)' = Told(i)
    BY <2>1, <2>3 DEF Told
  <2>8. Told(j) = "running" /\ Told(j)' = "completed"
    BY <2>1, <2>2, <2>3 DEF Told
  <2> QED
    BY <1>1, <2>1, <2>6, <2>7, <2>8, OneIsTold
<1>8. CASE HandleFailure(w)
  <2>1. /\ worker[w].phase = "failing" /\ Holds(w) /\ saved' = saved
        /\ "failed" \in JobStatus
        /\ UpdateRecord(j, "failed", record[j].cached)
        /\ IF worker[w].path THEN Goes(w, "disposing")
           ELSE worker' = [worker EXCEPT ![w] = Waiting]
    BY <1>8 DEF HandleFailure, Holds, JobStatus
  <2>2. record[j].status \in {"processing", "completed"}
    BY <1>0, <2>1 DEF WorkerKnows
  <2>3. /\ record'[j].status = "failed"
        /\ \A i \in Job : i # j => record'[i] = record[i]
    BY <1>0, <1>1, <2>1, <2>2, UpdateKeeps
  <2>4. Moved(w, "disposing") \/ Moved(w, "waiting")
    <3>1. "disposing" \in WorkerPhase
      BY DEF WorkerPhase
    <3> QED
      BY <2>1, <3>1, WorkerMoves, WorkerRests
  <2>5. {"disposing", "waiting"} \cap (AtWork \cup {"failing", "scheduling"}) = {}
    BY DEF AtWork
  <2>6. ProgressInv'
    BY <2>1, <2>3, <2>4, <2>5, WorkerProgresses
  <2>7. CASE record[j].status = "processing"
    <3>1. \A i \in Job : i # j => Told(i)' = Told(i)
      BY <2>1, <2>3 DEF Told
    <3>2. Told(j) = "running" /\ Told(j)' = "failed"
      BY <2>3, <2>7 DEF Told
    <3> QED
      BY <1>1, <2>1, <2>6, <3>1, <3>2, OneIsTold
  <2> QED
    BY <1>8, <2>2, <2>6, <2>7
<1>9. CASE DisposeOfFile(w)
  <2>1. /\ worker[w].phase = "disposing" /\ Holds(w) /\ saved' = saved
        /\ worker' = [worker EXCEPT ![w] = Waiting]
        /\ \E cached \in BOOLEAN : UpdateRecord(j, record[j].status, cached)
    BY <1>9 DEF DisposeOfFile, Holds
  <2>2. \A i \in Job : record'[i].status = record[i].status
    BY <1>0, <1>1, <2>1, UpdateKeeps
  <2>3. \A v \in Workers : worker'[v].phase = "waiting" \/ worker'[v] = worker[v]
    BY <1>0, <2>1 DEF Waiting
  <2>4. ProgressInv' /\ ClientView' = ClientView
    BY <2>1, <2>2, <2>3, NothingProgresses
  <2> QED
    BY <2>4
<1>10. PreprocessVideo(w) => worker'[w].phase # "failing" \/ UNCHANGED <<record, active>>
  <2>1. Goes(w, "prepared") => worker'[w].phase = "prepared"
    BY <1>m DEF WorkerPhase
  <2> QED
    BY <2>1 DEF PreprocessVideo
<1> QED
  BY <1>2, <1>3, <1>4, <1>5, <1>6, <1>7, <1>8, <1>9, <1>10 DEF WorkerStep

\* Through faults and restarts the provider implements ProviderJobs, but for the failure
\* after a completion: a job that is accepted runs, ends once, with its result there when
\* it is said to be completed, and is forgotten some time.
THEOREM ClientsSeeJobs == AnalysisJobsSpec => JobsLookAsPromised
<1>1. AnalysisJobsInit => ProgressInv /\ Client!Init
  <2> SUFFICES ASSUME AnalysisJobsInit PROVE ProgressInv /\ Client!Init
    OBVIOUS
  <2>1. \A w \in Workers : worker[w].phase = "waiting"
    BY DEF AnalysisJobsInit, JobsRest, Waiting
  <2>2. \A j \in Job : record[j].status = "none"
    BY DEF AnalysisJobsInit, JobsRest
  <2> QED
    BY <2>1, <2>2 DEF ProgressInv, WorkerKnows, AtWork, CompletedAreSaved, Client!Init, ClientView
<1>2. JobsInv /\ ProgressInv /\ [AnalysisJobsNext]_jobsVars
        => /\ ProgressInv'
           /\ [\/ Client!Next
               \/ \E w \in Workers : /\ HandleFailure(w)
                                     /\ record[worker[w].job].status = "completed"]_ClientView
  <2> SUFFICES ASSUME JobsInv, ProgressInv, [AnalysisJobsNext]_jobsVars
               PROVE  /\ ProgressInv'
                      /\ \/ [Client!Next]_ClientView
                         \/ \E w \in Workers : /\ HandleFailure(w)
                                               /\ record[worker[w].job].status = "completed"
    OBVIOUS
  <2>1. CASE ProcessStep \/ ProcessEnds \/ CleanerStep \/ CleanerDies
    BY <2>1, ProcessProgresses
  <2>2. CASE \E j \in Job : SubmitJob(j) \/ EnqueueJob(j) \/ RecordExpires(j) \/ ResultExpires(j)
    BY <2>2, JobProgresses
  <2>3. CASE \E w \in Workers : WorkerStep(w) \/ RunFails(w) \/ WorkerDies(w)
    BY <2>3, WorkProgresses
  <2>4. CASE UNCHANGED jobsVars
    <3>1. record' = record /\ saved' = saved /\ worker' = worker
      BY <2>4 DEF jobsVars
    <3> QED
      BY <3>1, NothingProgresses
  <2> QED
    BY <2>1, <2>2, <2>3, <2>4 DEF AnalysisJobsNext
<1> QED
  BY <1>1, <1>2, JobsInvariance, PTL DEF AnalysisJobsSpec, JobsLookAsPromised
=============================================================================
