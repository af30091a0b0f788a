---------------------------- MODULE AnalysisJobs ----------------------------
(***************************************************************************)
(* The evaluation provider (ai_eval_mock): jobs are recorded in Redis,     *)
(* handed to a pool of workers through a queue in memory, and recovered    *)
(* from Redis after a restart.  A worker downloads the video into a file   *)
(* of the job, has the result made, stores it, and plans the deletion of   *)
(* the file, which a loop carries out.                                     *)
(*                                                                         *)
(* The process is one asyncio loop: what is between two awaits is one      *)
(* step.  JobStore.update reads a record and writes it back in two Redis   *)
(* calls; it is one step here because no two writers of one record ever    *)
(* meet (OneWriterPerJob).                                                 *)
(***************************************************************************)
EXTENDS Naturals, Sequences, FiniteSets, SequencesExt

CONSTANTS
  MaxJobs,      \* bound: jobs ever submitted; a job is known by its rank
  Workers,      \* settings.worker_count workers
  LlmSlots,     \* settings.mllm_max_concurrency
  MaxCrashes    \* bound: restarts of the process

ASSUME AnalysisJobsAssumption ==
  /\ MaxJobs \in Nat /\ MaxCrashes \in Nat
  /\ LlmSlots \in Nat \ {0}

VARIABLES
  record,       \* Redis: ai:job:<id>
  active,       \* Redis: the set ai:jobs:active
  saved,        \* Redis: ai:job:result:<id>
  expiring,     \* Redis: the jobs in ai:video_expire
  file,         \* the directory of a job in the cache
  process,      \* the life of the process
  queue,        \* the dispatcher
  worker,       \* what a worker is doing
  cleaner,      \* the cleanup loop
  setup         \* settings, and whether this behaviour meets faults

jobsVars == <<record, active, saved, expiring, file, process, queue, worker,
              cleaner, setup>>

Job == 1..MaxJobs

JobStatus == {"none", "queued", "processing", "completed", "failed", "gone"}

Terminal == {"completed", "failed"}

\* "cached": videoCachePath is set.
JobRecord == [status : JobStatus, cached : BOOLEAN]

WorkerPhase == {"waiting", "taken", "started", "downloaded", "prepared",
                "generating", "saving", "saved", "scheduling", "failing",
                "disposing", "dead"}

\* "path": the local variable video_path is set.
Worker == [phase : WorkerPhase, job : 0..MaxJobs, path : BOOLEAN]

Waiting == [phase |-> "waiting", job |-> 0, path |-> FALSE]

AnalysisJobsTypeOK ==
  /\ record \in [Job -> JobRecord]
  /\ active \subseteq Job
  /\ saved \in [Job -> {"none", "saved", "expired"}]
  /\ expiring \subseteq Job
  /\ file \in [Job -> {"none", "partial", "whole"}]
  /\ process \in [phase : {"down", "recovering", "up"}, toRecover : SUBSET Job,
                  submitting : SUBSET Job, crashes : 0..MaxCrashes]
  /\ queue \in Seq(Job)
  /\ worker \in [Workers -> Worker]
  /\ cleaner \in [phase : {"off", "idle", "deleted", "dead"}, job : 0..MaxJobs]
  /\ setup \in [remote : BOOLEAN, keepFailed : BOOLEAN, faulty : BOOLEAN]

\* A first start on an empty Redis.
JobsRest ==
  /\ record = [j \in Job |-> [status |-> "none", cached |-> FALSE]]
  /\ active = {} /\ expiring = {}
  /\ saved = [j \in Job |-> "none"]
  /\ file = [j \in Job |-> "none"]
  /\ process = [phase |-> "down", toRecover |-> {}, submitting |-> {}, crashes |-> 0]
  /\ queue = <<>>
  /\ worker = [w \in Workers |-> Waiting]
  /\ cleaner = [phase |-> "off", job |-> 0]

AnalysisJobsInit ==
  /\ JobsRest
  /\ setup \in [remote : BOOLEAN, keepFailed : BOOLEAN, faulty : BOOLEAN]
-----------------------------------------------------------------------------
(***************************************************************************)
(* Redis and the dispatcher.                                               *)
(***************************************************************************)

\* update: a record that expired is not written.
UpdateRecord(j, status, cached) ==
  IF record[j].status = "gone" THEN UNCHANGED <<record, active>>
  ELSE /\ record' = [record EXCEPT ![j] = [status |-> status, cached |-> cached]]
       /\ active' = IF status \in Terminal THEN active \ {j} ELSE active \cup {j}

Enqueue(j) == queue' = IF Contains(queue, j) THEN queue ELSE Append(queue, j)

\* The time to live of a record ends; Redis also drops results by themselves, which
\* are stored before the record is written for the last time.
RecordExpires(j) ==
  /\ record[j].status \in {"queued", "processing", "completed", "failed"}
  /\ \A w \in Workers : worker[w].job = j => worker[w].phase \in {"taken", "dead"}
  /\ record' = [record EXCEPT ![j] = [status |-> "gone", cached |-> FALSE]]
  /\ saved' = [saved EXCEPT ![j] = IF @ = "saved" THEN "expired" ELSE @]
  /\ UNCHANGED <<active, expiring, file, process, queue, worker, cleaner, setup>>

ResultExpires(j) ==
  /\ record[j].status = "completed" /\ saved[j] = "saved"
  /\ saved' = [saved EXCEPT ![j] = "expired"]
  /\ UNCHANGED <<record, active, expiring, file, process, queue, worker, cleaner,
                 setup>>
-----------------------------------------------------------------------------
(***************************************************************************)
(* Starting, submitting, crashing.                                         *)
(***************************************************************************)

\* Mutated: only queued jobs are recovered.
RecoverableQueued == {j \in active : record[j].status = "queued"}

\* list_recoverable_jobs.
Recoverable == {j \in active : record[j].status \in {"queued", "processing"}}

\* lifespan: the workers run before the jobs are recovered, and requests are
\* served only after that.
StartProcess ==
  /\ process.phase = "down"
  /\ process' = [process EXCEPT !.phase = "recovering", !.toRecover = Recoverable]
  /\ UNCHANGED <<record, active, saved, expiring, file, queue, worker, cleaner, setup>>

\* _recover_jobs: the next job of the list, which is in the order of creation.
RecoverJob ==
  /\ process.phase = "recovering"
  /\ \E j \in process.toRecover :
       /\ \A i \in process.toRecover : j <= i
       /\ UpdateRecord(j, "queued", record[j].cached)
       /\ Enqueue(j)
       /\ process' = [process EXCEPT !.toRecover = @ \ {j}]
  /\ UNCHANGED <<saved, expiring, file, worker, cleaner, setup>>

BeginServing ==
  /\ process.phase = "recovering" /\ process.toRecover = {}
  /\ process' = [process EXCEPT !.phase = "up"]
  /\ cleaner' = [phase |-> "idle", job |-> 0]
  /\ UNCHANGED <<record, active, saved, expiring, file, queue, worker, setup>>

\* create_analysis_job stores the record, and then queues the job.
SubmitJob(j) ==
  /\ process.phase = "up"
  /\ record[j].status = "none" /\ \A i \in 1..(j - 1) : record[i].status # "none"
  /\ record' = [record EXCEPT ![j].status = "queued"]
  /\ active' = active \cup {j}
  /\ process' = [process EXCEPT !.submitting = @ \cup {j}]
  /\ UNCHANGED <<saved, expiring, file, queue, worker, cleaner, setup>>

EnqueueJob(j) ==
  /\ j \in process.submitting
  /\ Enqueue(j)
  /\ process' = [process EXCEPT !.submitting = @ \ {j}]
  /\ UNCHANGED <<record, active, saved, expiring, file, worker, cleaner, setup>>

\* A kill, or a shutdown: the workers are cancelled where they are, which no
\* handler of theirs catches.
ProcessEnds ==
  /\ setup.faulty
  /\ process.phase # "down" /\ process.crashes < MaxCrashes
  /\ process' = [phase |-> "down", toRecover |-> {}, submitting |-> {},
                 crashes |-> process.crashes + 1]
  /\ queue' = <<>>
  /\ worker' = [w \in Workers |-> Waiting]
  /\ cleaner' = [phase |-> "off", job |-> 0]
  /\ UNCHANGED <<record, active, saved, expiring, file, setup>>
-----------------------------------------------------------------------------
(***************************************************************************)
(* JobRunner.run.                                                          *)
(***************************************************************************)

Goes(w, phase) == worker' = [worker EXCEPT ![w].phase = phase]

\* Mutated: a job stays in the queue while a worker is on it.
TakeJobKeepingIt(w) ==
  /\ process.phase # "down"
  /\ worker[w].phase = "waiting" /\ queue # <<>>
  /\ worker' = [worker EXCEPT ![w] =
                   [phase |-> "taken", job |-> Head(queue), path |-> FALSE]]
  /\ UNCHANGED <<record, active, saved, expiring, file, process, queue, cleaner,
                 setup>>

TakeJob(w) ==
  /\ process.phase # "down"
  /\ worker[w].phase = "waiting" /\ queue # <<>>
  /\ worker' = [worker EXCEPT ![w] =
                   [phase |-> "taken", job |-> Head(queue), path |-> FALSE]]
  /\ queue' = Tail(queue)
  /\ UNCHANGED <<record, active, saved, expiring, file, process, cleaner, setup>>

\* A job that is unknown or has ended is dropped.
StartJob(w) ==
  LET j == worker[w].job IN
  /\ worker[w].phase = "taken"
  /\ IF record[j].status \in {"gone"} \cup Terminal
     THEN worker' = [worker EXCEPT ![w] = Waiting] /\ UNCHANGED <<record, active>>
     ELSE /\ worker' = [worker EXCEPT ![w].phase = "started",
                                      ![w].path = record[j].cached]
          /\ UpdateRecord(j, "processing", record[j].cached)
  /\ UNCHANGED <<saved, expiring, file, process, queue, cleaner, setup>>

\* remote_url mode: the model fetches the video itself.
UseRemoteUrl(w) ==
  /\ worker[w].phase = "started" /\ setup.remote
  /\ UpdateRecord(worker[w].job, "processing", FALSE)
  /\ Goes(w, "prepared")
  /\ UNCHANGED <<saved, expiring, file, process, queue, cleaner, setup>>

\* The directory is emptied first; a download that fails leaves what it has.
DownloadVideo(w) ==
  LET j == worker[w].job IN
  /\ worker[w].phase = "started" /\ ~ setup.remote
  /\ \/ /\ file' = [file EXCEPT ![j] = "whole"]
        /\ worker' = [worker EXCEPT ![w].phase = "downloaded", ![w].path = TRUE]
     \/ /\ file' = [file EXCEPT ![j] = "partial"]
        /\ Goes(w, "failing")
  /\ UNCHANGED <<record, active, saved, expiring, process, queue, cleaner, setup>>

PreprocessVideo(w) ==
  /\ worker[w].phase = "downloaded"
  /\ \/ /\ UpdateRecord(worker[w].job, "processing", TRUE)
        /\ Goes(w, "prepared")
     \/ /\ Goes(w, "failing")
        /\ UNCHANGED <<record, active>>
  /\ UNCHANGED <<saved, expiring, file, process, queue, cleaner, setup>>

\* The semaphore of the model.
AcquireModel(w) ==
  /\ worker[w].phase = "prepared"
  /\ Cardinality({v \in Workers : worker[v].phase = "generating"}) < LlmSlots
  /\ Goes(w, "generating")
  /\ UNCHANGED <<record, active, saved, expiring, file, process, queue, cleaner, setup>>

GenerateResult(w) ==
  /\ worker[w].phase = "generating"
  /\ Goes(w, "saving") \/ Goes(w, "failing")
  /\ UNCHANGED <<record, active, saved, expiring, file, process, queue, cleaner, setup>>

SaveResult(w) ==
  /\ worker[w].phase = "saving"
  /\ saved' = [saved EXCEPT ![worker[w].job] = "saved"]
  /\ Goes(w, "saved")
  /\ UNCHANGED <<record, active, expiring, file, process, queue, cleaner, setup>>

\* Mutated: the record is completed before the result is saved.
CompleteJobEarly(w) ==
  LET j == worker[w].job IN
  /\ worker[w].phase \in {"saving", "saved"}
  /\ UpdateRecord(j, "completed", worker[w].path \/ record[j].cached)
  /\ IF worker[w].path THEN Goes(w, "scheduling")
     ELSE worker' = [worker EXCEPT ![w] = Waiting]
  /\ UNCHANGED <<saved, expiring, file, process, queue, cleaner, setup>>

CompleteJob(w) ==
  LET j == worker[w].job IN
  /\ worker[w].phase = "saved"
  /\ UpdateRecord(j, "completed", worker[w].path \/ record[j].cached)
  /\ IF worker[w].path THEN Goes(w, "scheduling")
     ELSE worker' = [worker EXCEPT ![w] = Waiting]
  /\ UNCHANGED <<saved, expiring, file, process, queue, cleaner, setup>>

\* Mutated: no deletion is planned for the file of a completed job.
ScheduleNothing(w) ==
  /\ worker[w].phase = "scheduling"
  /\ worker' = [worker EXCEPT ![w] = Waiting]
  /\ UNCHANGED <<record, active, saved, expiring, file, process, queue, cleaner, setup>>

\* schedule_video_expiration.
ScheduleExpiration(w) ==
  /\ worker[w].phase = "scheduling"
  /\ expiring' = expiring \cup {worker[w].job}
  /\ worker' = [worker EXCEPT ![w] = Waiting]
  /\ UNCHANGED <<record, active, saved, file, process, queue, cleaner, setup>>

\* Redis fails inside the try block; after the completion, too.
RunFails(w) ==
  /\ setup.faulty
  /\ worker[w].phase \in {"started", "downloaded", "prepared", "saving", "saved",
                          "scheduling"}
  /\ Goes(w, "failing")
  /\ UNCHANGED <<record, active, saved, expiring, file, process, queue, cleaner, setup>>

\* _handle_failure does not ask whether the job has completed.
HandleFailure(w) ==
  LET j == worker[w].job IN
  /\ worker[w].phase = "failing"
  /\ UpdateRecord(j, "failed", record[j].cached)
  /\ IF worker[w].path THEN Goes(w, "disposing")
     ELSE worker' = [worker EXCEPT ![w] = Waiting]
  /\ UNCHANGED <<saved, expiring, file, process, queue, cleaner, setup>>

\* The end of _handle_failure: the file is kept for some time, or deleted.
DisposeOfFile(w) ==
  LET j == worker[w].job IN
  /\ worker[w].phase = "disposing"
  /\ worker' = [worker EXCEPT ![w] = Waiting]
  /\ \/ /\ setup.keepFailed
        /\ UpdateRecord(j, record[j].status, TRUE)
        /\ expiring' = expiring \cup {j}
        /\ UNCHANGED file
     \/ /\ ~ setup.keepFailed
        /\ UpdateRecord(j, record[j].status, FALSE)
        /\ expiring' = expiring \ {j}
        /\ file' = [file EXCEPT ![j] = "none"]
  /\ UNCHANGED <<saved, process, queue, cleaner, setup>>

\* Redis fails outside the try block: the exception ends the worker's loop.
WorkerDies(w) ==
  /\ setup.faulty
  /\ worker[w].phase \in {"taken", "failing", "disposing"}
  /\ Goes(w, "dead")
  /\ UNCHANGED <<record, active, saved, expiring, file, process, queue, cleaner, setup>>
-----------------------------------------------------------------------------
(***************************************************************************)
(* _cleanup_loop.                                                          *)
(***************************************************************************)

DeleteExpiredFile(j) ==
  /\ cleaner.phase = "idle" /\ j \in expiring
  /\ file' = [file EXCEPT ![j] = "none"]
  /\ cleaner' = [phase |-> "deleted", job |-> j]
  /\ UNCHANGED <<record, active, saved, expiring, process, queue, worker, setup>>

\* clear_video_cache.
ClearVideoCache ==
  LET j == cleaner.job IN
  /\ cleaner.phase = "deleted"
  /\ UpdateRecord(j, record[j].status, FALSE)
  /\ expiring' = expiring \ {j}
  /\ cleaner' = [phase |-> "idle", job |-> 0]
  /\ UNCHANGED <<saved, file, process, queue, worker, setup>>

\* Redis fails: nothing restarts the loop.
CleanerDies ==
  /\ setup.faulty
  /\ cleaner.phase \in {"idle", "deleted"}
  /\ cleaner' = [phase |-> "dead", job |-> 0]
  /\ UNCHANGED <<record, active, saved, expiring, file, process, queue, worker, setup>>

WorkerStep(w) ==
  \/ TakeJob(w) \/ StartJob(w) \/ UseRemoteUrl(w) \/ DownloadVideo(w)
  \/ PreprocessVideo(w) \/ AcquireModel(w) \/ GenerateResult(w) \/ SaveResult(w)
  \/ CompleteJob(w) \/ ScheduleExpiration(w) \/ HandleFailure(w) \/ DisposeOfFile(w)

CleanerStep == ClearVideoCache \/ \E j \in Job : DeleteExpiredFile(j)

ProcessStep == StartProcess \/ RecoverJob \/ BeginServing

AnalysisJobsNext ==
  \/ ProcessStep \/ ProcessEnds \/ CleanerStep \/ CleanerDies
  \/ \E j \in Job : SubmitJob(j) \/ EnqueueJob(j) \/ RecordExpires(j) \/ ResultExpires(j)
  \/ \E w \in Workers : WorkerStep(w) \/ RunFails(w) \/ WorkerDies(w)

AnalysisJobsSpec == AnalysisJobsInit /\ [][AnalysisJobsNext]_jobsVars
-----------------------------------------------------------------------------
(***************************************************************************)
(* Properties.                                                             *)
(***************************************************************************)

Busy(w) == worker[w].phase \notin {"waiting", "dead"}

Writes(w, j) == Busy(w) /\ worker[w].phase # "taken" /\ worker[w].job = j

\* No two workers, and no worker and the cleanup, are at work on one job: what
\* makes the read-modify-write of JobStore.update safe, across restarts too.
OneWriterPerJob ==
  \A j \in Job :
    /\ \A v, w \in Workers : Writes(v, j) /\ Writes(w, j) => v = w
    /\ cleaner.phase = "deleted" /\ cleaner.job = j => \A w \in Workers : ~ Writes(w, j)

\* A job that has completed without a result is nothing a client could be told.
ClientView ==
  [j \in Job |->
     IF record[j].status \in {"queued", "processing"} THEN "running"
     ELSE IF record[j].status = "completed" /\ saved[j] = "none" THEN "empty"
     ELSE record[j].status]

Client == INSTANCE ProviderJobs WITH Submissions <- Job, progressOf <- ClientView

\* What AIEvaluation takes the provider to do is what it does: a job that is accepted
\* ends once, and it has its result when it is said to be completed.  Exempt is a failure
\* after the completion, which turns a completed job into a failed one.
JobsLookAsPromised ==
  Client!Init /\
  [][\/ Client!Next
     \/ \E w \in Workers : /\ HandleFailure(w)
                           /\ record[worker[w].job].status = "completed"]_ClientView

\* A job that was accepted ends, or is forgotten, unless a worker dies and the
\* process is not restarted after that.
EveryJobEnds ==
  \A j \in Job :
    (record[j].status # "none") ~>
      (record[j].status \in {"gone"} \cup Terminal \/ \E w \in Workers : worker[w].phase = "dead")

\* Without faults every video that was downloaded is deleted in the end, and with them
\* every one whose deletion has been planned, unless the cleanup loop dies.  (A download
\* that fails leaves a partial file for ever.)
EveryFileGoes ==
  \A j \in Job :
    (file[j] = "whole" /\ (~ setup.faulty \/ j \in expiring))
      ~> (file[j] # "whole" \/ cleaner.phase = "dead")
=============================================================================
