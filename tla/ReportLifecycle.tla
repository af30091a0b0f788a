-------------------------- MODULE ReportLifecycle --------------------------
(***************************************************************************)
(* What the analysis reports promise (designingDocs/                       *)
(* task_analysis_report_async_queue_draft.md, "API 侧幂等" and "Worker     *)
(* 侧幂等"): however often a report is asked for and however many workers  *)
(* there are, a task has one report at a time, and gets one document.      *)
(***************************************************************************)
CONSTANTS
  Tasks,
  Reports       \* reports ever made

VARIABLES
  status,       \* the status of a task's report
  documents     \* the reports of a task that were delivered

lifecycleVars == <<status, documents>>

LifecycleInit ==
  /\ status = [t \in Tasks |-> "none"]
  /\ documents = [t \in Tasks |-> {}]

\* A request starts a report, unless there is one that has not failed.
Request(t) ==
  /\ status[t] \in {"none", "failed"}
  /\ status' = [status EXCEPT ![t] = "queued"]
  /\ UNCHANGED documents

Begin(t) ==
  /\ status[t] = "queued"
  /\ status' = [status EXCEPT ![t] = "processing"]
  /\ UNCHANGED documents

Deliver(t) ==
  /\ status[t] = "processing"
  /\ documents[t] = {}
  /\ status' = [status EXCEPT ![t] = "ready"]
  /\ \E e \in Reports : documents' = [documents EXCEPT ![t] = {e}]

Fail(t) ==
  /\ status[t] = "processing"
  /\ status' = [status EXCEPT ![t] = "failed"]
  /\ UNCHANGED documents

LifecycleNext ==
  \E t \in Tasks : Request(t) \/ Begin(t) \/ Deliver(t) \/ Fail(t)

Lifecycle == LifecycleInit /\ [][LifecycleNext]_lifecycleVars
=============================================================================
