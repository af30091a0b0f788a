---------------------------- MODULE MCTaskTotals ----------------------------
(***************************************************************************)
(* A project of two tasks, in two parts of which the initial state chooses *)
(* one: its totals by themselves, with handlers that overlap as they like, *)
(* and the reports, with one handler at a time.                            *)
(***************************************************************************)
EXTENDS MCTaskDelivery

CONSTANTS
  r1,   \* the handler at work where there is one at a time
  v3    \* a second video of its task, which only the reports need

VARIABLE part

partsVars == <<part, deliveryVars>>

OneAtATime == \A r \in Writers \ {r1} : refresh[r].phase = "idle"

\* The task of a handler at rest means nothing.
PartsInit ==
  /\ part \in {"totals", "reports"}
  /\ DeliveryInit /\ \A r \in Writers : refresh[r].task = t1

PartsNext ==
  /\ UNCHANGED part
  /\ \/ /\ RefreshedNext
        /\ IF part = "reports" THEN OneAtATime' ELSE UNCHANGED clip[v3]
        /\ UNCHANGED reportVars
     \/ part = "reports" /\ ReportNext /\ UNCHANGED statsVars

\* WorkerFairness, where there are reports.
ReportsFairness ==
  LET AtWork(A) == part = "reports" /\ A /\ UNCHANGED totalsVars
  IN  \A w \in ReportWorkers :
        /\ WF_reportAloneVars(AtWork(ProcessQueuedReports(w)))
        /\ \A e \in ReportId :
             /\ SF_reportAloneVars(AtWork(ClaimAnalysisReport(w, e)))
             /\ WF_reportAloneVars(AtWork(ProcessQueuedReport(w, e)))

TotalsOfTwoTasks == PartsInit /\ [][PartsNext]_partsVars /\ ReportsFairness
=============================================================================
