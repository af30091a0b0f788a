---------------------------- MODULE TaskDelivery ----------------------------
(***************************************************************************)
(* The analysis reports of tasks on the totals that the refreshes maintain *)
(* (TaskStats): a report is accepted, and made, on the word of the cached  *)
(* totals, and its content is read from the videos.                        *)
(***************************************************************************)
EXTENDS TaskStats, AnalysisReport

deliveryVars == <<statsVars, reportVars>>

DeliveryInit == StatsInit /\ ReportInit

DeliveryTypeOK == StatsTypeOK /\ ReportTypeOK

DeliveryNext ==
  \/ StatsNext /\ UNCHANGED reportVars
  \/ ReportNext /\ UNCHANGED statsVars

Delivery == DeliveryInit /\ [][DeliveryNext]_deliveryVars

\* The same when every change of a video is followed by its refresh.
RefreshedDelivery ==
  /\ DeliveryInit
  /\ [][\/ RefreshedNext /\ UNCHANGED reportVars
        \/ ReportNext /\ UNCHANGED statsVars]_deliveryVars
-----------------------------------------------------------------------------
(***************************************************************************)
(* Properties.                                                             *)
(***************************************************************************)

\* "仅当 task 下全部视频评测完成后，才允许触发生成" (task_analysis_report_async_queue
\* _draft.md, line 18): when no handler is about to refresh the totals, a report
\* is accepted only for a task whose videos are all evaluated.
AcceptedOnlyWhenEvaluated ==
  [][\A c \in Callers, t \in Tasks :
       Quiet /\ GenerateAnalysisReport(c, t) => AllEvaluated(t)]_deliveryVars
=============================================================================
