---------------------------- MODULE ProviderJobs ----------------------------
(***************************************************************************)
(* The analysis jobs as a client of the provider sees them, and as         *)
(* AIEvaluation takes them to be: a job that was accepted runs, ends once, *)
(* and is forgotten some time.                                             *)
(***************************************************************************)
CONSTANT Submissions

VARIABLE progressOf    \* what GET /analysis-jobs/{id} tells of a job

Init == progressOf = [j \in Submissions |-> "none"]

Accept(j) ==
  /\ progressOf[j] = "none"
  /\ progressOf' = [progressOf EXCEPT ![j] = "running"]

End(j) ==
  /\ progressOf[j] = "running"
  /\ \E verdict \in {"completed", "failed"} :
       progressOf' = [progressOf EXCEPT ![j] = verdict]

Forget(j) ==
  /\ progressOf[j] # "none"
  /\ progressOf' = [progressOf EXCEPT ![j] = "gone"]

Next == \E j \in Submissions : Accept(j) \/ End(j) \/ Forget(j)

Jobs == Init /\ [][Next]_progressOf
=============================================================================
