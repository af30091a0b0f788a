---------------------------- MODULE VideoScoring ----------------------------
(***************************************************************************)
(* The two sides together, on the rows of `videos` they share: reviews by  *)
(* scorers (ManualReview) and evaluations by the provider (AIEvaluation).  *)
(* Each side writes its own columns and derives evaluation_status and      *)
(* completed_at from the other side's column as it last read it; nothing   *)
(* orders a read of one side and a write of the other.                     *)
(***************************************************************************)
EXTENDS ManualReview, AIEvaluation

vars == <<video, reviewVars, aiVars>>

Init ==
  /\ video = [v \in Videos |-> NewVideo]
  /\ ReviewInit
  /\ AIInit

TypeOK == ReviewTypeOK /\ AITypeOK

Next ==
  \/ ReviewNext /\ UNCHANGED aiVars
  \/ AINext /\ UNCHANGED reviewVars

Spec == Init /\ [][Next]_vars
-----------------------------------------------------------------------------
(***************************************************************************)
(* The same handlers when they do not overlap: between what a handler reads*)
(* and what it writes, no other one reads or writes.  What holds here and  *)
(* not in Spec is lost to an interleaving, not to one handler's own logic. *)
(***************************************************************************)

\* The handlers that have read something and have still to use it.
InFlight ==
  {<<"request", r>> : r \in {q \in Requests : request[q].phase # "idle"}}
    \cup {<<"creation", c>> : c \in {d \in Creators : creation[d].phase # "idle"}}
    \cup {<<"poll", e>> : e \in {f \in EvalId : poll[f].phase = "resolved"}}

OneAtATime == Next /\ \A h, k \in InFlight' : h = k

Serial == Init /\ [][OneAtATime]_vars

\* Then the columns of the rows are those of the lifecycle.
Life == INSTANCE EvaluationLifecycle WITH
          Clips    <- Videos,
          Marks    <- Scores,
          NoMark   <- NoScore,
          review   <- [v \in Videos |-> video[v].manual],
          mark     <- [v \in Videos |-> video[v].manualScore],
          ai       <- [v \in Videos |-> video[v].ai],
          overall  <- [v \in Videos |-> video[v].evaluation],
          complete <- [v \in Videos |-> video[v].completedAt]
-----------------------------------------------------------------------------
(***************************************************************************)
(* Properties of the row both sides write.                                 *)
(***************************************************************************)

\* The handler that writes v in this step computed the overall status from a
\* column that has changed since it was read.
StaleWrite(v) ==
  \/ \E r \in Requests : /\ request[r].phase # "idle"
                         /\ request[r].plan[v] # NoScorer
                         /\ request[r].aiSeen[v] # video[v].ai
                         /\ request'[r].phase = "idle"
  \/ \E c \in Creators : /\ creation[c].video = v
                         /\ creation[c].phase \in {"checked", "failing"}
                         /\ creation[c].manualSeen # video[v].manual
                         /\ creation'[c].phase # creation[c].phase
  \/ \E e \in EvalId : /\ evaluation[e].video = v
                       /\ poll[e].phase = "resolved"
                       /\ poll[e].manualSeen # video[v].manual
                       /\ poll'[e].phase = "idle"

\* Every handler of either side leaves an exact summary behind unless the
\* column it read has changed meanwhile: drafts, submissions, assignments,
\* evaluations begun, polled, completed or failed.  So a wrong summary comes
\* from an overlap alone, and the next write on fresh reads repairs it.
FreshWritesAreExact ==
  [][\A v \in Videos : video'[v] # video[v] => Exact(v)' \/ StaleWrite(v)]_vars

\* "AI 和人工都完成后，视频整体 evaluation_status = completed" (plans.md 5.6):
\* a reviewed and evaluated video counts as complete.
DoneMeansCompleted ==
  \A v \in Videos :
    video[v].manual = "submitted" /\ video[v].ai = "completed" =>
      video[v].evaluation = "completed"

\* Requests, transactions, jobs and rounds of polling that do not overlap add up
\* to whole operations of the lifecycle: no submission is taken back, no second
\* evaluation begins while one is under way, only a begun evaluation gets a
\* verdict, and every write leaves the summary of its row exact.
FollowsEvaluationLifecycle == Life!Lifecycle
=============================================================================
