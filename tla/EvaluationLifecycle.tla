-------------------------- MODULE EvaluationLifecycle --------------------------
(***************************************************************************)
(* What a task promises of its videos when its handlers do not overlap: a  *)
(* video goes to a reviewer, who saves drafts and submits once; the        *)
(* provider evaluates it, again if that is asked for; and after every one  *)
(* of these the overall status and the completion time are what the rule   *)
(* makes of the two.  Whole operations: no request, transaction, job or    *)
(* round of polling is to be seen here.                                    *)
(***************************************************************************)
EXTENDS EvaluationStatus

CONSTANTS
  Clips,     \* the videos
  Marks,     \* the scores a reviewer may give
  NoMark     \* no score yet

VARIABLES
  review,    \* how far the review of a video is
  mark,      \* the reviewer's score
  ai,        \* how far its latest evaluation is
  overall,   \* the two in one status
  complete   \* is a completion time shown?

lifecycleVars == <<review, mark, ai, overall, complete>>

Summarised ==
  /\ overall' = [v \in Clips |-> ResolveOverallStatus(review'[v], ai'[v])]
  /\ complete' = [v \in Clips |-> overall'[v] = "completed"]

Reviewing(V, status, markOf) ==
  /\ \A v \in V : review[v] # "submitted"
  /\ review' = [v \in Clips |-> IF v \in V THEN status ELSE review[v]]
  /\ mark' = [v \in Clips |-> IF v \in V THEN markOf[v] ELSE mark[v]]
  /\ UNCHANGED ai

\* Videos are given to reviewers, or taken from one and given to another: the
\* review begins anew.
Assign(V) == Reviewing(V, "pending", [v \in Clips |-> NoMark])

Draft(v, m) == Reviewing({v}, "in_progress", [w \in Clips |-> m])

Submit(v, m) == Reviewing({v}, "submitted", [w \in Clips |-> m])

\* Drafts are submitted as they were saved.
SubmitDrafts(V) ==
  /\ \A v \in V : review[v] = "in_progress"
  /\ Reviewing(V, "submitted", mark)

Evaluating(v, status) ==
  /\ ai' = [w \in Clips |-> IF w = v THEN status ELSE ai[w]]
  /\ UNCHANGED <<review, mark>>

\* One evaluation at a time.
Begin(v) == ai[v] # "processing" /\ Evaluating(v, "processing")

Conclude(v) ==
  /\ ai[v] = "processing"
  /\ Evaluating(v, "completed") \/ Evaluating(v, "failed")

Init ==
  /\ review = [v \in Clips |-> "pending"]
  /\ mark = [v \in Clips |-> NoMark]
  /\ ai = [v \in Clips |-> "pending"]
  /\ overall = [v \in Clips |-> "pending"]
  /\ complete = [v \in Clips |-> FALSE]

Next ==
  /\ \/ \E V \in SUBSET Clips : Assign(V) \/ SubmitDrafts(V)
     \/ \E v \in Clips, m \in Marks : Draft(v, m) \/ Submit(v, m)
     \/ \E v \in Clips : Begin(v) \/ Conclude(v)
  /\ Summarised

Lifecycle == Init /\ [][Next]_lifecycleVars
=============================================================================
