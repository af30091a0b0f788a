---------------------------- MODULE PollingTurns ----------------------------
(***************************************************************************)
(* How long an evaluation may have to wait for the poller.                 *)
(*                                                                         *)
(* Every round polls the BatchSize evaluations that were updated longest   *)
(* ago (ListPollingCandidates).  An evaluation joins the end of that queue *)
(* when its job id is stored and again whenever the provider answers that  *)
(* it is still at work (markEvaluationProcessing); a poll that fails leaves*)
(* updated_at alone, so it keeps its place at the front and takes the next *)
(* round, too.  A history variable beside VideoScoring counts, for each    *)
(* evaluation that waits, the rounds that passed it over and what may      *)
(* excuse them.                                                            *)
(***************************************************************************)
EXTENDS VideoScoring

CONSTANT MaxErrors   \* bound on the failed polls counted

ASSUME PollingTurnsAssumption == MaxErrors \in Nat

VARIABLE wait

turnsVars == <<vars, wait>>

\* Since the evaluation took its place in the queue:
Wait == [before  : Nat,    \* how many were in it already
         skipped : Nat,    \* the rounds that did not poll it
         errors  : Nat]    \* the failed polls of evaluations ahead of it

\* e takes its place at the end of the queue.
TakesPlace(e) ==
  wait' = [wait EXCEPT ![e] = [before  |-> Cardinality(Waiting \ {e}),
                               skipped |-> 0, errors |-> 0]]

TurnsInit ==
  /\ Init
  /\ wait = [e \in EvalId |-> [before |-> 0, skipped |-> 0, errors |-> 0]]
-----------------------------------------------------------------------------
JoinQueue(c) == DispatchCreateJob(c) /\ TakesPlace(creation[c].eval)

StillProcessing(e) == MarkEvaluationProcessing(e) /\ TakesPlace(e)

PollRound ==
  /\ PollOnce
  /\ wait' = [e \in EvalId |->
       IF e \in Waiting \ ListPollingCandidates
       THEN [wait[e] EXCEPT !.skipped = @ + 1]
       ELSE wait[e]]

\* Those that wait behind e.
Behind(e) == {f \in Waiting : e \in Ahead(f)}

PollFails(e) ==
  /\ PollStops(e)
  /\ \A f \in Behind(e) : wait[f].errors < MaxErrors
  /\ wait' = [f \in EvalId |->
       IF f \in Behind(e) THEN [wait[f] EXCEPT !.errors = @ + 1] ELSE wait[f]]

\* What neither takes a place, nor gives up a poll, nor begins a round.
CreationGoesOn(c) ==
  \/ \E v \in Videos, force \in BOOLEAN : LoadVideo(c, v, force)
  \/ CheckLatest(c)
  \/ CreateAndMarkVideoProcessing(c)
  \/ DispatchFails(c)
  \/ FailDispatched(c)
  \/ CreationStops(c)

PollGoesOn(e) ==
  \/ ProviderFinishes(e) \/ ProviderForgets(e) \/ GracePeriodEnds(e)
  \/ PollEvaluation(e)
  \/ CompleteEvaluation(e)
  \/ FailEvaluation(e)

TurnsNext ==
  \/ ReviewNext /\ UNCHANGED <<aiVars, wait>>
  \/ /\ UNCHANGED reviewVars
     /\ \/ \E c \in Creators : JoinQueue(c) \/ (CreationGoesOn(c) /\ UNCHANGED wait)
        \/ \E e \in EvalId : \/ StillProcessing(e)
                             \/ PollFails(e)
                             \/ PollGoesOn(e) /\ UNCHANGED wait
        \/ PollRound

Turns == TurnsInit /\ [][TurnsNext]_turnsVars
-----------------------------------------------------------------------------
(***************************************************************************)
(* Property.                                                               *)
(***************************************************************************)

\* An evaluation is passed over only for those that were in the queue before it
\* and for failed polls of those: BatchSize of them account for each round.
\* Whoever comes or answers later never overtakes it, so without failed polls it
\* is polled after before \div BatchSize further rounds; but each failed poll
\* ahead of it may cost it a place in one more round, and their number is not
\* bounded by the code.
TurnsComeRound ==
  \A e \in Waiting : BatchSize * wait[e].skipped <= wait[e].before + wait[e].errors
=============================================================================
