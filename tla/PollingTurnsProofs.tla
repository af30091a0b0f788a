------------------------- MODULE PollingTurnsProofs -------------------------
(***************************************************************************)
(* Theorems of PollingTurns: the poller's queue is fair, for any number of *)
(* evaluations, any batch size, and whatever the creations, the reviews    *)
(* and the provider do.                                                    *)
(***************************************************************************)
EXTENDS PollingTurns, VideoScoringProofs, FiniteSetTheorems,
        WellFoundedInduction

(***************************************************************************)
(* The inductive invariant: each round that passed an evaluation over, and *)
(* each one still ahead of it, is accounted for by one that was ahead of   *)
(* it from the beginning, by a failed poll, or by a poll under way ahead   *)
(* of it.                                                                  *)
(***************************************************************************)

RanksDiffer == \A e, f \in EvalId : rank[e] = rank[f] => e = f

\* The evaluations ahead of e that the round under way polls.
BusyAhead(e) == {f \in Ahead(e) : poll[f].phase # "idle"}

Accounted(e) ==
  BatchSize * wait[e].skipped + Cardinality(Ahead(e))
    <= wait[e].before + wait[e].errors + Cardinality(BusyAhead(e))

TurnsInv ==
  /\ AIInv
  /\ RanksDiffer
  /\ wait \in [EvalId -> Wait]
  /\ \A e \in Waiting : Accounted(e)
-----------------------------------------------------------------------------
(***************************************************************************)
(* The sets that are counted.                                              *)
(***************************************************************************)

LEMMA QueueIsFinite ==
  /\ IsFiniteSet(Waiting) /\ Waiting \subseteq EvalId
  /\ \A e \in EvalId : IsFiniteSet(Ahead(e)) /\ IsFiniteSet(BusyAhead(e))
<1>1. IsFiniteSet(EvalId)
  BY FS_Interval, VideoRowAssumption DEF EvalId
<1>2. Waiting \subseteq EvalId
  BY DEF Waiting, Created
<1>3. IsFiniteSet(Waiting)
  BY <1>1, <1>2, FS_Subset
<1>4. ASSUME NEW e \in EvalId
      PROVE  IsFiniteSet(Ahead(e)) /\ IsFiniteSet(BusyAhead(e))
  <2>1. Ahead(e) \subseteq Waiting /\ BusyAhead(e) \subseteq Waiting
    BY DEF Ahead, BusyAhead
  <2> QED
    BY <1>3, <2>1, FS_Subset
<1> QED
  BY <1>2, <1>3, <1>4

LEMMA CountsAreNumbers ==
  ASSUME NEW e \in EvalId
  PROVE  Cardinality(Ahead(e)) \in Nat /\ Cardinality(BusyAhead(e)) \in Nat
BY QueueIsFinite, FS_CardinalityType
-----------------------------------------------------------------------------
(***************************************************************************)
(* A round takes the front of the queue.                                   *)
(***************************************************************************)

\* A set of evaluations has one that was updated before the others.
LEMMA FirstExists ==
  ASSUME rank \in [EvalId -> EvalId], NEW S \in SUBSET EvalId, S # {}
  PROVE  \E e \in S : \A f \in S : rank[e] <= rank[f]
<1> DEFINE R == OpToRel(<, Nat)
           T == {rank[e] : e \in S}
<1>1. T \subseteq Nat /\ T # {}
  <2>1. \A e \in S : rank[e] \in Nat
    BY VideoRowAssumption DEF EvalId
  <2> QED
    BY <2>1
<1>2. IsWellFoundedOn(R, Nat)
  BY NatLessThanWellFounded
<1> HIDE DEF R, T
<1>3. PICK x \in T : \A y \in T : ~ (<<y, x>> \in R)
  BY <1>1, <1>2, WFMin
<1>4. \A y \in T : ~ (y < x)
  BY <1>1, <1>3 DEF R, OpToRel
<1>5. PICK e \in S : x = rank[e]
  BY DEF T
<1>6. \A f \in S : rank[f] \in T
  BY DEF T
<1>7. \A f \in S : rank[f] \in Nat /\ ~ (rank[f] < x)
  BY <1>1, <1>4, <1>6
<1>8. rank[e] \in Nat
  BY <1>7
<1> QED
  BY <1>5, <1>7, <1>8

\* Whoever is passed over is behind a whole batch.
LEMMA PassedOverByABatch ==
  ASSUME rank \in [EvalId -> EvalId], RanksDiffer, NEW e \in Waiting,
         e \notin ListPollingCandidates
  PROVE  /\ ListPollingCandidates \subseteq Ahead(e)
         /\ BatchSize <= Cardinality(ListPollingCandidates)
<1> DEFINE L == ListPollingCandidates
<1>1. BatchSize \in Nat /\ BatchSize <= Cardinality(Ahead(e)) /\ e \in EvalId
  BY QueueIsFinite, CountsAreNumbers, AIEvaluationAssumption DEF ListPollingCandidates
<1>2. L \subseteq Waiting
  BY DEF ListPollingCandidates
<1>3. L \subseteq Ahead(e)
  <2> SUFFICES ASSUME NEW f \in L, ~ (rank[f] < rank[e])
               PROVE  FALSE
    BY <1>2 DEF Ahead
  <2>1. f \in EvalId /\ f # e
    BY <1>2, QueueIsFinite
  <2>2. rank[e] < rank[f]
    BY <1>1, <2>1, VideoRowAssumption DEF RanksDiffer, EvalId
  <2>3. Ahead(e) \subseteq Ahead(f)
    <3> SUFFICES ASSUME NEW h \in Ahead(e)
                 PROVE  h \in Ahead(f)
      OBVIOUS
    <3>1. h \in Waiting /\ h \in EvalId /\ rank[h] < rank[e]
      BY QueueIsFinite DEF Ahead
    <3>2. rank[h] < rank[f]
      BY <1>1, <2>1, <2>2, <3>1, VideoRowAssumption DEF EvalId
    <3> QED
      BY <3>1, <3>2 DEF Ahead
  <2>4. Cardinality(Ahead(e)) <= Cardinality(Ahead(f))
    BY <2>1, <2>3, QueueIsFinite, FS_Subset
  <2>5. Cardinality(Ahead(f)) < BatchSize
    BY DEF ListPollingCandidates
  <2> QED
    BY <1>1, <2>1, <2>4, <2>5, CountsAreNumbers
<1>4. IsFiniteSet(L) /\ Cardinality(L) \in Nat
  BY <1>2, QueueIsFinite, FS_Subset, FS_CardinalityType
<1>5. ASSUME Cardinality(L) < BatchSize
      PROVE  FALSE
  <2> DEFINE S == Ahead(e) \ L
  <2>1. S \subseteq EvalId /\ S # {}
    <3>1. Ahead(e) \subseteq EvalId
      BY QueueIsFinite DEF Ahead
    <3>2. Ahead(e) # L
      BY <1>1, <1>4, <1>5, CountsAreNumbers
    <3> QED
      BY <1>3, <3>1, <3>2
  <2>2. PICK g \in S : \A f \in S : rank[g] <= rank[f]
    BY <2>1, FirstExists
  <2>3. g \in Waiting /\ g \in EvalId /\ rank[g] < rank[e]
    BY <2>1 DEF Ahead
  <2>4. Ahead(g) \subseteq L
    <3> SUFFICES ASSUME NEW f \in Ahead(g), f \notin L
                 PROVE  FALSE
      OBVIOUS
    <3>1. f \in Waiting /\ f \in EvalId /\ rank[f] < rank[g]
      BY QueueIsFinite DEF Ahead
    <3>2. rank[f] < rank[e]
      BY <1>1, <2>3, <3>1, VideoRowAssumption DEF EvalId
    <3>3. f \in S
      BY <3>1, <3>2 DEF Ahead
    <3> QED
      BY <2>2, <2>3, <3>1, <3>3, VideoRowAssumption DEF EvalId
  <2>5. Cardinality(Ahead(g)) <= Cardinality(L)
    BY <1>4, <2>4, FS_Subset
  <2>6. Cardinality(Ahead(g)) < BatchSize
    BY <1>1, <1>4, <1>5, <2>3, <2>5, CountsAreNumbers
  <2> QED
    BY <2>2, <2>3, <2>6 DEF ListPollingCandidates
<1> QED
  BY <1>1, <1>3, <1>4, <1>5
-----------------------------------------------------------------------------
(***************************************************************************)
(* An evaluation that is touched goes to the end; the others keep their    *)
(* order.                                                                  *)
(***************************************************************************)

LEMMA TouchOrder ==
  ASSUME rank \in [EvalId -> EvalId], RanksDiffer, NEW e \in EvalId, Touch(e)
  PROVE  /\ RanksDiffer'
         /\ \A f \in EvalId : f # e => rank'[f] < rank'[e]
         /\ \A f, g \in EvalId : f # e /\ g # e => (rank'[f] < rank'[g] <=> rank[f] < rank[g])
<1>1. \A f \in EvalId : /\ rank[f] \in 1..MaxEvals
                        /\ f # e => rank[f] # rank[e]
  BY DEF EvalId, RanksDiffer
<1>2. MaxEvals \in Nat
  BY VideoRowAssumption
<1>3. /\ rank'[e] = MaxEvals
      /\ \A f \in EvalId : f # e =>
           rank'[f] = IF rank[f] > rank[e] THEN rank[f] - 1 ELSE rank[f]
  BY DEF Touch
<1>4. ASSUME NEW f \in EvalId, f # e
      PROVE  rank'[f] < rank'[e] /\ rank'[f] \in Nat
  <2>1. /\ rank[f] \in 1..MaxEvals /\ rank[e] \in 1..MaxEvals /\ rank[f] # rank[e]
        /\ rank'[f] = IF rank[f] > rank[e] THEN rank[f] - 1 ELSE rank[f]
    BY <1>1, <1>3, <1>4
  <2> QED
    BY <1>2, <1>3, <2>1
<1>5. ASSUME NEW f \in EvalId, NEW g \in EvalId, f # e, g # e
      PROVE  /\ rank'[f] < rank'[g] <=> rank[f] < rank[g]
             /\ rank'[f] = rank'[g] => rank[f] = rank[g]
  <2>1. /\ rank[f] \in 1..MaxEvals /\ rank[g] \in 1..MaxEvals /\ rank[e] \in 1..MaxEvals
        /\ rank[f] # rank[e] /\ rank[g] # rank[e]
        /\ rank'[f] = IF rank[f] > rank[e] THEN rank[f] - 1 ELSE rank[f]
        /\ rank'[g] = IF rank[g] > rank[e] THEN rank[g] - 1 ELSE rank[g]
    BY <1>1, <1>3, <1>5
  <2> QED
    BY <1>2, <2>1
<1>6. RanksDiffer'
  <2> SUFFICES ASSUME NEW f \in EvalId, NEW g \in EvalId, rank'[f] = rank'[g]
               PROVE  f = g
    BY DEF RanksDiffer
  <2>1. CASE f # e /\ g # e
    BY <1>5, <2>1 DEF RanksDiffer
  <2>2. CASE f = e \/ g = e
    <3>1. f # e => rank'[f] < rank'[e] /\ rank'[f] \in Nat
      BY <1>4
    <3>2. g # e => rank'[g] < rank'[e] /\ rank'[g] \in Nat
      BY <1>4
    <3> QED
      BY <1>2, <1>3, <2>2, <3>1, <3>2
  <2> QED
    BY <2>1, <2>2
<1> QED
  BY <1>4, <1>5, <1>6
-----------------------------------------------------------------------------
(***************************************************************************)
(* The kinds of steps.                                                     *)
(***************************************************************************)

\* Nobody comes, goes or is touched.
LEMMA NothingMoves ==
  ASSUME TurnsInv, Waiting' = Waiting, rank' = rank, wait' = wait,
         \A e \in EvalId : poll'[e].phase = "idle" <=> poll[e].phase = "idle"
  PROVE  \A e \in Waiting' : Accounted(e)'
<1> SUFFICES ASSUME NEW e \in Waiting PROVE Accounted(e)'
  OBVIOUS
<1>1. Ahead(e)' = Ahead(e)
  BY DEF Ahead
<1>2. BusyAhead(e)' = BusyAhead(e)
  BY <1>1, QueueIsFinite DEF BusyAhead, Ahead
<1> QED
  BY <1>1, <1>2 DEF TurnsInv, Accounted

\* One evaluation that does not wait before or after the step is touched.
LEMMA StrangerMoves ==
  ASSUME TurnsInv, NEW x \in EvalId, Touch(x), x \notin Waiting, Waiting' = Waiting,
         wait' = wait, poll' = poll
  PROVE  \A e \in Waiting' : Accounted(e)'
<1> SUFFICES ASSUME NEW e \in Waiting PROVE Accounted(e)'
  OBVIOUS
<1>1. rank \in [EvalId -> EvalId]
  BY DEF TurnsInv, AIInv, TypeOK, AITypeOK
<1>2. Ahead(e)' = Ahead(e)
  BY <1>1, TouchOrder, QueueIsFinite DEF TurnsInv, Ahead
<1>3. BusyAhead(e)' = BusyAhead(e)
  BY <1>2 DEF BusyAhead
<1> QED
  BY <1>2, <1>3 DEF TurnsInv, Accounted

\* One evaluation leaves the queue or goes to its end, and the others lose at most
\* one that was being polled.
LEMMA OneMoves ==
  ASSUME TurnsInv, NEW x \in EvalId, Touch(x), x \in Waiting => poll[x].phase # "idle",
         \A f \in EvalId : f # x => (f \in Waiting' <=> f \in Waiting),
         \A f \in EvalId : f # x => poll'[f] = poll[f],
         NEW e \in Waiting', e # x, wait'[e] = wait[e]
  PROVE  Accounted(e)'
<1>1. rank \in [EvalId -> EvalId]
  BY DEF TurnsInv, AIInv, TypeOK, AITypeOK
<1>2. Waiting \subseteq EvalId /\ Waiting' \subseteq EvalId
  BY DEF Waiting, Created
<1>3. e \in Waiting /\ e \in EvalId
  BY <1>2
<1>4. Ahead(e)' = Ahead(e) \ {x}
  <2>1. ASSUME NEW f \in EvalId, f # x
        PROVE  f \in Ahead(e)' <=> f \in Ahead(e)
    BY <1>1, <1>3, <2>1, TouchOrder DEF TurnsInv, Ahead
  <2>2. x \notin Ahead(e)'
    <3>1. rank'[e] < rank'[x]
      BY <1>1, <1>3, TouchOrder DEF TurnsInv
    <3>2. rank'[e] \in EvalId /\ rank'[x] \in EvalId
      BY <1>1, <1>3, TouchType
    <3>3. rank'[e] \in Nat /\ rank'[x] \in Nat
      BY <3>2, VideoRowAssumption DEF EvalId
    <3> QED
      BY <3>1, <3>3 DEF Ahead
  <2>3. Ahead(e) \subseteq EvalId /\ Ahead(e)' \subseteq EvalId
    BY <1>2 DEF Ahead
  <2> QED
    BY <2>1, <2>2, <2>3
<1>5. BusyAhead(e)' = BusyAhead(e) \ {x}
  <2>1. Ahead(e) \subseteq EvalId
    BY <1>2 DEF Ahead
  <2> QED
    BY <1>4, <2>1 DEF BusyAhead
<1>6. x \in Ahead(e) <=> x \in BusyAhead(e)
  BY DEF Ahead, BusyAhead
<1>7. IsFiniteSet(Ahead(e)) /\ BusyAhead(e) \subseteq Ahead(e)
  BY <1>3, QueueIsFinite DEF BusyAhead
<1>8. /\ Cardinality(Ahead(e)) \in Nat /\ Cardinality(BusyAhead(e)) \in Nat
      /\ Cardinality(Ahead(e))' \in Nat /\ Cardinality(BusyAhead(e))' \in Nat
      /\ Cardinality(Ahead(e))' + Cardinality(BusyAhead(e))
           = Cardinality(Ahead(e)) + Cardinality(BusyAhead(e))'
  <2> DEFINE A == Ahead(e)
             B == BusyAhead(e)
  <2>1. /\ Cardinality(A) \in Nat /\ Cardinality(B) \in Nat
        /\ Cardinality(A \ {x}) \in Nat /\ Cardinality(B \ {x}) \in Nat
        /\ Cardinality(A \ {x}) + Cardinality(B) = Cardinality(A) + Cardinality(B \ {x})
    <3>1. IsFiniteSet(A) /\ IsFiniteSet(B) /\ (x \in A <=> x \in B)
      BY <1>6, <1>7, FS_Subset
    <3> HIDE DEF A, B
    <3>2. /\ Cardinality(A \ {x}) = IF x \in A THEN Cardinality(A) - 1 ELSE Cardinality(A)
          /\ Cardinality(B \ {x}) = IF x \in B THEN Cardinality(B) - 1 ELSE Cardinality(B)
      BY <3>1, FS_RemoveElement
    <3>3. IsFiniteSet(A \ {x}) /\ IsFiniteSet(B \ {x})
      BY <3>1, FS_RemoveElement
    <3>4. /\ Cardinality(A) \in Nat /\ Cardinality(B) \in Nat
          /\ Cardinality(A \ {x}) \in Nat /\ Cardinality(B \ {x}) \in Nat
      BY <3>1, <3>3, FS_CardinalityType
    <3> QED
      BY <3>1, <3>2, <3>4
  <2>2. Cardinality(A)' = Cardinality(A \ {x}) /\ Cardinality(B)' = Cardinality(B \ {x})
    BY <1>4, <1>5
  <2> QED
    BY <2>1, <2>2
<1>9. wait[e] \in Wait /\ BatchSize \in Nat
  BY <1>3, AIEvaluationAssumption DEF TurnsInv
<1> PICK n \in Nat : n = BatchSize * wait[e].skipped
  BY <1>9 DEF Wait
<1>10. n + Cardinality(Ahead(e))
         <= wait[e].before + wait[e].errors + Cardinality(BusyAhead(e))
  BY <1>3 DEF TurnsInv, Accounted
<1>11. n + Cardinality(Ahead(e))'
         <= wait[e].before + wait[e].errors + Cardinality(BusyAhead(e))'
  BY <1>8, <1>9, <1>10 DEF Wait
<1> QED
  BY <1>11 DEF Accounted
-----------------------------------------------------------------------------
(***************************************************************************)
(* The steps.                                                              *)
(***************************************************************************)

\* Whoever takes its place finds the whole queue ahead of it, and owes nothing.
LEMMA PlaceIsTaken ==
  ASSUME TurnsInv, NEW x \in EvalId, Touch(x), TakesPlace(x), Waiting' = Waiting \cup {x}
  PROVE  /\ wait' \in [EvalId -> Wait]
         /\ \A e \in EvalId : e # x => wait'[e] = wait[e]
         /\ Accounted(x)'
<1> DEFINE n == Cardinality(Waiting \ {x})
<1>1. rank \in [EvalId -> EvalId] /\ wait \in [EvalId -> Wait]
  BY DEF TurnsInv, AIInv, TypeOK, AITypeOK
<1>2. n \in Nat
  BY QueueIsFinite, FS_RemoveElement, FS_CardinalityType
<1>3. wait' = [wait EXCEPT ![x] = [before |-> n, skipped |-> 0, errors |-> 0]]
  BY DEF TakesPlace
<1>4. Ahead(x)' = Waiting \ {x}
  <2>1. Waiting \subseteq EvalId
    BY QueueIsFinite
  <2>2. \A f \in EvalId : f # x => rank'[f] < rank'[x]
    BY <1>1, TouchOrder DEF TurnsInv
  <2>3. ~ (rank'[x] < rank'[x])
    <3>1. rank'[x] \in EvalId
      BY <1>1, TouchType
    <3>2. rank'[x] \in Nat
      BY <3>1, VideoRowAssumption DEF EvalId
    <3> QED
      BY <3>2
  <2>4. \A f \in Waiting' : rank'[f] < rank'[x] <=> f # x
    BY <2>1, <2>2, <2>3
  <2>5. Ahead(x)' = {f \in Waiting' : rank'[f] < rank'[x]}
    BY DEF Ahead
  <2> QED
    BY <2>4, <2>5
<1>5. Cardinality(Ahead(x))' = n
  BY <1>4
<1>6. Cardinality(BusyAhead(x))' \in Nat
  <2>1. BusyAhead(x)' \subseteq Waiting
    BY <1>4 DEF BusyAhead
  <2>2. IsFiniteSet(BusyAhead(x)')
    BY <2>1, QueueIsFinite, FS_Subset
  <2> QED
    BY <2>2, FS_CardinalityType
<1> HIDE DEF n
<1>7. wait'[x].before = n /\ wait'[x].skipped = 0 /\ wait'[x].errors = 0
  BY <1>1, <1>3
<1>8. BatchSize * wait'[x].skipped = 0
  BY <1>7, AIEvaluationAssumption
<1>9. Accounted(x)'
  BY <1>2, <1>5, <1>6, <1>7, <1>8 DEF Accounted
<1>10. wait' \in [EvalId -> Wait] /\ \A e \in EvalId : e # x => wait'[e] = wait[e]
  BY <1>1, <1>2, <1>3 DEF Wait
<1> QED
  BY <1>9, <1>10

\* A creation's step.
LEMMA CreationTurns ==
  ASSUME TurnsInv, NEW c \in Creators,
         JoinQueue(c) \/ (CreationGoesOn(c) /\ UNCHANGED wait)
  PROVE  RanksDiffer' /\ wait' \in [EvalId -> Wait] /\ \A e \in Waiting' : Accounted(e)'
<1>1. /\ rank \in [EvalId -> EvalId] /\ evaluation \in [EvalId -> Evaluation]
      /\ wait \in [EvalId -> Wait] /\ RanksDiffer /\ HandlersOwnTheirEvaluation
  BY DEF TurnsInv, AIInv, TypeOK, AITypeOK
<1>2. CASE JoinQueue(c)
  <2> PICK x \in EvalId : x = creation[c].eval
    BY <1>1, <1>2 DEF JoinQueue, DispatchCreateJob, HandlersOwnTheirEvaluation, Created
  <2>1. /\ x \in Created /\ evaluation[x].status = "processing"
        /\ x \notin Waiting
    BY <1>1, <1>2 DEF JoinQueue, DispatchCreateJob, HandlersOwnTheirEvaluation, Created, Waiting
  <2>2. /\ evaluation' = [evaluation EXCEPT ![x].hasJob = TRUE]
        /\ Touch(x) /\ TakesPlace(x) /\ poll' = poll
    BY <1>2 DEF JoinQueue, DispatchCreateJob
  <2>3. Waiting' = Waiting \cup {x}
    BY <1>1, <2>1, <2>2 DEF Waiting, Created, Evaluation
  <2>4. /\ wait' \in [EvalId -> Wait]
        /\ \A e \in EvalId : e # x => wait'[e] = wait[e]
        /\ Accounted(x)'
    BY <2>1, <2>2, <2>3, PlaceIsTaken
  <2>5. ASSUME NEW e \in Waiting', e # x PROVE Accounted(e)'
    <3>1. e \in EvalId
      BY <2>1, <2>3, <2>5, QueueIsFinite
    <3>2. \A f \in EvalId : f # x => (f \in Waiting' <=> f \in Waiting)
      BY <2>3
    <3>3. \A f \in EvalId : f # x => poll'[f] = poll[f]
      BY <2>2
    <3> QED
      BY <2>1, <2>2, <2>4, <2>5, <3>1, <3>2, <3>3, OneMoves
  <2>6. RanksDiffer'
    BY <1>1, <2>1, <2>2, TouchOrder
  <2> QED
    BY <2>4, <2>5, <2>6
<1>3. CASE CreationGoesOn(c) /\ UNCHANGED wait
  <2>1. CASE \/ \E v \in Videos, force \in BOOLEAN : LoadVideo(c, v, force)
             \/ CheckLatest(c) \/ DispatchFails(c) \/ CreationStops(c)
    <3>1. UNCHANGED <<evaluation, rank, poll>>
      BY <2>1 DEF LoadVideo, CheckLatest, DispatchFails, CreationStops
    <3>2. Waiting' = Waiting /\ RanksDiffer'
      BY <1>1, <3>1 DEF Waiting, Created, RanksDiffer
    <3> QED
      BY <1>1, <1>3, <3>1, <3>2, NothingMoves
  <2>2. CASE CreateAndMarkVideoProcessing(c)
    <3>1. PICK x \in EvalId \ Created :
            /\ evaluation' = [evaluation EXCEPT ![x] =
                 [video |-> creation[c].video, status |-> "processing",
                  hasJob |-> FALSE, score |-> 0]]
            /\ Touch(x)
      BY <2>2 DEF CreateAndMarkVideoProcessing
    <3>2. x \notin Waiting /\ poll' = poll
      BY <2>2, <3>1 DEF Waiting, CreateAndMarkVideoProcessing
    <3>3. Waiting' = Waiting
      BY <1>1, <3>1, <3>2 DEF Waiting, Created
    <3> QED
      BY <1>1, <1>3, <3>1, <3>2, <3>3, StrangerMoves, TouchOrder
  <2>3. CASE FailDispatched(c)
    <3> PICK x \in EvalId : x = creation[c].eval
      BY <1>1, <2>3 DEF FailDispatched, HandlersOwnTheirEvaluation, Created
    <3>1. /\ x \notin Waiting /\ ~ evaluation[x].hasJob
      BY <1>1, <2>3 DEF FailDispatched, HandlersOwnTheirEvaluation, Created, Waiting
    <3>2. /\ evaluation' = [evaluation EXCEPT ![x].status = "failed"]
          /\ Touch(x) /\ poll' = poll
      BY <2>3 DEF FailDispatched
    <3>3. Waiting' = Waiting
      BY <1>1, <3>1, <3>2 DEF Waiting, Created, Evaluation
    <3> QED
      BY <1>1, <1>3, <3>1, <3>2, <3>3, StrangerMoves, TouchOrder
  <2> QED
    BY <1>3, <2>1, <2>2, <2>3 DEF CreationGoesOn
<1> QED
  BY <1>2, <1>3

\* A poll that fails leaves the queue as it is and is counted for all behind it.
LEMMA FailedPollTurns ==
  ASSUME TurnsInv, NEW x \in EvalId, PollFails(x)
  PROVE  RanksDiffer' /\ wait' \in [EvalId -> Wait] /\ \A e \in Waiting' : Accounted(e)'
<1>1. /\ wait \in [EvalId -> Wait] /\ poll \in [EvalId -> Poll] /\ RanksDiffer
      /\ HandlersOwnTheirEvaluation /\ BatchSize \in Nat
  BY AIEvaluationAssumption DEF TurnsInv, AIInv, TypeOK, AITypeOK
<1>2. /\ poll[x].phase # "idle"
      /\ poll' = [poll EXCEPT ![x] = NoPoll]
      /\ UNCHANGED <<evaluation, rank>>
      /\ wait' = [f \in EvalId |-> IF f \in Behind(x)
                                   THEN [wait[f] EXCEPT !.errors = @ + 1] ELSE wait[f]]
  BY DEF PollFails, PollStops
<1>3. wait' \in [EvalId -> Wait]
  <2>1. ASSUME NEW f \in EvalId PROVE [wait[f] EXCEPT !.errors = @ + 1] \in Wait
    BY <1>1 DEF Wait
  <2> QED
    BY <1>1, <1>2, <2>1
<1>4. /\ RanksDiffer' /\ Waiting' = Waiting
      /\ \A e : Ahead(e)' = Ahead(e)
  BY <1>1, <1>2 DEF RanksDiffer, Waiting, Created, Ahead
<1>5. ASSUME NEW e \in Waiting PROVE Accounted(e)'
  <2>1. e \in EvalId /\ wait[e] \in Wait /\ Accounted(e)
    BY <1>1, QueueIsFinite DEF TurnsInv
  <2>2. /\ Cardinality(Ahead(e)) \in Nat /\ Cardinality(BusyAhead(e)) \in Nat
        /\ IsFiniteSet(BusyAhead(e))
    BY <2>1, QueueIsFinite, CountsAreNumbers
  <2>3. BusyAhead(e)' = BusyAhead(e) \ {x}
    <3>1. Ahead(e) \subseteq EvalId
      BY QueueIsFinite DEF Ahead
    <3>2. poll'[x].phase = "idle" /\ \A f \in EvalId : f # x => poll'[f] = poll[f]
      BY <1>1, <1>2 DEF NoPoll
    <3> QED
      BY <1>4, <3>1, <3>2 DEF BusyAhead
  <2> PICK n \in Nat : n = BatchSize * wait[e].skipped
    BY <1>1, <2>1 DEF Wait
  <2>4. n + Cardinality(Ahead(e)) <= wait[e].before + wait[e].errors + Cardinality(BusyAhead(e))
    BY <2>1 DEF Accounted
  <2>5. CASE x \in Ahead(e)
    <3>1. x \in BusyAhead(e)
      BY <1>2, <2>5 DEF BusyAhead
    <3>2. Cardinality(BusyAhead(e))' = Cardinality(BusyAhead(e)) - 1
      BY <2>2, <2>3, <3>1, FS_RemoveElement
    <3>3. wait'[e] = [wait[e] EXCEPT !.errors = @ + 1]
      BY <1>2, <2>1, <2>5 DEF Behind
    <3>4. /\ wait'[e].before = wait[e].before /\ wait'[e].skipped = wait[e].skipped
          /\ wait'[e].errors = wait[e].errors + 1
      BY <2>1, <3>3 DEF Wait
    <3>5. n + Cardinality(Ahead(e))
            <= wait'[e].before + wait'[e].errors + Cardinality(BusyAhead(e))'
      BY <2>1, <2>2, <2>4, <3>2, <3>4 DEF Wait
    <3> QED
      BY <1>4, <3>4, <3>5 DEF Accounted
  <2>6. CASE x \notin Ahead(e)
    <3>1. BusyAhead(e)' = BusyAhead(e)
      BY <2>3, <2>6 DEF BusyAhead
    <3>2. wait'[e] = wait[e]
      BY <1>2, <2>1, <2>6 DEF Behind
    <3> QED
      BY <1>4, <2>1, <3>1, <3>2 DEF Accounted
  <2> QED
    BY <2>5, <2>6
<1> QED
  BY <1>3, <1>4, <1>5

\* The provider's and the poller's steps about one evaluation.
LEMMA PollTurns ==
  ASSUME TurnsInv, NEW x \in EvalId,
         StillProcessing(x) \/ PollFails(x) \/ (PollGoesOn(x) /\ UNCHANGED wait)
  PROVE  RanksDiffer' /\ wait' \in [EvalId -> Wait] /\ \A e \in Waiting' : Accounted(e)'
<1>1. /\ rank \in [EvalId -> EvalId] /\ evaluation \in [EvalId -> Evaluation]
      /\ wait \in [EvalId -> Wait] /\ RanksDiffer /\ HandlersOwnTheirEvaluation
      /\ poll \in [EvalId -> Poll]
  BY DEF TurnsInv, AIInv, TypeOK, AITypeOK
<1>2. CASE StillProcessing(x)
  <2>1. /\ x \in Waiting /\ poll[x].phase # "idle"
        /\ Touch(x) /\ TakesPlace(x) /\ evaluation' = evaluation
        /\ poll' = [poll EXCEPT ![x] = NoPoll]
    BY <1>1, <1>2
    DEF StillProcessing, MarkEvaluationProcessing, HandlersOwnTheirEvaluation, Created, Waiting
  <2>2. Waiting' = Waiting
    BY <2>1 DEF Waiting, Created
  <2>3. Waiting' = Waiting \cup {x}
    BY <2>1, <2>2
  <2>4. /\ wait' \in [EvalId -> Wait]
        /\ \A e \in EvalId : e # x => wait'[e] = wait[e]
        /\ Accounted(x)'
    BY <2>1, <2>3, PlaceIsTaken
  <2>5. ASSUME NEW e \in Waiting', e # x PROVE Accounted(e)'
    <3>1. e \in EvalId
      BY <2>2, QueueIsFinite
    <3>2. \A f \in EvalId : f # x => (f \in Waiting' <=> f \in Waiting)
      BY <2>2
    <3>3. \A f \in EvalId : f # x => poll'[f] = poll[f]
      BY <2>1
    <3> QED
      BY <2>1, <2>4, <2>5, <3>1, <3>2, <3>3, OneMoves
  <2>6. RanksDiffer'
    BY <1>1, <2>1, TouchOrder
  <2> QED
    BY <2>4, <2>5, <2>6
<1>3. CASE PollFails(x)
  BY <1>3, FailedPollTurns
<1>4. CASE PollGoesOn(x) /\ UNCHANGED wait
  <2>1. CASE \/ ProviderFinishes(x) \/ ProviderForgets(x) \/ GracePeriodEnds(x)
             \/ PollEvaluation(x)
    <3>1. UNCHANGED <<evaluation, rank>>
      BY <2>1 DEF ProviderFinishes, ProviderForgets, GracePeriodEnds, PollEvaluation
    <3>2. \A e \in EvalId : poll'[e].phase = "idle" <=> poll[e].phase = "idle"
      BY <1>1, <2>1 DEF ProviderFinishes, ProviderForgets, GracePeriodEnds, PollEvaluation
    <3>3. Waiting' = Waiting /\ RanksDiffer'
      BY <1>1, <3>1 DEF Waiting, Created, RanksDiffer
    <3> QED
      BY <1>1, <1>4, <3>1, <3>2, <3>3, NothingMoves
  <2>2. CASE CompleteEvaluation(x) \/ FailEvaluation(x)
    <3>1. /\ x \in Waiting /\ poll[x].phase # "idle" /\ Touch(x)
          /\ poll' = [poll EXCEPT ![x] = NoPoll]
          /\ \A f \in EvalId : f # x => evaluation'[f] = evaluation[f]
          /\ evaluation'[x].status \in {"completed", "failed"}
      BY <1>1, <2>2
      DEF CompleteEvaluation, FailEvaluation, HandlersOwnTheirEvaluation, Created, Waiting,
          Evaluation
    <3>2. \A f \in EvalId : f # x => (f \in Waiting' <=> f \in Waiting)
      BY <3>1 DEF Waiting, Created
    <3>3. x \notin Waiting'
      BY <3>1 DEF Waiting
    <3>4. \A f \in EvalId : f # x => poll'[f] = poll[f]
      BY <3>1
    <3>5. ASSUME NEW e \in Waiting' PROVE Accounted(e)'
      BY <1>4, <3>1, <3>2, <3>3, <3>4, <3>5, OneMoves
    <3>6. RanksDiffer'
      BY <1>1, <3>1, TouchOrder
    <3> QED
      BY <1>1, <1>4, <3>5, <3>6
  <2> QED
    BY <1>4, <2>1, <2>2 DEF PollGoesOn
<1> QED
  BY <1>2, <1>3, <1>4

\* A round passes an evaluation over only while it polls a whole batch ahead of it.
LEMMA RoundTurns ==
  ASSUME TurnsInv, PollRound
  PROVE  RanksDiffer' /\ wait' \in [EvalId -> Wait] /\ \A e \in Waiting' : Accounted(e)'
<1> DEFINE L == ListPollingCandidates
<1>1. /\ rank \in [EvalId -> EvalId] /\ wait \in [EvalId -> Wait] /\ RanksDiffer
      /\ BatchSize \in Nat
  BY AIEvaluationAssumption DEF TurnsInv, AIInv, TypeOK, AITypeOK
<1>2. /\ \A f \in EvalId : poll[f].phase = "idle"
      /\ \A f \in L : poll'[f].phase # "idle"
      /\ UNCHANGED <<evaluation, rank>>
      /\ wait' = [f \in EvalId |-> IF f \in Waiting \ L
                                   THEN [wait[f] EXCEPT !.skipped = @ + 1] ELSE wait[f]]
  <2>1. L \subseteq EvalId
    BY QueueIsFinite DEF ListPollingCandidates
  <2> QED
    BY <2>1 DEF PollRound, PollOnce, Idle, NoPoll
<1> HIDE DEF L
<1>3. wait' \in [EvalId -> Wait]
  <2>1. ASSUME NEW f \in EvalId PROVE [wait[f] EXCEPT !.skipped = @ + 1] \in Wait
    BY <1>1 DEF Wait
  <2> QED
    BY <1>1, <1>2, <2>1
<1>4. /\ RanksDiffer' /\ Waiting' = Waiting
      /\ \A e : Ahead(e)' = Ahead(e)
  BY <1>1, <1>2 DEF RanksDiffer, Waiting, Created, Ahead
<1>5. ASSUME NEW e \in Waiting PROVE Accounted(e)'
  <2>1. e \in EvalId /\ wait[e] \in Wait /\ Accounted(e)
    BY <1>1, QueueIsFinite DEF TurnsInv
  <2>2. Cardinality(Ahead(e)) \in Nat
    BY <2>1, CountsAreNumbers
  <2>3. Cardinality(BusyAhead(e)) = 0
    <3>1. BusyAhead(e) = {}
      BY <1>2, QueueIsFinite DEF BusyAhead, Ahead
    <3> QED
      BY <3>1, FS_EmptySet
  <2>4. IsFiniteSet(BusyAhead(e)') /\ Cardinality(BusyAhead(e))' \in Nat
    <3>1. BusyAhead(e)' \subseteq Waiting
      BY <1>4 DEF BusyAhead, Ahead
    <3>2. IsFiniteSet(BusyAhead(e)')
      BY <3>1, QueueIsFinite, FS_Subset
    <3> QED
      BY <3>2, FS_CardinalityType
  <2> PICK n \in Nat : n = BatchSize * wait[e].skipped
    BY <1>1, <2>1 DEF Wait
  <2>5. n + Cardinality(Ahead(e)) <= wait[e].before + wait[e].errors
    BY <2>1, <2>3 DEF Accounted, Wait
  <2>6. CASE e \in L
    <3>1. wait'[e] = wait[e]
      BY <1>2, <2>1, <2>6
    <3>2. n + Cardinality(Ahead(e))
            <= wait[e].before + wait[e].errors + Cardinality(BusyAhead(e))'
      BY <2>1, <2>2, <2>4, <2>5 DEF Wait
    <3> QED
      BY <1>4, <3>1, <3>2 DEF Accounted
  <2>7. CASE e \notin L
    <3>1. L \subseteq Ahead(e) /\ BatchSize <= Cardinality(L)
      BY <1>1, <2>7, PassedOverByABatch DEF L
    <3>2. L \subseteq BusyAhead(e)'
      BY <1>2, <1>4, <3>1 DEF BusyAhead
    <3>3. Cardinality(L) <= Cardinality(BusyAhead(e))' /\ Cardinality(L) \in Nat
      BY <2>4, <3>2, FS_Subset, FS_CardinalityType
    <3>4. wait'[e] = [wait[e] EXCEPT !.skipped = @ + 1]
      BY <1>2, <2>1, <2>7
    <3>5. /\ wait'[e].before = wait[e].before /\ wait'[e].errors = wait[e].errors
          /\ wait'[e].skipped = wait[e].skipped + 1
      BY <2>1, <3>4 DEF Wait
    <3>6. BatchSize * wait'[e].skipped = n + BatchSize
      <4> PICK k \in Nat : k = wait[e].skipped
        BY <2>1 DEF Wait
      <4>1. BatchSize * (k + 1) = BatchSize * k + BatchSize
        BY <1>1
      <4> QED
        BY <3>5, <4>1
    <3>7. n + BatchSize + Cardinality(Ahead(e))
            <= wait'[e].before + wait'[e].errors + Cardinality(BusyAhead(e))'
      BY <1>1, <2>1, <2>2, <2>4, <2>5, <3>1, <3>3, <3>5 DEF Wait
    <3> QED
      BY <1>4, <3>6, <3>7 DEF Accounted
  <2> QED
    BY <2>6, <2>7
<1> QED
  BY <1>3, <1>4, <1>5
-----------------------------------------------------------------------------
(***************************************************************************)
(* The theorem.                                                            *)
(***************************************************************************)

\* Beside the history variable, every step is one of VideoScoring.
LEMMA TurnsStep == [TurnsNext]_turnsVars => [Next]_vars
<1> SUFFICES ASSUME [TurnsNext]_turnsVars PROVE [Next]_vars
  OBVIOUS
<1>1. CASE ReviewNext /\ UNCHANGED <<aiVars, wait>>
  BY <1>1 DEF Next
<1>2. ASSUME UNCHANGED reviewVars, NEW c \in Creators,
             JoinQueue(c) \/ (CreationGoesOn(c) /\ UNCHANGED wait)
      PROVE  Next
  BY <1>2 DEF Next, AINext, CreationStep, JoinQueue, CreationGoesOn
<1>3. ASSUME UNCHANGED reviewVars, NEW e \in EvalId,
             StillProcessing(e) \/ PollFails(e) \/ (PollGoesOn(e) /\ UNCHANGED wait)
      PROVE  Next
  BY <1>3 DEF Next, AINext, PollStep, PollWrites, StillProcessing, PollFails, PollGoesOn
<1>4. CASE PollRound /\ UNCHANGED reviewVars
  BY <1>4 DEF Next, AINext, PollRound
<1>5. CASE UNCHANGED turnsVars
  BY <1>5 DEF turnsVars
<1> QED
  BY <1>1, <1>2, <1>3, <1>4, <1>5 DEF TurnsNext

LEMMA TurnsInvInit == TurnsInit => TurnsInv
<1> SUFFICES ASSUME TurnsInit PROVE TurnsInv
  OBVIOUS
<1>1. AIInv
  BY InitAIInv DEF TurnsInit
<1>2. RanksDiffer /\ Waiting = {}
  BY DEF TurnsInit, Init, AIInit, RanksDiffer, Waiting, Created, NoEvaluationYet
<1>3. wait \in [EvalId -> Wait]
  BY DEF TurnsInit, Wait
<1> QED
  BY <1>1, <1>2, <1>3 DEF TurnsInv

LEMMA TurnsInvStep == TurnsInv /\ [TurnsNext]_turnsVars => TurnsInv'
<1> SUFFICES ASSUME TurnsInv, [TurnsNext]_turnsVars PROVE TurnsInv'
  OBVIOUS
<1>1. AIInv'
  BY TurnsStep, NextAIInv DEF TurnsInv
<1>2. RanksDiffer' /\ wait' \in [EvalId -> Wait] /\ \A e \in Waiting' : Accounted(e)'
  <2>1. CASE UNCHANGED <<aiVars, wait>>
    <3>1. UNCHANGED <<evaluation, rank, poll, wait>>
      BY <2>1 DEF aiVars
    <3>2. Waiting' = Waiting /\ RanksDiffer' /\ wait' \in [EvalId -> Wait]
      BY <3>1 DEF TurnsInv, Waiting, Created, RanksDiffer
    <3> QED
      BY <3>1, <3>2, NothingMoves
  <2> QED
    BY <2>1, CreationTurns, PollTurns, RoundTurns DEF TurnsNext, turnsVars, vars
<1> QED
  BY <1>1, <1>2 DEF TurnsInv

\* The poller passes an evaluation over at most as often as the evaluations that were
\* in the queue before it, and the failed polls of evaluations ahead of it, make up
\* batches: for every batch size and every number of evaluations, creations and
\* reviews, nobody who comes or is answered later overtakes it.
THEOREM NobodyIsOvertaken == Turns => []TurnsComeRound
<1>1. TurnsInv => TurnsComeRound
  <2> SUFFICES ASSUME TurnsInv, NEW e \in Waiting
               PROVE  BatchSize * wait[e].skipped <= wait[e].before + wait[e].errors
    BY DEF TurnsComeRound
  <2>1. e \in EvalId /\ wait[e] \in Wait /\ Accounted(e) /\ BatchSize \in Nat
    BY QueueIsFinite, AIEvaluationAssumption DEF TurnsInv
  <2>2. /\ Cardinality(Ahead(e)) \in Nat /\ Cardinality(BusyAhead(e)) \in Nat
        /\ Cardinality(BusyAhead(e)) <= Cardinality(Ahead(e))
    <3>1. BusyAhead(e) \subseteq Ahead(e)
      BY DEF BusyAhead
    <3> QED
      BY <2>1, <3>1, QueueIsFinite, CountsAreNumbers, FS_Subset
  <2> PICK n \in Nat : n = BatchSize * wait[e].skipped
    BY <2>1 DEF Wait
  <2>3. n + Cardinality(Ahead(e)) <= wait[e].before + wait[e].errors + Cardinality(BusyAhead(e))
    BY <2>1 DEF Accounted
  <2> QED
    BY <2>1, <2>2, <2>3 DEF Wait
<1> QED
  BY <1>1, TurnsInvInit, TurnsInvStep, PTL DEF Turns
=============================================================================
