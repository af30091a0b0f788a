------------------------------- MODULE Dealing -------------------------------
(***************************************************************************)
(* Who reviews which video (internal/modules/scoring/service.go): an       *)
(* assignment deals the videos out in turn or as the caller wrote down, a  *)
(* reassignment shuffles them and deals them out in turn or by quantities. *)
(*                                                                         *)
(* A deal is asked with the videos as the caller lists them.  The database *)
(* returns the scorers in an order of its own.                             *)
(***************************************************************************)
EXTENDS Naturals, Sequences, SequencesExt, Sums

CONSTANTS
  DealtVideos,     \* videos of the task that may be assigned
  DealtScorers,    \* scorers who may be assigned
  MaxListed        \* bound: entries of a list in a request

ASSUME DealingAssumption == IsFiniteSet(DealtScorers) /\ MaxListed \in Nat

VARIABLE deal   \* a request, and its outcome

SeqsUpTo(S, n) == UNION {[1..k -> S] : k \in 1..n}

\* The orders in which the elements of S can be listed.
Orders(S) == {f \in [1..Cardinality(S) -> S] : \A i, j \in DOMAIN f : f[i] = f[j] => i = j}

\* "plan": pairs of a video and its scorer, or of a scorer and a quantity.
Request(strategy, videos, scorers, plan) ==
  [phase |-> "asked", strategy |-> strategy, videos |-> videos, scorers |-> scorers,
   plan |-> plan, to |-> <<>>]

DealRest == deal = [phase |-> "none"]

DealingInit ==
  \E videos \in SeqsUpTo(DealtVideos, MaxListed), scorers \in (SUBSET DealtScorers) \ {{}} :
    \/ \E strategy \in {"average", "shuffled"} :
         deal = Request(strategy, videos, scorers, <<>>)
    \/ \E plan \in SeqsUpTo(DealtVideos \X DealtScorers, MaxListed) :
         deal = Request("specific", videos, scorers, plan)
    \/ \E plan \in SeqsUpTo(DealtScorers \X (0..MaxListed), 2) :
         deal = Request("quantity", videos, scorers, plan)
-----------------------------------------------------------------------------
Asked == ToSet(deal.videos)

Becomes(phase, to) ==
  deal' = [phase |-> phase, strategy |-> deal.strategy, videos |-> deal.videos,
           scorers |-> deal.scorers, plan |-> deal.plan, to |-> to]

Refuse == Becomes("refused", <<>>)

\* buildAssignments, average: a video listed twice is dealt twice, the last time counts.
DealInTurn ==
  /\ deal.phase = "asked" /\ deal.strategy = "average"
  /\ \E order \in Orders(deal.scorers) :
       Becomes("dealt", [v \in Asked |->
         order[((Max({i \in DOMAIN deal.videos : deal.videos[i] = v}) - 1) % Len(order)) + 1]])

\* buildAssignments, specific.
DealAsWritten ==
  /\ deal.phase = "asked" /\ deal.strategy = "specific"
  /\ IF /\ \A i \in DOMAIN deal.plan : deal.plan[i][1] \in Asked
                                       /\ deal.plan[i][2] \in deal.scorers
        /\ \A v \in Asked : \E i \in DOMAIN deal.plan : deal.plan[i][1] = v
     THEN Becomes("dealt", [v \in Asked |->
            deal.plan[Max({i \in DOMAIN deal.plan : deal.plan[i][1] = v})][2]])
     ELSE Refuse

PlaceOf(cards, v) == CHOOSE i \in DOMAIN cards : cards[i] = v

\* buildReassignments, average: the videos, each once, in an order drawn by lot.
DealShuffled ==
  /\ deal.phase = "asked" /\ deal.strategy = "shuffled"
  /\ \E order \in Orders(deal.scorers), cards \in Orders(Asked) :
       Becomes("dealt", [v \in Asked |->
         order[((PlaceOf(cards, v) - 1) % Len(order)) + 1]])

Quantities(plan) == [i \in 1..Len(plan) |-> plan[i][2]]

\* Mutated: repeated scorers pass the validation.
QuantitiesOfAnybody ==
  /\ \A i \in DOMAIN deal.plan : deal.plan[i][2] > 0 /\ deal.plan[i][1] \in deal.scorers
  /\ Added(Quantities(deal.plan)) = Cardinality(Asked)

\* validateReassignPendingVideosInput
QuantitiesAreValid ==
  /\ \A i \in DOMAIN deal.plan : deal.plan[i][2] > 0 /\ deal.plan[i][1] \in deal.scorers
  /\ \A i, j \in DOMAIN deal.plan : deal.plan[i][1] = deal.plan[j][1] => i = j
  /\ Added(Quantities(deal.plan)) = Cardinality(Asked)

\* The entry whose quantity the p-th card falls in.
EntryFor(p) ==
  LET given == Sums(Quantities(deal.plan))
  IN  CHOOSE k \in DOMAIN deal.plan : given[k - 1] < p /\ p <= given[k]

\* buildReassignments, quantity: a slice of the shuffled videos for each entry.
DealByQuantity ==
  /\ deal.phase = "asked" /\ deal.strategy = "quantity"
  /\ IF QuantitiesAreValid
     THEN \E cards \in Orders(Asked) :
            Becomes("dealt", [v \in Asked |-> deal.plan[EntryFor(PlaceOf(cards, v))][1]])
     ELSE Refuse

DealingNext == DealInTurn \/ DealAsWritten \/ DealShuffled \/ DealByQuantity

DealingSpec == DealingInit /\ [][DealingNext]_deal
-----------------------------------------------------------------------------
ShareOf(s) == Cardinality({v \in Asked : deal.to[v] = s})

\* A deal gives every video it was asked for to one of the scorers.  Dealt out in turn
\* (without repetitions in the request, if it is not shuffled), the shares of two
\* scorers differ by one video at most; by quantities, each scorer has the quantity the
\* caller wrote; as written, every video goes where some entry sends it.
DealIsFair ==
  deal.phase = "dealt" =>
    /\ DOMAIN deal.to = Asked
    /\ \A v \in Asked : deal.to[v] \in deal.scorers
    /\ \/ deal.strategy = "shuffled"
       \/ deal.strategy = "average" /\ Len(deal.videos) = Cardinality(Asked)
       => \A s, t \in deal.scorers : ShareOf(s) <= ShareOf(t) + 1
    /\ deal.strategy = "quantity" =>
         \A i \in DOMAIN deal.plan : ShareOf(deal.plan[i][1]) = deal.plan[i][2]
    /\ deal.strategy = "specific" =>
         \A v \in Asked : \E i \in DOMAIN deal.plan : deal.plan[i] = <<v, deal.to[v]>>
=============================================================================
