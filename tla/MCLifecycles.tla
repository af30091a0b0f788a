---------------------------- MODULE MCLifecycles ----------------------------
(***************************************************************************)
(* The two lifecycles of a task, in two parts that share no state and of   *)
(* which the initial state chooses one: the evaluation of its videos, with *)
(* handlers that do not overlap, and its reports, with everything that may *)
(* go wrong with the totals they rely on.                                  *)
(***************************************************************************)
EXTENDS VideoScoring, TaskDelivery, TLC

CONSTANT t1

VARIABLE part

partsVars == <<part, vars, deliveryVars>>

AllInFirstTask == [v \in Clips |-> t1]

PartsInit ==
  /\ part \in {"evaluation", "reports"}
  /\ Init
  /\ DeliveryInit

PartsNext ==
  /\ UNCHANGED part
  /\ \/ part = "evaluation" /\ OneAtATime /\ UNCHANGED deliveryVars
     \/ part = "reports" /\ DeliveryNext /\ UNCHANGED vars

Lifecycles == PartsInit /\ [][PartsNext]_partsVars

Symmetry == Permutations(Scorers) \cup Permutations(Requests)
              \cup Permutations(Callers)
=============================================================================
