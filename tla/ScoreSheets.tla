----------------------------- MODULE ScoreSheets -----------------------------
(***************************************************************************)
(* How the evaluation provider turns what the model answered into the      *)
(* scores of a job (ai_eval_mock/runner.py, _normalize_result): every item *)
(* of the rubric is given a score, those of a group are added up, and      *)
(* those of the groups make the total.                                     *)
(*                                                                         *)
(* Scores are hundredths of a point and their arithmetic is exact, while   *)
(* the code computes with floats.  A ratio derived from a hash of the job  *)
(* and the item is any ratio of Ratios.                                    *)
(***************************************************************************)
EXTENDS Integers, Sequences, Sums

CONSTANTS
  Ratios,        \* bound: per cent of the full score, of 68..96
  Rubrics,       \* bound: rubrics
  RawScores      \* bound: what the model answers for an item

Rubric == [total : Nat, groups : Seq([full : Nat, items : Seq(Nat)])]

ASSUME ScoreSheetsAssumption ==
  Ratios \subseteq 68..96 /\ Rubrics \subseteq Rubric /\ RawScores \subseteq Int

VARIABLE sheet   \* a job: what it was asked, what the model answered, the result

Unscored == [given |-> FALSE, value |-> 0]

\* What an answer says of an item, and what the hash of the item is.
Answer == [raw : {Unscored} \cup [given : {TRUE}, value : RawScores], ratio : Ratios]

\* The answers of a group, of all groups.
AnswersOf(group) == [1..Len(group.items) -> Answer]

Answers(rubric) ==
  IF rubric.groups = <<>> THEN {<<>>}
  ELSE {f \in [1..Len(rubric.groups) -> UNION {AnswersOf(rubric.groups[g]) :
                                                 g \in 1..Len(rubric.groups)}] :
          \A g \in 1..Len(rubric.groups) : f[g] \in AnswersOf(rubric.groups[g])}

SheetRest == sheet = [phase |-> "none"]

ScoreSheetsInit ==
  \E rubric \in Rubrics :
    \E answers \in Answers(rubric), fallback \in {68, 92} :
      sheet = [phase |-> "answered", rubric |-> rubric, answers |-> answers,
               fallback |-> fallback]
-----------------------------------------------------------------------------
Least(x, y) == IF x <= y THEN x ELSE y

Clamp(value, max) == IF value < 0 THEN 0 ELSE Least(value, max)

\* Python's round of x / d: a half goes to the even neighbour.
RoundedQuotient(x, d) ==
  LET q == x \div d
      r == x % d
  IN  IF 2 * r > d \/ (2 * r = d /\ q % 2 = 1) THEN q + 1 ELSE q

\* Mutated: what exceeds the maximum after the rounding stays.
QuantizeUnclamped(value, max) == 50 * RoundedQuotient(Clamp(value, max), 50)

\* To the nearest half of a point, the maximum at most.
QuantizeHalf(value, max) == Clamp(50 * RoundedQuotient(Clamp(value, max), 50), max)

\* The score of an item: the answer's, or one made from the hash.
ItemScore(full, answer) ==
  QuantizeHalf(IF answer.raw.given THEN Clamp(answer.raw.value, full)
               ELSE RoundedQuotient(full * answer.ratio, 100), full)

\* _build_detail_groups: the score of a group comes from its items alone.
DetailGroup(group, answers) ==
  LET items == [i \in 1..Len(group.items) |-> ItemScore(group.items[i], answers[i])]
  IN  [full |-> group.full, items |-> items, score |-> QuantizeHalf(Added(items), group.full)]

DetailGroups(rubric, answers, fallback) ==
  IF rubric.groups = <<>>
  THEN <<[full |-> 10000, items |-> <<100 * fallback>>, score |-> 100 * fallback]>>
  ELSE [g \in 1..Len(rubric.groups) |-> DetailGroup(rubric.groups[g], answers[g])]

TotalOf(rubric, groups) ==
  Least(Added([g \in 1..Len(groups) |-> groups[g].score]), rubric.total)

\* The answer without its scores.
Discarded(answers) ==
  [g \in DOMAIN answers |->
     [i \in DOMAIN answers[g] |-> [answers[g][i] EXCEPT !.raw = Unscored]]]

\* A total of zero discards the scores of the model.
NormalizeResult ==
  /\ sheet.phase = "answered"
  /\ LET scored == DetailGroups(sheet.rubric, sheet.answers, sheet.fallback)
         discarded == DetailGroups(sheet.rubric, Discarded(sheet.answers), sheet.fallback)
         groups == IF TotalOf(sheet.rubric, scored) <= 0 /\ sheet.rubric.total > 0
                   THEN discarded ELSE scored
     IN  sheet' = [phase |-> "scored", rubric |-> sheet.rubric, answers |-> sheet.answers,
                   groups |-> groups, total |-> TotalOf(sheet.rubric, groups)]

ScoreSheetsSpec == ScoreSheetsInit /\ [][NormalizeResult]_sheet
-----------------------------------------------------------------------------
HalfStep(score, full) == 0 <= score /\ score <= full /\ (score % 50 = 0 \/ score = full)

Distance(x, y) == IF x <= y THEN y - x ELSE x - y

\* The model gave every item a quarter of a point at most, but for the items of
\* groups that are themselves worth no more and whose score may be rounded to nothing.
CameToNothing ==
  \A g \in DOMAIN sheet.answers : \A i \in DOMAIN sheet.answers[g] :
    LET group == sheet.rubric.groups[g]
        raw == sheet.answers[g][i].raw
    IN  group.full > 25 /\ raw.given => Clamp(raw.value, group.items[i]) <= 25

\* The scores of a job add up, whatever the model answered: an item has a half step of
\* its full score, a group has what its items come to within a quarter of a point, or
\* its own full score if that is less, and the total is their sum or the maximum.  What
\* the model gave an item is kept within a quarter of a point, unless the model gave
\* the video nothing at all.
SheetAddsUp ==
  sheet.phase = "scored" =>
    /\ sheet.total = Least(Added([g \in DOMAIN sheet.groups |-> sheet.groups[g].score]),
                           sheet.rubric.total)
    /\ \A g \in DOMAIN sheet.rubric.groups :
         LET group == sheet.groups[g]
             sum == Least(Added(group.items), group.full)
         IN  /\ HalfStep(group.score, group.full) /\ Distance(group.score, sum) <= 25
             /\ \A i \in DOMAIN group.items :
                  LET full == sheet.rubric.groups[g].items[i]
                      raw == sheet.answers[g][i].raw
                  IN  /\ HalfStep(group.items[i], full)
                      /\ raw.given /\ ~CameToNothing =>
                           Distance(group.items[i], Clamp(raw.value, full)) <= 25
=============================================================================
