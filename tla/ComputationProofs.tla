------------------------- MODULE ComputationProofs -------------------------
(***************************************************************************)
(* Theorems of the three computations: ScoreSheets, for any rubrics and    *)
(* answers; RubricTemplate, for sheets of any rows; and Dealing, for any   *)
(* videos and scorers.                                                     *)
(*                                                                         *)
(* What a recursive function gives is proved by the least counterexample:  *)
(* of the numbers for which a claim fails there would be a least one.      *)
(***************************************************************************)
EXTENDS ScoreSheets, RubricTemplate, Dealing, FiniteSetTheorems,
        SequenceTheorems, WellFoundedInduction, TLAPS

LEMMA LeastOne ==
  ASSUME NEW T \in SUBSET Nat, T # {}
  PROVE  \E x \in T : \A y \in T : x <= y
<1>1. PICK x \in T : \A y \in T : ~ (<<y, x>> \in OpToRel(<, Nat))
  <2> DEFINE R == OpToRel(<, Nat)
  <2>1. IsWellFoundedOn(R, Nat)
    BY NatLessThanWellFounded
  <2> HIDE DEF R
  <2>2. \E x \in T : \A y \in T : ~ (<<y, x>> \in R)
    BY <2>1, WFMin
  <2> QED
    BY <2>2 DEF R
<1>2. \A y \in T : ~ (y < x)
  BY <1>1 DEF OpToRel
<1> QED
  BY <1>2

(***************************************************************************)
(* Sums.                                                                   *)
(***************************************************************************)

\* There is a function of the sums of a sequence.
LEMMA SumsUpTo ==
  ASSUME NEW s, NEW N \in Nat
  PROVE  \E f : f = [n \in 0..N |-> IF n = 0 THEN 0 ELSE f[n - 1] + s[n]]
<1> DEFINE Has(k) == \E f : f = [n \in 0..k |-> IF n = 0 THEN 0 ELSE f[n - 1] + s[n]]
           Without == {k \in Nat : ~ Has(k)}
<1> SUFFICES ASSUME ~ Has(N)
             PROVE  FALSE
  OBVIOUS
<1>1. PICK m \in Without : \A y \in Without : m <= y
  BY LeastOne
<1>2. m # 0
  <2>1. [n \in 0..0 |-> 0] = [n \in 0..0 |-> IF n = 0 THEN 0 ELSE [q \in 0..0 |-> 0][n - 1] + s[n]]
    OBVIOUS
  <2> QED
    BY <1>1, <2>1
<1>3. Has(m - 1)
  <2>1. m - 1 \in Nat /\ ~ (m <= m - 1)
    BY <1>2
  <2> HIDE DEF Has
  <2>2. m - 1 \notin Without
    BY <1>1, <2>1
  <2> QED
    BY <2>1, <2>2
<1>4. PICK g : g = [n \in 0..(m - 1) |-> IF n = 0 THEN 0 ELSE g[n - 1] + s[n]]
  BY <1>3
<1>5. PICK h : h = [n \in 0..m |-> IF n = m THEN g[m - 1] + s[m] ELSE g[n]]
  OBVIOUS
<1>6. h = [n \in 0..m |-> IF n = 0 THEN 0 ELSE h[n - 1] + s[n]]
  <2> SUFFICES ASSUME NEW n \in 0..m
               PROVE  h[n] = IF n = 0 THEN 0 ELSE h[n - 1] + s[n]
    BY <1>5
  <2> QED
    BY <1>1, <1>2, <1>4, <1>5
<1> QED
  BY <1>1, <1>6

LEMMA SumsFacts ==
  ASSUME NEW E, NEW s \in Seq(E)
  PROVE  /\ Sums(s)[0] = 0
         /\ \A n \in 1..Len(s) : Sums(s)[n] = Sums(s)[n - 1] + s[n]
<1>1. PICK N \in Nat : N = Len(s)
  OBVIOUS
<1>2. Sums(s) = CHOOSE f : f = [n \in 0..N |-> IF n = 0 THEN 0 ELSE f[n - 1] + s[n]]
  BY <1>1 DEF Sums
<1>3. \E f : f = [n \in 0..N |-> IF n = 0 THEN 0 ELSE f[n - 1] + s[n]]
  BY SumsUpTo
<1>4. Sums(s) = [n \in 0..N |-> IF n = 0 THEN 0 ELSE Sums(s)[n - 1] + s[n]]
  BY <1>2, <1>3
<1>5. Sums(s)[0] = 0
  BY <1>4
<1>6. ASSUME NEW n \in 1..N
      PROVE  Sums(s)[n] = Sums(s)[n - 1] + s[n]
  BY <1>4
<1> QED
  BY <1>1, <1>5, <1>6

\* Sums of numbers never fall.
LEMMA SumsType ==
  ASSUME NEW s \in Seq(Nat)
  PROVE  /\ \A n \in 0..Len(s) : Sums(s)[n] \in Nat
         /\ \A n \in 0..Len(s), m \in 0..Len(s) : m <= n => Sums(s)[m] <= Sums(s)[n]
<1>1. PICK N \in Nat : N = Len(s)
  OBVIOUS
<1>2. PICK f : f = Sums(s)
  OBVIOUS
<1>3. /\ f[0] = 0
      /\ \A n \in 1..N : f[n] = f[n - 1] + s[n]
  BY <1>1, <1>2, SumsFacts
<1> DEFINE Grown(n) == f[n] \in Nat /\ \A m \in 0..n : f[m] \in Nat /\ f[m] <= f[n]
           Failing == {n \in 0..N : ~ Grown(n)}
<1>4. Failing = {}
  <2> SUFFICES ASSUME Failing # {}
               PROVE  FALSE
    OBVIOUS
  <2>1. PICK n \in Failing : \A m \in Failing : n <= m
    <3>1. Failing \in SUBSET Nat
      OBVIOUS
    <3> HIDE DEF Failing
    <3> QED
      BY <3>1, LeastOne
  <2>2. n # 0
    BY <1>3, <2>1
  <2>3. Grown(n - 1)
    <3>1. n - 1 \in 0..N /\ ~ (n <= n - 1)
      BY <2>2
    <3> HIDE DEF Grown
    <3>2. n - 1 \notin Failing
      BY <2>1, <3>1
    <3> QED
      BY <3>1, <3>2
  <2>4. f[n] = f[n - 1] + s[n] /\ s[n] \in Nat
    BY <1>1, <1>3, <2>2
  <2>5. f[n] \in Nat /\ f[n - 1] <= f[n]
    BY <2>2, <2>3, <2>4
  <2>6. ASSUME NEW m \in 0..n
        PROVE  f[m] \in Nat /\ f[m] <= f[n]
    <3>1. m = n \/ m \in 0..(n - 1)
      OBVIOUS
    <3> QED
      BY <2>2, <2>3, <2>5, <3>1
  <2> QED
    BY <2>1, <2>5, <2>6
<1>5. \A n \in 0..N : Grown(n)
  BY <1>4
<1> QED
  BY <1>1, <1>2, <1>5

\* A sum of numbers is at least each of them.
LEMMA AddedType ==
  ASSUME NEW s \in Seq(Nat)
  PROVE  /\ Added(s) \in Nat
         /\ \A n \in 1..Len(s) : s[n] <= Added(s)
<1>1. Len(s) \in Nat /\ Added(s) = Sums(s)[Len(s)]
  BY DEF Added
<1>2. Added(s) \in Nat
  BY <1>1, SumsType
<1>3. ASSUME NEW n \in 1..Len(s)
      PROVE  s[n] <= Added(s)
  <2>1. Sums(s)[n] = Sums(s)[n - 1] + s[n] /\ s[n] \in Nat
    BY SumsFacts
  <2>2. Sums(s)[n - 1] \in Nat /\ Sums(s)[n] <= Sums(s)[Len(s)]
    BY SumsType
  <2>3. Sums(s)[n] \in Nat
    BY <1>1, SumsType
  <2> QED
    BY <1>1, <1>2, <2>1, <2>2, <2>3
<1> QED
  BY <1>2, <1>3

(***************************************************************************)
(* The scores of a job.                                                    *)
(***************************************************************************)

\* A quantized score is a half step of its maximum, and near what it was made from.
LEMMA Quantized ==
  ASSUME NEW value \in Int, NEW max \in Nat
  PROVE  /\ QuantizeHalf(value, max) \in Nat
         /\ HalfStep(QuantizeHalf(value, max), max)
         /\ Distance(QuantizeHalf(value, max), Clamp(value, max)) <= 25
<1>1. PICK c \in 0..max : c = Clamp(value, max)
  BY DEF Clamp, Least
<1>2. PICK q \in Nat : q = RoundedQuotient(c, 50)
  BY DEF RoundedQuotient
<1>3. Distance(50 * q, c) <= 25
  BY <1>2 DEF RoundedQuotient, Distance
<1>4. QuantizeHalf(value, max) = IF 50 * q <= max THEN 50 * q ELSE max
  BY <1>1, <1>2 DEF QuantizeHalf, Clamp, Least
<1> QED
  BY <1>1, <1>3, <1>4 DEF Distance, HalfStep

Group == [full : Nat, items : Seq(Nat)]

\* What is known of an answer to an item, that of the model or one without a score.
Answered(answer) ==
  /\ answer.raw.given \in BOOLEAN
  /\ answer.raw.given => answer.raw.value \in Int
  /\ answer.ratio \in Int

\* The score of an item is a half step, near the one the model gave if it gave one.
LEMMA ItemScored ==
  ASSUME NEW full \in Nat, NEW answer, Answered(answer)
  PROVE  /\ ItemScore(full, answer) \in Nat
         /\ HalfStep(ItemScore(full, answer), full)
         /\ answer.raw.given =>
              Distance(ItemScore(full, answer), Clamp(answer.raw.value, full)) <= 25
<1>1. CASE answer.raw.given
  <2>1. PICK c \in Int : c = Clamp(answer.raw.value, full) /\ Clamp(c, full) = c
    BY <1>1 DEF Answered, Clamp, Least
  <2>2. ItemScore(full, answer) = QuantizeHalf(c, full)
    BY <1>1, <2>1 DEF ItemScore
  <2> QED
    BY <2>1, <2>2, Quantized
<1>2. CASE ~ answer.raw.given
  <2>1. PICK x \in Int : x = full * answer.ratio
    BY DEF Answered
  <2>2. RoundedQuotient(x, 100) \in Int
    BY <2>1 DEF RoundedQuotient
  <2>3. ItemScore(full, answer) = QuantizeHalf(RoundedQuotient(x, 100), full)
    BY <1>2, <2>1 DEF ItemScore
  <2> QED
    BY <1>2, <2>2, <2>3, Quantized
<1> QED
  BY <1>1, <1>2 DEF Answered

\* So is that of a group, near what its items come to; and unless the group is worth
\* a quarter of a point at most, it is nothing only if its items are next to nothing.
LEMMA GroupScored ==
  ASSUME NEW group \in Group, NEW answers,
         \A i \in 1..Len(group.items) : Answered(answers[i])
  PROVE  LET scored == DetailGroup(group, answers)
         IN  /\ scored.full = group.full /\ scored.score \in Nat
             /\ scored.items \in Seq(Nat) /\ Len(scored.items) = Len(group.items)
             /\ \A i \in 1..Len(group.items) :
                  scored.items[i] = ItemScore(group.items[i], answers[i])
             /\ HalfStep(scored.score, group.full)
             /\ Distance(scored.score, Least(Added(scored.items), group.full)) <= 25
             /\ scored.score = 0 /\ group.full > 25 =>
                  \A i \in 1..Len(group.items) : scored.items[i] <= 25
<1> DEFINE scored == DetailGroup(group, answers)
           items == [i \in 1..Len(group.items) |-> ItemScore(group.items[i], answers[i])]
<1>1. /\ group.full \in Nat /\ group.items \in Seq(Nat) /\ Len(group.items) \in Nat
      /\ \A i \in 1..Len(group.items) : group.items[i] \in Nat
  BY DEF Group
<1>2. \A i \in 1..Len(group.items) : ItemScore(group.items[i], answers[i]) \in Nat
  BY <1>1, ItemScored
<1>3. items \in Seq(Nat) /\ Len(items) = Len(group.items)
  BY <1>1, <1>2
<1>4. PICK sum \in Nat : sum = Added(items) /\ \A i \in 1..Len(items) : items[i] <= sum
  BY <1>3, AddedType
<1>5. /\ scored.full = group.full /\ scored.items = items
      /\ scored.score = QuantizeHalf(sum, group.full)
  BY <1>4 DEF DetailGroup
<1> HIDE DEF scored
<1>6. /\ scored.score \in Nat /\ HalfStep(scored.score, group.full)
      /\ Distance(scored.score, Clamp(sum, group.full)) <= 25
  <2>1. sum \in Int /\ group.full \in Nat
    BY <1>1
  <2> QED
    BY <1>5, <2>1, Quantized
<1>7. Clamp(sum, group.full) = Least(sum, group.full)
  BY <1>1 DEF Clamp
<1>8. scored.score = 0 /\ group.full > 25 => sum <= 25
  BY <1>1, <1>6, <1>7 DEF Distance, Least
<1>9. ASSUME scored.score = 0, group.full > 25, NEW i \in 1..Len(group.items)
      PROVE  scored.items[i] <= 25
  <2>1. items[i] \in Nat /\ items[i] <= sum /\ sum <= 25
    BY <1>2, <1>3, <1>4, <1>8, <1>9
  <2> QED
    BY <1>5, <2>1
<1> QED
  BY <1>3, <1>4, <1>5, <1>6, <1>7, <1>9 DEF scored

LEMMA AnswerType ==
  ASSUME NEW answer \in Answer
  PROVE  /\ Answered(answer)
         /\ [answer EXCEPT !.raw = Unscored] \in Answer
<1>1. answer.raw \in {Unscored} \cup [given : {TRUE}, value : RawScores]
  BY DEF Answer
<1>2. answer.ratio \in Ratios
  BY DEF Answer
<1>3. answer.ratio \in Int
  <2>1. answer.ratio \in 68..96
    BY <1>2, ScoreSheetsAssumption
  <2> QED
    BY <2>1
<1>4. answer.raw.given \in BOOLEAN /\ (answer.raw.given => answer.raw.value \in Int)
  <2>1. CASE answer.raw = Unscored
    BY <2>1 DEF Unscored
  <2>2. CASE answer.raw \in [given : {TRUE}, value : RawScores]
    <3>1. answer.raw.given = TRUE /\ answer.raw.value \in RawScores
      BY <2>2
    <3> QED
      BY <3>1, ScoreSheetsAssumption
  <2> QED
    BY <1>1, <2>1, <2>2
<1> QED
  BY <1>2, <1>3, <1>4 DEF Answer, Answered

LEMMA AnswersType ==
  ASSUME NEW rubric \in Rubrics, NEW answers \in Answers(rubric)
  PROVE  /\ rubric.total \in Nat /\ rubric.groups \in Seq(Group)
         /\ DOMAIN answers = 1..Len(rubric.groups)
         /\ \A g \in 1..Len(rubric.groups) :
              /\ rubric.groups[g] \in Group
              /\ DOMAIN answers[g] = 1..Len(rubric.groups[g].items)
              /\ \A i \in 1..Len(rubric.groups[g].items) : Answered(answers[g][i])
<1>1. rubric.total \in Nat /\ rubric.groups \in Seq(Group)
  BY ScoreSheetsAssumption DEF Rubric, Group
<1>2. \A answer \in Answer : Answered(answer)
  BY AnswerType
<1>3. CASE rubric.groups = <<>>
  BY <1>1, <1>3 DEF Answers
<1>4. CASE rubric.groups # <<>>
  <2>1. /\ DOMAIN answers = 1..Len(rubric.groups)
        /\ \A g \in 1..Len(rubric.groups) : answers[g] \in AnswersOf(rubric.groups[g])
    BY <1>4 DEF Answers
  <2>2. \A g \in 1..Len(rubric.groups) : rubric.groups[g] \in Group
    BY <1>1
  <2> QED
    BY <1>1, <1>2, <2>1, <2>2 DEF AnswersOf
<1> QED
  BY <1>3, <1>4

LEMMA DiscardedType ==
  ASSUME NEW rubric \in Rubrics, NEW answers \in Answers(rubric),
         NEW g \in 1..Len(rubric.groups), NEW i \in 1..Len(rubric.groups[g].items)
  PROVE  Answered(Discarded(answers)[g][i])
<1>1. /\ g \in DOMAIN answers /\ i \in DOMAIN answers[g]
      /\ Answered(answers[g][i])
  BY AnswersType
<1>2. Discarded(answers)[g][i] = [answers[g][i] EXCEPT !.raw = Unscored]
  BY <1>1 DEF Discarded
<1>3. answers[g][i] \in Answer
  <2>1. rubric.groups # <<>>
    BY AnswersType
  <2> QED
    BY <2>1, AnswersType DEF Answers, AnswersOf
<1> QED
  BY <1>2, <1>3, AnswerType

\* What the property says of the groups, for a sheet made from some of the answers.
GroupsAddUp(rubric, groups) ==
  \A g \in DOMAIN rubric.groups :
    /\ groups[g].full = rubric.groups[g].full
    /\ HalfStep(groups[g].score, groups[g].full)
    /\ Distance(groups[g].score, Least(Added(groups[g].items), groups[g].full)) <= 25
    /\ DOMAIN groups[g].items = DOMAIN rubric.groups[g].items
    /\ \A i \in DOMAIN groups[g].items : HalfStep(groups[g].items[i], rubric.groups[g].items[i])

LEMMA DetailGroupsAddUp ==
  ASSUME NEW rubric \in Rubrics, NEW answers, NEW fallback,
         rubric.total \in Nat, rubric.groups \in Seq(Group),
         \A g \in 1..Len(rubric.groups) : \A i \in 1..Len(rubric.groups[g].items) :
           Answered(answers[g][i])
  PROVE  /\ GroupsAddUp(rubric, DetailGroups(rubric, answers, fallback))
         /\ \A g \in DOMAIN rubric.groups :
              DetailGroups(rubric, answers, fallback)[g]
                = DetailGroup(rubric.groups[g], answers[g])
<1> DEFINE groups == DetailGroups(rubric, answers, fallback)
<1> SUFFICES ASSUME NEW g \in DOMAIN rubric.groups
             PROVE  /\ groups[g] = DetailGroup(rubric.groups[g], answers[g])
                    /\ groups[g].full = rubric.groups[g].full
                    /\ HalfStep(groups[g].score, groups[g].full)
                    /\ Distance(groups[g].score, Least(Added(groups[g].items), groups[g].full)) <= 25
                    /\ DOMAIN groups[g].items = DOMAIN rubric.groups[g].items
                    /\ \A i \in DOMAIN groups[g].items :
                         HalfStep(groups[g].items[i], rubric.groups[g].items[i])
  BY DEF GroupsAddUp
<1>1. PICK group \in Group : group = rubric.groups[g]
  OBVIOUS
<1>2. group.items \in Seq(Nat) /\ \A i \in 1..Len(group.items) : group.items[i] \in Nat
  BY SMTT(30) DEF Group
<1>3. g \in 1..Len(rubric.groups) /\ rubric.groups # <<>>
  OBVIOUS
<1>4. groups[g] = DetailGroup(group, answers[g])
  BY <1>1, <1>3 DEF DetailGroups
<1>5. \A i \in 1..Len(group.items) : Answered(answers[g][i])
  BY <1>1, <1>3
<1> HIDE DEF groups
<1>6. /\ groups[g].full = group.full
      /\ groups[g].items \in Seq(Nat) /\ Len(groups[g].items) = Len(group.items)
      /\ \A i \in 1..Len(group.items) :
           groups[g].items[i] = ItemScore(group.items[i], answers[g][i])
      /\ HalfStep(groups[g].score, group.full)
      /\ Distance(groups[g].score, Least(Added(groups[g].items), group.full)) <= 25
  BY <1>4, <1>5, GroupScored
<1>7. DOMAIN groups[g].items = 1..Len(group.items) /\ DOMAIN group.items = 1..Len(group.items)
  BY <1>2, <1>6
<1>8. ASSUME NEW i \in 1..Len(group.items)
      PROVE  HalfStep(groups[g].items[i], group.items[i])
  BY <1>2, <1>5, <1>6, ItemScored
<1> QED
  BY <1>1, <1>4, <1>6, <1>7, <1>8

\* When the total comes to nothing, so does every group.
LEMMA NothingInTotal ==
  ASSUME NEW rubric \in Rubrics, NEW answers \in Answers(rubric), NEW fallback,
         rubric.total > 0,
         TotalOf(rubric, DetailGroups(rubric, answers, fallback)) <= 0,
         NEW g \in DOMAIN rubric.groups
  PROVE  DetailGroup(rubric.groups[g], answers[g]).score = 0
<1> DEFINE n == Len(rubric.groups)
           groups == DetailGroups(rubric, answers, fallback)
           scores == [k \in 1..Len(groups) |-> groups[k].score]
<1>1. /\ rubric.total \in Nat /\ rubric.groups \in Seq(Group) /\ n \in Nat
      /\ \A k \in 1..n : \A i \in 1..Len(rubric.groups[k].items) : Answered(answers[k][i])
      /\ \A k \in 1..n : rubric.groups[k] \in Group
  BY AnswersType
<1>2. g \in 1..n /\ rubric.groups # <<>>
  BY <1>1
<1>3. groups = [k \in 1..n |-> DetailGroup(rubric.groups[k], answers[k])]
  BY <1>2 DEF DetailGroups
<1>4. \A k \in 1..n : DetailGroup(rubric.groups[k], answers[k]).score \in Nat
  BY <1>1, GroupScored
<1> HIDE DEF groups
<1>5. Len(groups) = n
  BY <1>1, <1>3
<1>6. scores \in Seq(Nat) /\ Len(scores) = n /\ \A k \in 1..n : scores[k] = groups[k].score
  <2>1. scores = [k \in 1..n |-> groups[k].score]
    BY <1>5
  <2>2. \A k \in 1..n : groups[k].score \in Nat
    BY <1>3, <1>4
  <2> HIDE DEF scores, n
  <2> QED
    BY <1>1, <2>1, <2>2
<1> HIDE DEF scores, n
<1>7. Added(scores) \in Nat /\ scores[g] <= Added(scores)
  BY <1>2, <1>6, AddedType
<1>8. Least(Added(scores), rubric.total) <= 0
  BY DEF TotalOf, groups, scores
<1>9. Added(scores) = 0
  BY <1>1, <1>7, <1>8 DEF Least
<1> QED
  BY <1>2, <1>3, <1>4, <1>6, <1>7, <1>9

\* Then the model gave next to nothing for every item of a group worth something.
LEMMA NothingInItem ==
  ASSUME NEW group \in Group, NEW answers,
         \A i \in 1..Len(group.items) : Answered(answers[i]),
         DetailGroup(group, answers).score = 0, group.full > 25,
         NEW i \in 1..Len(group.items), answers[i].raw.given
  PROVE  Clamp(answers[i].raw.value, group.items[i]) <= 25
<1>1. group.items[i] \in Nat /\ answers[i].raw.value \in Int
  BY DEF Group, Answered
<1>2. ItemScore(group.items[i], answers[i]) <= 25
  BY GroupScored
<1>3. PICK score \in Nat : /\ score = ItemScore(group.items[i], answers[i])
                           /\ HalfStep(score, group.items[i])
                           /\ Distance(score, Clamp(answers[i].raw.value, group.items[i])) <= 25
  BY <1>1, ItemScored
<1>4. PICK c \in 0..group.items[i] : c = Clamp(answers[i].raw.value, group.items[i])
  BY <1>1 DEF Clamp, Least
<1>5. score = 0 \/ score = group.items[i]
  BY <1>1, <1>2, <1>3 DEF HalfStep
<1> QED
  BY <1>1, <1>2, <1>3, <1>4, <1>5 DEF Distance

SheetInv ==
  /\ sheet.phase \in {"answered", "scored"}
  /\ sheet.phase = "answered" =>
       sheet.rubric \in Rubrics /\ sheet.answers \in Answers(sheet.rubric)
  /\ SheetAddsUp

LEMMA SheetsInit == ScoreSheetsInit => SheetInv
BY DEF ScoreSheetsInit, SheetInv, SheetAddsUp

LEMMA SheetStep ==
  ASSUME SheetInv, NormalizeResult
  PROVE  SheetInv'
<1> DEFINE rubric == sheet.rubric
           answers == sheet.answers
           fallback == sheet.fallback
           scored == DetailGroups(rubric, answers, fallback)
           discarded == DetailGroups(rubric, Discarded(answers), fallback)
           Nothing == TotalOf(rubric, scored) <= 0 /\ rubric.total > 0
           groups == IF Nothing THEN discarded ELSE scored
<1>1. rubric \in Rubrics /\ answers \in Answers(rubric)
  BY DEF SheetInv, NormalizeResult
<1>2. /\ rubric.total \in Nat /\ rubric.groups \in Seq(Group)
      /\ DOMAIN answers = 1..Len(rubric.groups)
      /\ \A g \in 1..Len(rubric.groups) :
           /\ rubric.groups[g] \in Group
           /\ DOMAIN answers[g] = 1..Len(rubric.groups[g].items)
           /\ \A i \in 1..Len(rubric.groups[g].items) :
                Answered(answers[g][i]) /\ Answered(Discarded(answers)[g][i])
  BY <1>1, AnswersType, DiscardedType
<1>3. sheet' = [phase |-> "scored", rubric |-> rubric, answers |-> answers,
                groups |-> groups, total |-> TotalOf(rubric, groups)]
  BY DEF NormalizeResult
<1>4. /\ GroupsAddUp(rubric, scored) /\ GroupsAddUp(rubric, discarded)
      /\ \A g \in DOMAIN rubric.groups : scored[g] = DetailGroup(rubric.groups[g], answers[g])
  BY ZenonT(30), <1>1, <1>2, DetailGroupsAddUp
<1>5. GroupsAddUp(rubric, groups)
  BY <1>4
<1>6. ASSUME Nothing
      PROVE  CameToNothing'
  <2> SUFFICES ASSUME NEW g \in DOMAIN answers, NEW i \in DOMAIN answers[g],
                      rubric.groups[g].full > 25, answers[g][i].raw.given
               PROVE  Clamp(answers[g][i].raw.value, rubric.groups[g].items[i]) <= 25
    BY <1>3 DEF CameToNothing
  <2>1. DetailGroup(rubric.groups[g], answers[g]).score = 0
    BY <1>1, <1>2, <1>6, NothingInTotal
  <2> QED
    BY <1>2, <2>1, NothingInItem
<1>7. ASSUME ~ Nothing, NEW g \in DOMAIN rubric.groups, NEW i \in DOMAIN groups[g].items,
             answers[g][i].raw.given
      PROVE  Distance(groups[g].items[i],
                      Clamp(answers[g][i].raw.value, rubric.groups[g].items[i])) <= 25
  <2>1. PICK group \in Group : group = rubric.groups[g]
    BY <1>2
  <2>2. groups[g] = DetailGroup(group, answers[g])
    BY <1>4, <1>7, <2>1
  <2>3. g \in 1..Len(rubric.groups) /\ group.items \in Seq(Nat)
    BY SMTT(30), <1>2, <2>1 DEF Group
  <2>4. i \in 1..Len(group.items)
    <3>1. DOMAIN groups[g].items = DOMAIN group.items
      BY <1>5, <2>1 DEF GroupsAddUp
    <3> HIDE DEF groups
    <3> QED
      BY <1>7, <2>3, <3>1
  <2>5. group.items[i] \in Nat /\ Answered(answers[g][i])
    BY SMTT(30), <1>2, <2>1, <2>3, <2>4
  <2>6. \A j \in 1..Len(group.items) : Answered(answers[g][j])
    BY <1>2, <2>1, <2>3
  <2> HIDE DEF groups, rubric, answers
  <2>7. groups[g].items[i] = ItemScore(group.items[i], answers[g][i])
    BY <2>2, <2>4, <2>6, GroupScored
  <2>8. Distance(ItemScore(group.items[i], answers[g][i]),
                 Clamp(answers[g][i].raw.value, group.items[i])) <= 25
    BY <1>7, <2>5, ItemScored
  <2> QED
    BY <2>1, <2>7, <2>8
<1>8. TotalOf(rubric, groups) = Least(Added([g \in DOMAIN groups |-> groups[g].score]), rubric.total)
  <2>1. DOMAIN groups = 1..Len(groups)
    <3>1. CASE rubric.groups = <<>>
      BY <3>1 DEF DetailGroups
    <3>2. CASE rubric.groups # <<>>
      <4>1. Len(rubric.groups) \in Nat
        BY <1>2
      <4> QED
        BY <3>2, <4>1 DEF DetailGroups
    <3> QED
      BY <3>1, <3>2
  <2> QED
    BY <2>1 DEF TotalOf
<1> HIDE DEF groups, Nothing
<1>9. SheetAddsUp'
  <2>1. /\ sheet'.rubric = rubric /\ sheet'.answers = answers /\ sheet'.groups = groups
        /\ sheet'.total = TotalOf(rubric, groups)
    BY <1>3
  <2>2. ASSUME NEW g \in DOMAIN rubric.groups
        PROVE  /\ HalfStep(groups[g].score, groups[g].full)
               /\ Distance(groups[g].score, Least(Added(groups[g].items), groups[g].full)) <= 25
               /\ \A i \in DOMAIN groups[g].items :
                    /\ HalfStep(groups[g].items[i], rubric.groups[g].items[i])
                    /\ answers[g][i].raw.given /\ ~ CameToNothing' =>
                         Distance(groups[g].items[i],
                                  Clamp(answers[g][i].raw.value, rubric.groups[g].items[i])) <= 25
    BY <1>5, <1>6, <1>7 DEF GroupsAddUp
  <2> HIDE DEF rubric, answers
  <2> QED
    BY <1>8, <2>1, <2>2 DEF SheetAddsUp
<1> QED
  BY <1>3, <1>9 DEF SheetInv

\* Whatever rubric a job is asked for and whatever the model answers, its scores add up:
\* items are half steps near the model's, groups are what their items come to, and the
\* total is their sum, at most the maximum (_normalize_result of runner.py).
THEOREM SheetsAddUp == ScoreSheetsSpec => []SheetAddsUp
<1>1. SheetInv /\ [NormalizeResult]_sheet => SheetInv'
  <2>1. ASSUME SheetInv, UNCHANGED sheet
        PROVE  SheetInv'
    BY <2>1 DEF SheetInv, SheetAddsUp, CameToNothing
  <2> QED
    BY <2>1, SheetStep
<1>2. SheetInv => SheetAddsUp
  BY DEF SheetInv
<1> QED
  BY <1>1, <1>2, SheetsInit, PTL DEF ScoreSheetsSpec

(***************************************************************************)
(* The reading of a rubric.                                                *)
(***************************************************************************)

\* The rounded quotient of numbers.
LEMMA RoundType ==
  ASSUME NEW x \in Nat, NEW d \in Nat \ {0}
  PROVE  Round(x, d) \in Nat /\ 2 * (d * Round(x, d)) <= 2 * x + d
<1>1. PICK a \in Nat : a = 2 * x + d
  OBVIOUS
<1>2. PICK b \in Nat \ {0} : b = 2 * d
  OBVIOUS
<1>3. a \div b \in Nat /\ b * (a \div b) <= a
  BY <1>1, <1>2
<1>4. PICK q \in Nat : q = Round(x, d) /\ q = a \div b
  BY <1>1, <1>2, <1>3 DEF Round
<1>5. b * q = 2 * (d * q)
  BY <1>2
<1> QED
  BY <1>1, <1>3, <1>4, <1>5

\* The shares of a score add up to it, the rounding being left to the last; and they
\* are not negative when the score has a hundredth for every two of them.
LEMMA SharesAddUp ==
  ASSUME NEW score \in Nat, NEW n \in Nat \ {0}
  PROVE  /\ Shares(score, n) \in Seq(Int) /\ Len(Shares(score, n)) = n
         /\ Added(Shares(score, n)) = score
         /\ n * (n - 1) <= 2 * score => \A i \in 1..n : Shares(score, n)[i] >= 0
<1>1. PICK r \in Nat : r = Round(score, n) /\ 2 * (n * r) <= 2 * score + n
  BY RoundType
<1>2. PICK last \in Int : last = score - (n - 1) * r
  OBVIOUS
<1>3. PICK s : s = [i \in 1..n |-> IF i < n THEN r ELSE last]
  OBVIOUS
<1>4. s = Shares(score, n)
  BY <1>1, <1>2, <1>3 DEF Shares
<1>5. s \in Seq(Int) /\ Len(s) = n
  BY <1>3
<1>6. PICK f : f = Sums(s)
  OBVIOUS
<1>7. f[0] = 0 /\ \A i \in 1..n : f[i] = f[i - 1] + s[i]
  BY <1>5, <1>6, SumsFacts
<1>8. \A i \in 0..(n - 1) : f[i] = i * r
  <2> DEFINE Failing == {i \in 0..(n - 1) : f[i] # i * r}
  <2> SUFFICES ASSUME Failing # {}
               PROVE  FALSE
    OBVIOUS
  <2>1. PICK i \in Failing : \A j \in Failing : i <= j
    <3>1. Failing \in SUBSET Nat
      OBVIOUS
    <3> HIDE DEF Failing
    <3> QED
      BY <3>1, LeastOne
  <2>2. i # 0
    BY <1>7, <2>1
  <2>3. i - 1 \in 0..(n - 1) /\ ~ (i <= i - 1)
    BY <2>1, <2>2
  <2>4. f[i - 1] = (i - 1) * r
    BY <2>1, <2>3
  <2>5. f[i] = f[i - 1] + r
    BY <1>3, <1>7, <2>1, <2>2
  <2>6. (i - 1) * r + r = i * r
    BY <2>1
  <2> QED
    BY <2>1, <2>4, <2>5, <2>6
<1>9. Added(s) = score
  <2>1. f[n - 1] = (n - 1) * r /\ (n - 1) * r \in Nat
    BY <1>8
  <2>2. f[n] = f[n - 1] + last
    BY <1>3, <1>7
  <2> QED
    BY <1>2, <1>5, <1>6, <2>1, <2>2 DEF Added
<1>10. ASSUME n * (n - 1) <= 2 * score
       PROVE  last >= 0
  <2>1. PICK m \in Nat : m = n - 1 /\ n * m <= 2 * score
    BY <1>10
  <2>2. (2 * (n * r)) * m <= (2 * score + n) * m
    BY <1>1, <2>1
  <2>3. (2 * score + n) * m = 2 * score * m + n * m /\ 2 * score * m + 2 * score = 2 * score * n
    BY <2>1
  <2>4. (2 * n) * (m * r) <= (2 * n) * score
    BY <2>1, <2>2, <2>3
  <2>5. m * r <= score
    BY <2>4
  <2> QED
    BY <1>2, <2>1, <2>5
<1> QED
  BY SMTT(30), <1>1, <1>3, <1>4, <1>5, <1>9, <1>10

\* There is a function of what has been read after each row.
LEMMA ReadingsUpTo ==
  ASSUME NEW rows, NEW N \in Nat
  PROVE  \E f : f = [n \in 0..N |-> IF n = 0 THEN Reading ELSE ReadRow(f[n - 1], rows[n])]
<1> DEFINE Has(k) == \E f : f = [n \in 0..k |-> IF n = 0 THEN Reading ELSE ReadRow(f[n - 1], rows[n])]
           Without == {k \in Nat : ~ Has(k)}
<1> SUFFICES ASSUME ~ Has(N)
             PROVE  FALSE
  OBVIOUS
<1>1. PICK m \in Without : \A y \in Without : m <= y
  BY LeastOne
<1>2. m # 0
  <2>1. [n \in 0..0 |-> Reading]
          = [n \in 0..0 |-> IF n = 0 THEN Reading
                            ELSE ReadRow([q \in 0..0 |-> Reading][n - 1], rows[n])]
    OBVIOUS
  <2> QED
    BY <1>1, <2>1
<1>3. Has(m - 1)
  <2>1. m - 1 \in Nat /\ ~ (m <= m - 1)
    BY <1>2
  <2> HIDE DEF Has
  <2>2. m - 1 \notin Without
    BY <1>1, <2>1
  <2> QED
    BY <2>1, <2>2
<1>4. PICK g : g = [n \in 0..(m - 1) |-> IF n = 0 THEN Reading ELSE ReadRow(g[n - 1], rows[n])]
  BY <1>3
<1>5. PICK h : h = [n \in 0..m |-> IF n = m THEN ReadRow(g[m - 1], rows[m]) ELSE g[n]]
  OBVIOUS
<1>6. h = [n \in 0..m |-> IF n = 0 THEN Reading ELSE ReadRow(h[n - 1], rows[n])]
  <2> SUFFICES ASSUME NEW n \in 0..m
               PROVE  h[n] = IF n = 0 THEN Reading ELSE ReadRow(h[n - 1], rows[n])
    BY <1>5
  <2> QED
    BY <1>1, <1>2, <1>4, <1>5
<1> QED
  BY <1>1, <1>6

LEMMA ReadingsFacts ==
  ASSUME NEW rows \in Seq(Row)
  PROVE  /\ Readings(rows)[0] = Reading
         /\ \A n \in 1..Len(rows) : Readings(rows)[n] = ReadRow(Readings(rows)[n - 1], rows[n])
<1>1. PICK N \in Nat : N = Len(rows)
  OBVIOUS
<1>2. Readings(rows) = CHOOSE f : f = [n \in 0..N |-> IF n = 0 THEN Reading
                                                      ELSE ReadRow(f[n - 1], rows[n])]
  BY <1>1 DEF Readings
<1>3. \E f : f = [n \in 0..N |-> IF n = 0 THEN Reading ELSE ReadRow(f[n - 1], rows[n])]
  BY ReadingsUpTo
<1>4. Readings(rows) = [n \in 0..N |-> IF n = 0 THEN Reading
                                       ELSE ReadRow(Readings(rows)[n - 1], rows[n])]
  BY <1>2, <1>3
<1>5. Readings(rows)[0] = Reading
  BY <1>4
<1>6. ASSUME NEW n \in 1..N
      PROVE  Readings(rows)[n] = ReadRow(Readings(rows)[n - 1], rows[n])
  BY <1>4
<1> QED
  BY <1>1, <1>5, <1>6

\* The number of items opened so far, row by row.
LEMMA OpenedFacts ==
  ASSUME NEW rows \in Seq(Row)
  PROVE  /\ Opened(rows, 0) = 0
         /\ \A n \in 0..Len(rows) : Opened(rows, n) \in Nat
         /\ \A n \in 1..Len(rows) :
              Opened(rows, n) = IF n \in Filled(rows) /\ rows[n].primary
                                THEN Opened(rows, n - 1) + 1 ELSE Opened(rows, n - 1)
         /\ \A m \in 0..Len(rows), n \in 0..Len(rows) :
              m <= n => Opened(rows, m) <= Opened(rows, n)
<1> DEFINE P(n) == {j \in Filled(rows) : j <= n /\ rows[j].primary}
<1>1. PICK N \in Nat : N = Len(rows) /\ Filled(rows) \subseteq 1..N
  BY DEF Filled
<1>2. \A n \in 0..N : IsFiniteSet(P(n))
  <2>1. IsFiniteSet(1..N)
    BY FS_Interval
  <2>2. \A n \in 0..N : P(n) \in SUBSET (1..N)
    BY <1>1
  <2> HIDE DEF P
  <2> QED
    BY <2>1, <2>2, FS_Subset
<1>3. \A n \in 0..N : Opened(rows, n) = Cardinality(P(n))
  BY DEF Opened
<1>4. P(0) = {}
  BY <1>1
<1>5. ASSUME NEW n \in 1..N
      PROVE  P(n) = IF n \in Filled(rows) /\ rows[n].primary THEN P(n - 1) \cup {n} ELSE P(n - 1)
  <2>1. \A j \in Filled(rows) : j <= n <=> j <= n - 1 \/ j = n
    BY <1>1
  <2> QED
    BY <2>1
<1>6. \A n \in 1..N : n \notin P(n - 1)
  OBVIOUS
<1>7. ASSUME NEW m \in 0..N, NEW n \in 0..N, m <= n
      PROVE  P(m) \in SUBSET P(n)
  BY <1>1, <1>7
<1> HIDE DEF P
<1>8. \A n \in 0..N : Cardinality(P(n)) \in Nat
  BY <1>2, FS_CardinalityType
<1>9. Opened(rows, 0) = 0
  <2>1. Opened(rows, 0) = Cardinality(P(0))
    BY <1>3
  <2> QED
    BY <1>4, <2>1, FS_EmptySet
<1>10. ASSUME NEW n \in 1..N
       PROVE  Opened(rows, n) = IF n \in Filled(rows) /\ rows[n].primary
                                THEN Opened(rows, n - 1) + 1 ELSE Opened(rows, n - 1)
  <2>1. n - 1 \in 0..N /\ n \in 0..N
    OBVIOUS
  <2> QED
    BY <1>2, <1>3, <1>5, <1>6, <2>1, FS_AddElement
<1>11. \A m \in 0..N, n \in 0..N : m <= n => Opened(rows, m) <= Opened(rows, n)
  BY <1>2, <1>3, <1>7, FS_Subset
<1> QED
  BY <1>1, <1>3, <1>8, <1>9, <1>10, <1>11

\* A row that follows those of an item takes the next place.
LEMMA PlaceFacts ==
  ASSUME NEW n \in Nat \ {0}, NEW own \in SUBSET (1..(n - 1))
  PROVE  /\ IsFiniteSet(own) /\ Cardinality(own) \in Nat
         /\ Cardinality(own \cup {n}) = Cardinality(own) + 1
         /\ PlaceIn(own \cup {n}, n) = Cardinality(own) + 1
         /\ \A i \in own : /\ PlaceIn(own \cup {n}, i) = PlaceIn(own, i)
                           /\ PlaceIn(own, i) \in 1..Cardinality(own)
<1>1. IsFiniteSet(own) /\ Cardinality(own) \in Nat
  <2>1. IsFiniteSet(1..(n - 1))
    BY FS_Interval
  <2> QED
    BY <2>1, FS_Subset, FS_CardinalityType
<1>2. n \notin own /\ \A j \in own : j \in Nat /\ j < n
  OBVIOUS
<1>3. Cardinality(own \cup {n}) = Cardinality(own) + 1
  BY <1>1, <1>2, FS_AddElement
<1>4. {j \in own \cup {n} : j <= n} = own \cup {n}
  <2>1. \A j \in own \cup {n} : j <= n
    BY <1>2
  <2> QED
    BY <2>1
<1>5. ASSUME NEW i \in own
      PROVE  /\ PlaceIn(own \cup {n}, i) = PlaceIn(own, i)
             /\ PlaceIn(own, i) \in 1..Cardinality(own)
  <2>1. {j \in own \cup {n} : j <= i} = {j \in own : j <= i}
    <3>1. ~ (n <= i)
      BY <1>2
    <3> QED
      BY <3>1
  <2>2. PICK D : D = {j \in own : j <= i}
    OBVIOUS
  <2>3. IsFiniteSet(D) /\ Cardinality(D) \in Nat /\ Cardinality(D) <= Cardinality(own)
    BY <1>1, <2>2, FS_Subset, FS_CardinalityType
  <2>4. Cardinality(D) # 0
    <3>1. i \in D
      BY <1>2, <2>2
    <3> QED
      BY <2>3, <3>1, FS_EmptySet
  <2>5. PlaceIn(own, i) = Cardinality(D) /\ PlaceIn(own \cup {n}, i) = Cardinality(D)
    BY <2>1, <2>2 DEF PlaceIn
  <2>6. Cardinality(D) \in 1..Cardinality(own)
    BY <1>1, <2>3, <2>4
  <2> QED
    BY <2>5, <2>6
<1>6. PlaceIn(own \cup {n}, n) = Cardinality(own) + 1
  BY <1>3, <1>4 DEF PlaceIn
<1> QED
  BY <1>1, <1>3, <1>5, <1>6

\* What has been read of an item whose rows so far are own.
OwnReads(rows, own, score, subs) ==
  /\ score \in Nat /\ subs \in Seq(Nat)
  /\ subs # <<>> /\ Len(subs) = Cardinality(own)
  /\ \A i \in own : /\ rows[i].primary => score = rows[i].score
                    /\ PlaceIn(own, i) \in 1..Len(subs)
                    /\ subs[PlaceIn(own, i)] = rows[i].sub
  /\ \A j \in 1..Len(subs) : \E i \in own : PlaceIn(own, i) = j

LEMMA OwnStarts ==
  ASSUME NEW rows \in Seq(Row), NEW n \in 1..Len(rows), rows[n].sub \in Nat
  PROVE  OwnReads(rows, {n}, rows[n].score, <<rows[n].sub>>)
<1>1. rows[n] \in Row
  OBVIOUS
<1>2. rows[n].score \in Nat
  BY <1>1 DEF Row
<1>3. PlaceIn({n}, n) = 1 /\ Cardinality({n}) = 1
  <2>1. {j \in {n} : j <= n} = {n}
    OBVIOUS
  <2> QED
    BY <2>1, FS_Singleton DEF PlaceIn
<1>4. PICK subs \in Seq(Nat) : subs = <<rows[n].sub>> /\ Len(subs) = 1 /\ subs[1] = rows[n].sub
  <2>1. PICK x \in Nat : x = rows[n].sub
    OBVIOUS
  <2>2. <<x>> \in Seq(Nat) /\ Len(<<x>>) = 1 /\ <<x>>[1] = x
    OBVIOUS
  <2> QED
    BY <2>1, <2>2
<1>5. \A j \in 1..1 : j = 1
  OBVIOUS
<1>6. subs # <<>> /\ 1 \in 1..1
  BY <1>4
<1> QED
  BY <1>2, <1>3, <1>4, <1>5, <1>6 DEF OwnReads

LEMMA OwnGrows ==
  ASSUME NEW rows \in Seq(Row), NEW n \in 1..Len(rows), ~ rows[n].primary, rows[n].sub \in Nat,
         NEW own \in SUBSET (1..(n - 1)), NEW score, NEW subs,
         OwnReads(rows, own, score, subs)
  PROVE  OwnReads(rows, own \cup {n}, score, Append(subs, rows[n].sub))
<1>1. PICK m \in Nat : m = Len(subs) /\ m = Cardinality(own)
  BY DEF OwnReads
<1>2. subs \in Seq(Nat)
  BY DEF OwnReads
<1>3. PICK x \in Nat : x = rows[n].sub
  OBVIOUS
<1>4. PICK longer : longer = Append(subs, x)
  OBVIOUS
<1>5. /\ longer \in Seq(Nat) /\ Len(longer) = m + 1 /\ longer[m + 1] = rows[n].sub
      /\ longer # <<>>
      /\ \A j \in 1..m : longer[j] = subs[j]
  <2>1. /\ Append(subs, x) \in Seq(Nat) /\ Append(subs, x) # <<>>
        /\ Len(Append(subs, x)) = Len(subs) + 1 /\ Append(subs, x)[Len(subs) + 1] = x
        /\ \A j \in 1..Len(subs) : Append(subs, x)[j] = subs[j]
    BY <1>2, AppendProperties
  <2> QED
    BY <1>1, <1>3, <1>4, <2>1
<1>6. n \in Nat \ {0}
  OBVIOUS
<1>7. /\ Cardinality(own \cup {n}) = m + 1
      /\ PlaceIn(own \cup {n}, n) = m + 1
      /\ \A i \in own : PlaceIn(own \cup {n}, i) = PlaceIn(own, i) /\ PlaceIn(own, i) \in 1..m
  BY <1>1, <1>6, PlaceFacts
<1>8. ASSUME NEW i \in own \cup {n}
      PROVE  /\ rows[i].primary => score = rows[i].score
             /\ PlaceIn(own \cup {n}, i) \in 1..(m + 1)
             /\ longer[PlaceIn(own \cup {n}, i)] = rows[i].sub
  <2>1. CASE i = n
    BY <1>5, <1>7, <2>1
  <2>2. CASE i \in own
    <3>1. /\ rows[i].primary => score = rows[i].score
          /\ subs[PlaceIn(own, i)] = rows[i].sub
      BY <2>2 DEF OwnReads
    <3>2. PICK j \in 1..m : j = PlaceIn(own, i) /\ j = PlaceIn(own \cup {n}, i)
      BY <1>7, <2>2
    <3> QED
      BY <1>5, <3>1, <3>2
  <2> QED
    BY <2>1, <2>2
<1>9. ASSUME NEW j \in 1..(m + 1)
      PROVE  \E i \in own \cup {n} : PlaceIn(own \cup {n}, i) = j
  <2>1. CASE j = m + 1
    BY <1>7, <2>1
  <2>2. CASE j \in 1..m
    <3>1. PICK i \in own : PlaceIn(own, i) = j
      BY <1>1, <2>2 DEF OwnReads
    <3> QED
      BY <1>7, <3>1
  <2>3. j = m + 1 \/ j \in 1..m
    OBVIOUS
  <2> QED
    BY <2>1, <2>2, <2>3
<1>10. score \in Nat
  BY DEF OwnReads
<1> QED
  BY <1>3, <1>4, <1>5, <1>7, <1>8, <1>9, <1>10 DEF OwnReads

Item == [score : Nat, subs : Seq(Int)]

\* An item whose rows have all been read is as ReadsItem says.
LEMMA ItemIsRead ==
  ASSUME NEW rows \in Seq(Row), NEW k, NEW score, NEW subs,
         OwnReads(rows, RowsOfItem(rows, k), score, subs)
  PROVE  LET item == [score |-> score, subs |-> SubScores(score, subs)]
         IN  item \in Item /\ ReadsItem(rows, k, item)
<1>1. PICK own : own = RowsOfItem(rows, k) /\ OwnReads(rows, own, score, subs)
  OBVIOUS
<1>2. score \in Nat /\ subs \in Seq(Nat) /\ subs \in Seq(Int) /\ subs # <<>>
  BY <1>1 DEF OwnReads
<1>3. PICK n \in Nat \ {0} : n = Len(subs)
  BY <1>2
<1>4. n = Cardinality(own)
  BY <1>1, <1>3 DEF OwnReads
<1>5. PICK item : item = [score |-> score, subs |-> SubScores(score, subs)]
  OBVIOUS
<1>6. \A i \in own : /\ rows[i].primary => score = rows[i].score
                     /\ PlaceIn(own, i) \in 1..n
                     /\ subs[PlaceIn(own, i)] = rows[i].sub
  BY <1>1, <1>3 DEF OwnReads
<1>7. \A j \in 1..n : \E i \in own : PlaceIn(own, i) = j
  BY <1>1, <1>3 DEF OwnReads
<1>8. (\E j \in 1..n : subs[j] > 0) <=> (\E i \in own : rows[i].sub > 0)
  BY <1>6, <1>7
<1>9. CASE \E i \in own : rows[i].sub > 0
  <2>1. item.subs = subs /\ item.score = score
    BY <1>3, <1>5, <1>8, <1>9 DEF SubScores
  <2>2. item \in Item
    BY <1>2, <1>5, <2>1 DEF Item
  <2> QED
    BY <1>1, <1>3, <1>4, <1>5, <1>6, <1>9, <2>1, <2>2 DEF ReadsItem
<1>10. CASE ~ \E i \in own : rows[i].sub > 0
  <2>1. item.subs = Shares(score, n) /\ item.score = score
    BY <1>3, <1>5, <1>8, <1>10 DEF SubScores
  <2>2. /\ Shares(score, n) \in Seq(Int) /\ Len(Shares(score, n)) = n
        /\ Added(Shares(score, n)) = score
        /\ n * (n - 1) <= 2 * score => \A j \in 1..n : Shares(score, n)[j] >= 0
    BY <1>2, SharesAddUp
  <2>3. item \in Item
    BY <1>2, <1>5, <2>1, <2>2 DEF Item
  <2> QED
    BY <1>1, <1>4, <1>5, <1>6, <1>10, <2>1, <2>2, <2>3 DEF ReadsItem
<1> QED
  BY <1>9, <1>10

ItemScores(items) == [k \in 1..Len(items) |-> items[k].score]

LEMMA ItemScoresType ==
  ASSUME NEW items \in Seq(Item)
  PROVE  /\ ItemScores(items) \in Seq(Nat) /\ Len(ItemScores(items)) = Len(items)
         /\ \A k \in 1..Len(items) : ItemScores(items)[k] = items[k].score
<1>1. PICK n \in Nat : n = Len(items)
  OBVIOUS
<1>2. \A k \in 1..n : items[k] \in Item
  BY <1>1
<1>3. \A k \in 1..n : items[k].score \in Nat
  BY <1>2 DEF Item
<1>4. PICK scores : scores = [k \in 1..n |-> items[k].score]
  OBVIOUS
<1>5. scores \in Seq(Nat) /\ Len(scores) = n
  BY <1>3, <1>4
<1> QED
  BY <1>1, <1>4, <1>5 DEF ItemScores

OwnSoFar(rows, n) == {i \in Filled(rows) : i <= n /\ Opened(rows, i) = Opened(rows, n)}

\* The items before the last opened have been read, and of that one the rows so far.
ItemsRead(rows, items, total, count) ==
  /\ items \in Seq(Item) /\ Len(items) = count
  /\ \A k \in 1..count : ReadsItem(rows, k, items[k])
  /\ total = Added(ItemScores(items))

\* A sheet is refused only if it is not well formed; until then its rows have been good,
\* and the last primary item opened, if there is one, is under way.
SoFar(rows, n, read) ==
  \/ read = Refused /\ ~ WellFormed(rows)
  \/ /\ \A i \in Filled(rows) : i <= n => GoodRow(rows[i]) /\ Opened(rows, i) > 0
     /\ \E items, total :
          \/ /\ Opened(rows, n) = 0 /\ read = Read(items, total, NotOpened)
             /\ ItemsRead(rows, items, total, 0)
          \/ /\ Opened(rows, n) > 0
             /\ ItemsRead(rows, items, total, Opened(rows, n) - 1)
             /\ \E score, subs : /\ read = Read(items, total, Under(score, subs))
                                 /\ OwnReads(rows, OwnSoFar(rows, n), score, subs)

\* An item more, and its score in the total.
LEMMA ItemAdded ==
  ASSUME NEW rows \in Seq(Row), NEW items, NEW total, NEW count \in Nat,
         ItemsRead(rows, items, total, count),
         NEW item \in Item, ReadsItem(rows, count + 1, item)
  PROVE  ItemsRead(rows, Append(items, item), total + item.score, count + 1)
<1>1. items \in Seq(Item) /\ Len(items) = count
  BY DEF ItemsRead
<1>2. PICK longer : longer = Append(items, item)
  OBVIOUS
<1>3. /\ longer \in Seq(Item) /\ Len(longer) = count + 1 /\ longer[count + 1] = item
      /\ \A k \in 1..count : longer[k] = items[k]
  <2>1. /\ Append(items, item) \in Seq(Item) /\ Len(Append(items, item)) = Len(items) + 1
        /\ Append(items, item)[Len(items) + 1] = item
        /\ \A k \in 1..Len(items) : Append(items, item)[k] = items[k]
    BY <1>1, AppendProperties
  <2> QED
    BY <1>1, <1>2, <2>1
<1>4. \A k \in 1..(count + 1) : ReadsItem(rows, k, longer[k])
  <2>1. \A k \in 1..(count + 1) : k \in 1..count \/ k = count + 1
    OBVIOUS
  <2> QED
    BY <1>3, <2>1 DEF ItemsRead
<1>5. PICK few : /\ few = ItemScores(items) /\ few \in Seq(Nat) /\ Len(few) = count
                 /\ \A k \in 1..count : few[k] = items[k].score
  BY <1>1, ItemScoresType
<1>6. PICK more : /\ more = ItemScores(longer) /\ more \in Seq(Nat) /\ Len(more) = count + 1
                  /\ \A k \in 1..(count + 1) : more[k] = longer[k].score
  <2>1. /\ ItemScores(longer) \in Seq(Nat) /\ Len(ItemScores(longer)) = Len(longer)
        /\ \A k \in 1..Len(longer) : ItemScores(longer)[k] = longer[k].score
    BY <1>3, ItemScoresType
  <2> QED
    BY <1>3, <2>1
<1>7. more[count + 1] = item.score /\ \A k \in 1..count : more[k] = few[k]
  <2>1. \A k \in 1..count : k \in 1..(count + 1)
    OBVIOUS
  <2>2. count + 1 \in 1..(count + 1)
    OBVIOUS
  <2> QED
    BY ZenonT(30), <1>3, <1>5, <1>6, <2>1, <2>2
<1>8. PICK f : f = Sums(few)
  OBVIOUS
<1>9. PICK g : g = Sums(more)
  OBVIOUS
<1>10. /\ f[0] = 0 /\ g[0] = 0
       /\ \A k \in 1..count : f[k] = f[k - 1] + few[k] /\ g[k] = g[k - 1] + few[k]
       /\ g[count + 1] = g[count] + item.score
  <2>1. f[0] = 0 /\ \A k \in 1..count : f[k] = f[k - 1] + few[k]
    BY <1>5, <1>8, SumsFacts
  <2>2. g[0] = 0 /\ \A k \in 1..(count + 1) : g[k] = g[k - 1] + more[k]
    BY <1>6, <1>9, SumsFacts
  <2>3. \A k \in 1..count : g[k] = g[k - 1] + few[k]
    BY <1>7, <2>2
  <2>4. g[count + 1] = g[count] + item.score
    BY <1>7, <2>2
  <2> QED
    BY <2>1, <2>2, <2>3, <2>4
<1>11. f[count] = g[count]
  <2> DEFINE Failing == {k \in 0..count : f[k] # g[k]}
  <2> SUFFICES ASSUME Failing # {}
               PROVE  FALSE
    OBVIOUS
  <2>1. PICK k \in Failing : \A j \in Failing : k <= j
    <3>1. Failing \in SUBSET Nat
      OBVIOUS
    <3> HIDE DEF Failing
    <3> QED
      BY <3>1, LeastOne
  <2>2. k \in 1..count
    BY <1>10, <2>1
  <2>3. k - 1 \in 0..count /\ ~ (k <= k - 1)
    BY <2>2
  <2>4. f[k - 1] = g[k - 1]
    BY <2>1, <2>3
  <2> QED
    BY <1>10, <2>1, <2>2, <2>4
<1>12. Added(few) = f[count] /\ Added(more) = g[count + 1]
  BY <1>5, <1>6, <1>8, <1>9 DEF Added
<1>13. total = Added(few)
  BY <1>5 DEF ItemsRead
<1> QED
  BY <1>2, <1>3, <1>4, <1>6, <1>10, <1>11, <1>12, <1>13 DEF ItemsRead

\* The rows of the item under way: a blank row leaves them, another one joins them or,
\* if it names a primary item, closes them and begins its own.
LEMMA OwnSteps ==
  ASSUME NEW rows \in Seq(Row), NEW n \in 1..Len(rows)
  PROVE  /\ OwnSoFar(rows, n - 1) \in SUBSET (1..(n - 1))
         /\ n \notin Filled(rows) => OwnSoFar(rows, n) = OwnSoFar(rows, n - 1)
         /\ n \in Filled(rows) /\ ~ rows[n].primary =>
              OwnSoFar(rows, n) = OwnSoFar(rows, n - 1) \cup {n}
         /\ n \in Filled(rows) /\ rows[n].primary =>
              /\ OwnSoFar(rows, n) = {n}
              /\ OwnSoFar(rows, n - 1) = RowsOfItem(rows, Opened(rows, n - 1))
<1>1. PICK N \in Nat : N = Len(rows) /\ Filled(rows) \subseteq 1..N
  BY DEF Filled
<1>2. PICK c \in Nat : c = Opened(rows, n - 1)
  <2>1. n - 1 \in 0..Len(rows)
    OBVIOUS
  <2> QED
    BY <2>1, OpenedFacts
<1>3. Opened(rows, n) = IF n \in Filled(rows) /\ rows[n].primary THEN c + 1 ELSE c
  BY <1>2, OpenedFacts
<1>4. \A i \in 1..N : /\ Opened(rows, i) \in Nat
                      /\ i <= n - 1 => Opened(rows, i) <= c
                      /\ i >= n => Opened(rows, i) >= Opened(rows, n)
  <2>1. n - 1 \in 0..N /\ n \in 0..N /\ 1..N \subseteq 0..N
    BY <1>1
  <2> QED
    BY <1>1, <1>2, <2>1, OpenedFacts
<1>5. \A i \in Filled(rows) : i \in 1..N /\ (i <= n <=> i <= n - 1 \/ i = n)
  BY <1>1
<1>6. OwnSoFar(rows, n - 1) \in SUBSET (1..(n - 1))
  BY <1>1, <1>5 DEF OwnSoFar
<1>7. CASE n \notin Filled(rows)
  BY <1>2, <1>3, <1>5, <1>6, <1>7 DEF OwnSoFar
<1>8. CASE n \in Filled(rows) /\ ~ rows[n].primary
  BY <1>2, <1>3, <1>5, <1>6, <1>8 DEF OwnSoFar
<1>9. CASE n \in Filled(rows) /\ rows[n].primary
  <2>1. Opened(rows, n) = c + 1
    BY <1>3, <1>9
  <2>2. OwnSoFar(rows, n) = {n}
    <3>1. \A i \in Filled(rows) : i <= n /\ Opened(rows, i) = c + 1 => i = n
      BY <1>4, <1>5
    <3>2. n <= n
      OBVIOUS
    <3> QED
      BY <1>9, <2>1, <3>1, <3>2 DEF OwnSoFar
  <2>3. OwnSoFar(rows, n - 1) = RowsOfItem(rows, c)
    BY <1>2, <1>4, <1>5, <2>1 DEF OwnSoFar, RowsOfItem
  <2> QED
    BY <1>2, <1>6, <1>9, <2>2, <2>3
<1> QED
  BY <1>7, <1>8, <1>9

\* A reading of an item whose rows have all been read is closed by an item more.
LEMMA ItemFlushed ==
  ASSUME NEW rows \in Seq(Row), NEW count \in Nat, NEW items, NEW total, NEW score, NEW subs,
         ItemsRead(rows, items, total, count),
         OwnReads(rows, RowsOfItem(rows, count + 1), score, subs)
  PROVE  \E longer, sum : /\ Flush(Read(items, total, Under(score, subs))) = Read(longer, sum, NotOpened)
                          /\ ItemsRead(rows, longer, sum, count + 1)
<1>1. PICK item : /\ item = [score |-> score, subs |-> SubScores(score, subs)]
                  /\ item \in Item /\ ReadsItem(rows, count + 1, item)
  BY ItemIsRead
<1>2. subs # <<>>
  BY DEF OwnReads
<1>3. Flush(Read(items, total, Under(score, subs)))
        = Read(Append(items, item), total + score, NotOpened)
  BY <1>1, <1>2 DEF Flush, Read, Under
<1>4. ItemsRead(rows, Append(items, item), total + item.score, count + 1)
  BY <1>1, ItemAdded
<1>5. item.score = score
  BY <1>1
<1> QED
  BY <1>3, <1>4, <1>5

\* What a row does to a reading: one between two items, or one of an item under way.
LEMMA RowOpens ==
  ASSUME NEW row \in Row, ~ row.blank, row.primary, NEW items, NEW total, NEW current,
         NEW longer, NEW sum, Flush(Read(items, total, current)) = Read(longer, sum, NotOpened)
  PROVE  ReadRow(Read(items, total, current), row)
           = IF GoodRow(row) THEN Read(longer, sum, Under(row.score, <<row.sub>>)) ELSE Refused
<1>1. /\ row.complete \in BOOLEAN /\ row.score \in Nat /\ row.sub \in Int
  BY DEF Row
<1>2. PICK read : read = Read(items, total, current)
  OBVIOUS
<1>3. read.refused = FALSE
  BY <1>2 DEF Read
<1>4. ReadRow(read, row) =
        IF row.score = 0 THEN Refused
        ELSE AddSubItem(Read(longer, sum, NotOpened), row.score, <<>>, row)
  <2>1. Read(longer, sum, NotOpened).refused = FALSE
    BY DEF Read
  <2> QED
    BY <1>2, <1>3, <2>1 DEF ReadRow
<1>6. AddSubItem(Read(longer, sum, NotOpened), row.score, <<>>, row)
        = IF ~ row.complete \/ row.sub < 0 THEN Refused
          ELSE Read(longer, sum, Under(row.score, <<row.sub>>))
  <2>1. Append(<<>>, row.sub) = <<row.sub>>
    OBVIOUS
  <2> QED
    BY <2>1 DEF AddSubItem, Read
<1>7. GoodRow(row) <=> row.complete /\ ~ (row.sub < 0) /\ row.score # 0
  BY <1>1 DEF GoodRow
<1> QED
  BY <1>2, <1>4, <1>6, <1>7

LEMMA RowJoins ==
  ASSUME NEW row \in Row, ~ row.blank, ~ row.primary, NEW items, NEW total, NEW score, NEW subs
  PROVE  /\ ReadRow(Read(items, total, NotOpened), row) = Refused
         /\ ReadRow(Read(items, total, Under(score, subs)), row)
              = IF GoodRow(row) THEN Read(items, total, Under(score, Append(subs, row.sub)))
                ELSE Refused
<1>1. /\ row.complete \in BOOLEAN /\ row.score \in Nat /\ row.sub \in Int
  BY DEF Row
<1>2. ReadRow(Read(items, total, NotOpened), row) = Refused
  BY DEF ReadRow, Read, NotOpened
<1>3. ReadRow(Read(items, total, Under(score, subs)), row)
        = AddSubItem(Read(items, total, Under(score, subs)), score, subs, row)
  BY DEF ReadRow, Read, Under
<1>4. AddSubItem(Read(items, total, Under(score, subs)), score, subs, row)
        = IF ~ row.complete \/ row.sub < 0 THEN Refused
          ELSE Read(items, total, Under(score, Append(subs, row.sub)))
  BY DEF AddSubItem, Read
<1>5. GoodRow(row) <=> row.complete /\ ~ (row.sub < 0)
  BY <1>1 DEF GoodRow
<1> QED
  BY <1>2, <1>3, <1>4, <1>5

LEMMA RowPasses ==
  ASSUME NEW row \in Row, NEW items, NEW total, NEW current
  PROVE  /\ ReadRow(Refused, row) = Refused
         /\ row.blank => ReadRow(Read(items, total, current), row) = Read(items, total, current)
<1>1. row.blank \in BOOLEAN
  BY DEF Row
<1>2. row.blank => ReadRow(Read(items, total, current), row) = Read(items, total, current)
  BY <1>1 DEF ReadRow, Read
<1>3. ReadRow(Refused, row) = Refused
  BY <1>1 DEF ReadRow, Refused
<1> QED
  BY <1>2, <1>3

\* Row by row, what has been read is what the rows so far say.
LEMMA RowStep ==
  ASSUME NEW rows \in Seq(Row), NEW n \in 1..Len(rows), NEW read, SoFar(rows, n - 1, read)
  PROVE  SoFar(rows, n, ReadRow(read, rows[n]))
<1>1. PICK row \in Row : row = rows[n]
  OBVIOUS
<1>2. PICK N \in Nat : N = Len(rows) /\ Filled(rows) \subseteq 1..N
  BY DEF Filled
<1>3. PICK c \in Nat : c = Opened(rows, n - 1)
  <2>1. n - 1 \in 0..Len(rows)
    OBVIOUS
  <2> QED
    BY <2>1, OpenedFacts
<1>4. Opened(rows, n) = IF n \in Filled(rows) /\ row.primary THEN c + 1 ELSE c
  BY <1>1, <1>3, OpenedFacts
<1>5. n \in Filled(rows) <=> ~ row.blank
  BY <1>1 DEF Filled
<1>6. \A i \in Filled(rows) : i <= n <=> i <= n - 1 \/ i = n
  BY <1>2
<1>7. CASE read = Refused /\ ~ WellFormed(rows)
  BY <1>1, <1>7, RowPasses DEF SoFar
<1>8. CASE /\ \A i \in Filled(rows) : i <= n - 1 => GoodRow(rows[i]) /\ Opened(rows, i) > 0
           /\ \E items, total :
                \/ /\ c = 0 /\ read = Read(items, total, NotOpened)
                   /\ ItemsRead(rows, items, total, 0)
                \/ /\ c > 0 /\ ItemsRead(rows, items, total, c - 1)
                   /\ \E score, subs : /\ read = Read(items, total, Under(score, subs))
                                       /\ OwnReads(rows, OwnSoFar(rows, n - 1), score, subs)
  <2>1. PICK items, total :
          \/ /\ c = 0 /\ read = Read(items, total, NotOpened)
             /\ ItemsRead(rows, items, total, 0)
          \/ /\ c > 0 /\ ItemsRead(rows, items, total, c - 1)
             /\ \E score, subs : /\ read = Read(items, total, Under(score, subs))
                                 /\ OwnReads(rows, OwnSoFar(rows, n - 1), score, subs)
    BY <1>8
  <2>2. CASE row.blank
    <3>1. ReadRow(read, rows[n]) = read
      BY <1>1, <2>1, <2>2, RowPasses
    <3>2. OwnSoFar(rows, n) = OwnSoFar(rows, n - 1) /\ Opened(rows, n) = c
      BY <1>4, <1>5, <2>2, OwnSteps
    <3>3. \A i \in Filled(rows) : i <= n => GoodRow(rows[i]) /\ Opened(rows, i) > 0
      BY <1>5, <1>6, <1>8, <2>2
    <3> QED
      BY <2>1, <3>1, <3>2, <3>3 DEF SoFar
  <2>3. ASSUME ~ row.blank, ~ GoodRow(row)
        PROVE  ~ WellFormed(rows)
    BY <1>1, <1>5, <2>3 DEF WellFormed
  <2>4. CASE ~ row.blank /\ row.primary
    <3>1. /\ Opened(rows, n) = c + 1 /\ OwnSoFar(rows, n) = {n}
          /\ OwnSoFar(rows, n - 1) = RowsOfItem(rows, c)
      BY <1>1, <1>3, <1>4, <1>5, <2>4, OwnSteps
    <3>2. PICK longer, sum, current :
            /\ read = Read(items, total, current)
            /\ Flush(Read(items, total, current)) = Read(longer, sum, NotOpened)
            /\ ItemsRead(rows, longer, sum, c)
      <4>1. CASE /\ c = 0 /\ read = Read(items, total, NotOpened)
                 /\ ItemsRead(rows, items, total, 0)
        <5>1. Flush(Read(items, total, NotOpened)) = Read(items, total, NotOpened)
          BY DEF Flush, Read, NotOpened
        <5> QED
          BY <4>1, <5>1
      <4>2. CASE /\ c > 0 /\ ItemsRead(rows, items, total, c - 1)
                 /\ \E score, subs : /\ read = Read(items, total, Under(score, subs))
                                     /\ OwnReads(rows, OwnSoFar(rows, n - 1), score, subs)
        <5>1. PICK score, subs : /\ read = Read(items, total, Under(score, subs))
                                 /\ OwnReads(rows, OwnSoFar(rows, n - 1), score, subs)
          BY <4>2
        <5>2. c - 1 \in Nat /\ (c - 1) + 1 = c
          BY <4>2
        <5> QED
          BY <3>1, <4>2, <5>1, <5>2, ItemFlushed
      <4> QED
        BY <2>1, <4>1, <4>2
    <3>3. ReadRow(read, rows[n])
            = IF GoodRow(row) THEN Read(longer, sum, Under(row.score, <<row.sub>>)) ELSE Refused
      BY <1>1, <2>4, <3>2, RowOpens
    <3>4. CASE ~ GoodRow(row)
      BY <2>3, <2>4, <3>3, <3>4 DEF SoFar
    <3>5. CASE GoodRow(row)
      <4>1. row.sub \in Nat
        BY <3>5 DEF GoodRow, Row
      <4>2. OwnReads(rows, OwnSoFar(rows, n), row.score, <<row.sub>>)
        BY <1>1, <3>1, <4>1, OwnStarts
      <4>3. \A i \in Filled(rows) : i <= n => GoodRow(rows[i]) /\ Opened(rows, i) > 0
        BY <1>1, <1>6, <1>8, <3>1, <3>5
      <4>4. Opened(rows, n) > 0 /\ Opened(rows, n) - 1 = c
        BY <3>1
      <4> QED
        BY <3>2, <3>3, <3>5, <4>2, <4>3, <4>4 DEF SoFar
    <3> QED
      BY <3>4, <3>5
  <2>5. CASE ~ row.blank /\ ~ row.primary
    <3>1. Opened(rows, n) = c /\ OwnSoFar(rows, n) = OwnSoFar(rows, n - 1) \cup {n}
      BY <1>1, <1>4, <1>5, <2>5, OwnSteps
    <3>2. CASE c = 0 /\ read = Read(items, total, NotOpened)
      <4>1. ReadRow(read, rows[n]) = Refused
        BY <1>1, <2>5, <3>2, RowJoins
      <4>2. ~ WellFormed(rows)
        BY <1>5, <2>5, <3>1, <3>2 DEF WellFormed
      <4> QED
        BY <4>1, <4>2 DEF SoFar
    <3>3. CASE /\ c > 0 /\ ItemsRead(rows, items, total, c - 1)
               /\ \E score, subs : /\ read = Read(items, total, Under(score, subs))
                                   /\ OwnReads(rows, OwnSoFar(rows, n - 1), score, subs)
      <4>1. PICK score, subs : /\ read = Read(items, total, Under(score, subs))
                               /\ OwnReads(rows, OwnSoFar(rows, n - 1), score, subs)
        BY <3>3
      <4>2. ReadRow(read, rows[n])
              = IF GoodRow(row) THEN Read(items, total, Under(score, Append(subs, row.sub)))
                ELSE Refused
        BY <1>1, <2>5, <4>1, RowJoins
      <4>3. CASE ~ GoodRow(row)
        BY <2>3, <2>5, <4>2, <4>3 DEF SoFar
      <4>4. CASE GoodRow(row)
        <5>1. row.sub \in Nat
          BY <4>4 DEF GoodRow, Row
        <5>2. OwnReads(rows, OwnSoFar(rows, n), score, Append(subs, row.sub))
          <6>1. OwnSoFar(rows, n - 1) \in SUBSET (1..(n - 1))
            BY OwnSteps
          <6> QED
            BY <1>1, <2>5, <3>1, <4>1, <5>1, <6>1, OwnGrows
        <5>3. \A i \in Filled(rows) : i <= n => GoodRow(rows[i]) /\ Opened(rows, i) > 0
          BY <1>1, <1>6, <1>8, <3>1, <3>3, <4>4
        <5> QED
          BY <3>1, <3>3, <4>2, <4>4, <5>2, <5>3 DEF SoFar
      <4> QED
        BY <4>3, <4>4
    <3> QED
      BY <2>1, <3>2, <3>3
  <2> QED
    BY <2>2, <2>4, <2>5
<1> QED
  BY <1>3, <1>7, <1>8 DEF SoFar

LEMMA RowsRead ==
  ASSUME NEW rows \in Seq(Row)
  PROVE  \A n \in 0..Len(rows) : SoFar(rows, n, Readings(rows)[n])
<1> DEFINE Failing == {n \in 0..Len(rows) : ~ SoFar(rows, n, Readings(rows)[n])}
<1> SUFFICES ASSUME Failing # {}
             PROVE  FALSE
  OBVIOUS
<1>1. PICK N \in Nat : N = Len(rows) /\ Filled(rows) \subseteq 1..N
  BY DEF Filled
<1>2. PICK n \in Failing : \A m \in Failing : n <= m
  <2>1. Failing \in SUBSET Nat
    OBVIOUS
  <2> HIDE DEF Failing
  <2> QED
    BY <2>1, LeastOne
<1>3. n # 0
  <2>1. PICK none : none = <<>> /\ none \in Seq(Item) /\ Len(none) = 0
    <3>1. <<>> \in Seq(Item) /\ Len(<<>>) = 0
      BY EmptySeq
    <3> QED
      BY <3>1
  <2>2. PICK scores : scores = ItemScores(none) /\ scores \in Seq(Nat) /\ Len(scores) = 0
    BY <2>1, ItemScoresType
  <2>3. Added(scores) = 0
    BY <2>2, SumsFacts DEF Added
  <2>4. ItemsRead(rows, none, 0, 0)
    BY <2>1, <2>2, <2>3 DEF ItemsRead
  <2>5. \A i \in Filled(rows) : ~ (i <= 0)
    BY <1>1
  <2>6. Readings(rows)[0] = Read(none, 0, NotOpened) /\ Opened(rows, 0) = 0
    BY <2>1, ReadingsFacts, OpenedFacts DEF Reading
  <2>7. SoFar(rows, 0, Readings(rows)[0])
    BY <2>4, <2>5, <2>6 DEF SoFar
  <2> QED
    BY <1>2, <2>7
<1>4. n \in 1..Len(rows) /\ n - 1 \in 0..Len(rows) /\ ~ (n <= n - 1)
  BY <1>1, <1>2, <1>3
<1>5. SoFar(rows, n - 1, Readings(rows)[n - 1])
  BY <1>2, <1>4
<1>6. SoFar(rows, n, ReadRow(Readings(rows)[n - 1], rows[n]))
  BY <1>4, <1>5, RowStep
<1>7. SoFar(rows, n, Readings(rows)[n])
  BY <1>4, <1>6, ReadingsFacts
<1> QED
  BY <1>2, <1>7

\* What is left when the last row has been read and its item closed.
LEMMA SheetRead ==
  ASSUME NEW rows \in Seq(Row), NEW read, read = Flush(Readings(rows)[Len(rows)])
  PROVE  \/ (read.refused \/ read.items = <<>>) /\ ~ WellFormed(rows)
         \/ /\ ~ read.refused /\ read.items # <<>> /\ WellFormed(rows)
            /\ ItemsRead(rows, read.items, read.total, Opened(rows, Len(rows)))
<1>1. PICK N \in Nat : N = Len(rows) /\ Filled(rows) \subseteq 1..N
  BY DEF Filled
<1>2. PICK last : last = Readings(rows)[N] /\ SoFar(rows, N, last)
  BY <1>1, RowsRead
<1>3. PICK c \in Nat : c = Opened(rows, N)
  BY <1>1, OpenedFacts
<1>4. \A i \in Filled(rows) : i <= N /\ Opened(rows, i) \in Nat /\ Opened(rows, i) <= c
  <2>1. N \in 0..N /\ 1..N \subseteq 0..N
    OBVIOUS
  <2> QED
    BY <1>1, <1>3, <2>1, OpenedFacts
<1>5. CASE last = Refused /\ ~ WellFormed(rows)
  BY <1>1, <1>2, <1>5 DEF Flush, Refused, NotOpened
<1>6. CASE /\ \A i \in Filled(rows) : i <= N => GoodRow(rows[i]) /\ Opened(rows, i) > 0
           /\ \E items, total :
                \/ /\ c = 0 /\ last = Read(items, total, NotOpened)
                   /\ ItemsRead(rows, items, total, 0)
                \/ /\ c > 0 /\ ItemsRead(rows, items, total, c - 1)
                   /\ \E score, subs : /\ last = Read(items, total, Under(score, subs))
                                       /\ OwnReads(rows, OwnSoFar(rows, N), score, subs)
  <2>1. PICK items, total :
          \/ /\ c = 0 /\ last = Read(items, total, NotOpened)
             /\ ItemsRead(rows, items, total, 0)
          \/ /\ c > 0 /\ ItemsRead(rows, items, total, c - 1)
             /\ \E score, subs : /\ last = Read(items, total, Under(score, subs))
                                 /\ OwnReads(rows, OwnSoFar(rows, N), score, subs)
    BY <1>6
  <2>2. CASE c = 0 /\ last = Read(items, total, NotOpened) /\ ItemsRead(rows, items, total, 0)
    <3>1. read.items = <<>>
      <4>1. read.items = items
        BY <1>1, <1>2, <2>2 DEF Flush, Read, NotOpened
      <4> QED
        BY <2>2, <4>1 DEF ItemsRead
    <3>2. Filled(rows) = {}
      BY <1>4, <1>6, <2>2
    <3> QED
      BY <3>1, <3>2 DEF WellFormed
  <2>3. CASE /\ c > 0 /\ ItemsRead(rows, items, total, c - 1)
             /\ \E score, subs : /\ last = Read(items, total, Under(score, subs))
                                 /\ OwnReads(rows, OwnSoFar(rows, N), score, subs)
    <3>1. PICK score, subs : /\ last = Read(items, total, Under(score, subs))
                             /\ OwnReads(rows, OwnSoFar(rows, N), score, subs)
      BY <2>3
    <3>2. OwnSoFar(rows, N) = RowsOfItem(rows, c)
      BY <1>3, <1>4 DEF OwnSoFar, RowsOfItem
    <3>3. c - 1 \in Nat /\ (c - 1) + 1 = c
      BY <2>3
    <3>4. PICK longer, sum : /\ Flush(last) = Read(longer, sum, NotOpened)
                             /\ ItemsRead(rows, longer, sum, c)
      BY <2>3, <3>1, <3>2, <3>3, ItemFlushed
    <3>5. read.refused = FALSE /\ read.items = longer /\ read.total = sum
      BY <1>1, <1>2, <3>4 DEF Read
    <3>6. longer # <<>>
      BY <2>3, <3>4 DEF ItemsRead
    <3>7. Filled(rows) # {}
      <4> SUFFICES ASSUME Filled(rows) = {}
                   PROVE  FALSE
        OBVIOUS
      <4>1. Opened(rows, N) = Cardinality({})
        <5>1. {j \in Filled(rows) : j <= N /\ rows[j].primary} = {}
          OBVIOUS
        <5> QED
          BY <5>1 DEF Opened
      <4> QED
        BY <1>3, <2>3, <4>1, FS_EmptySet
    <3>8. WellFormed(rows)
      BY <1>4, <1>6, <3>7 DEF WellFormed
    <3> QED
      BY <1>1, <1>3, <3>4, <3>5, <3>6, <3>8
  <2> QED
    BY <2>1, <2>2, <2>3
<1> QED
  BY <1>2, <1>3, <1>5, <1>6 DEF SoFar

TemplateInv ==
  /\ template.phase = "uploaded" => template.rows \in Seq(Row)
  /\ TemplateIsRead

LEMMA ParseStep ==
  ASSUME TemplateInv, ParseTemplate
  PROVE  TemplateInv'
<1>1. PICK rows \in Seq(Row) : rows = template.rows
  BY DEF TemplateInv, ParseTemplate
<1>2. PICK read : read = Flush(Readings(rows)[Len(rows)])
  OBVIOUS
<1>3. template' = [phase |-> IF read.refused \/ read.items = <<>> THEN "refused" ELSE "parsed",
                   rows |-> rows, items |-> read.items, totalScore |-> Round(read.total, 100)]
  BY <1>1, <1>2 DEF ParseTemplate
<1>4. /\ template'.phase = IF read.refused \/ read.items = <<>> THEN "refused" ELSE "parsed"
      /\ template'.rows = rows /\ template'.items = read.items
      /\ template'.totalScore = Round(read.total, 100)
  BY <1>3
<1>5. CASE (read.refused \/ read.items = <<>>) /\ ~ WellFormed(rows)
  BY <1>4, <1>5 DEF TemplateInv, TemplateIsRead
<1>6. CASE /\ ~ read.refused /\ read.items # <<>> /\ WellFormed(rows)
           /\ ItemsRead(rows, read.items, read.total, Opened(rows, Len(rows)))
  <2>1. PICK items \in Seq(Item) : items = read.items
    BY <1>6 DEF ItemsRead
  <2>2. PICK count \in Nat : count = Len(items) /\ count = Opened(rows, Len(rows))
    BY <1>6, <2>1 DEF ItemsRead
  <2>3. \A k \in 1..count : ReadsItem(rows, k, items[k])
    BY <1>6, <2>1, <2>2 DEF ItemsRead
  <2>4. DOMAIN items = 1..count
    <3>1. DOMAIN items = 1..Len(items)
      BY LenProperties
    <3> QED
      BY <2>2, <3>1
  <2>5. ItemScores(items) = [k \in DOMAIN items |-> items[k].score]
    BY <2>2, <2>4 DEF ItemScores
  <2>6. read.total = Added([k \in DOMAIN items |-> items[k].score])
    BY <1>6, <2>1, <2>5 DEF ItemsRead
  <2>7. /\ template'.phase = "parsed" /\ template'.rows = rows /\ template'.items = items
        /\ template'.totalScore = Round(read.total, 100)
    BY <1>4, <1>6, <2>1
  <2>8. TemplateIsRead'
    BY <1>6, <2>2, <2>3, <2>4, <2>6, <2>7 DEF TemplateIsRead
  <2> QED
    BY <2>7, <2>8 DEF TemplateInv
<1> QED
  BY <1>1, <1>2, <1>5, <1>6, SheetRead

\* A rubric sheet is accepted exactly when it is well formed, and then read as its rows
\* say, item by item and with the total of the items: parseRubricTemplate and flushCurrent
\* (internal/modules/project/rubric_parser.go), for every sheet.
THEOREM TemplatesAreRead == RubricTemplateSpec => []TemplateIsRead
<1>1. RubricTemplateInit => TemplateInv
  <2> SUFFICES ASSUME NEW n \in 0..MaxRows, NEW rows \in [1..n -> Rows],
                      template = [phase |-> "uploaded", rows |-> rows]
               PROVE  TemplateInv
    BY DEF RubricTemplateInit
  <2>1. n \in Nat
    BY RubricTemplateAssumption
  <2>2. rows \in Seq(Row)
    BY <2>1, RubricTemplateAssumption
  <2> QED
    BY <2>2 DEF TemplateInv, TemplateIsRead
<1>2. TemplateInv /\ [ParseTemplate]_template => TemplateInv'
  <2>1. ASSUME TemplateInv, UNCHANGED template
        PROVE  TemplateInv'
    BY <2>1 DEF TemplateInv, TemplateIsRead
  <2> QED
    BY <2>1, ParseStep
<1>3. TemplateInv => TemplateIsRead
  BY DEF TemplateInv
<1> QED
  BY <1>1, <1>2, <1>3, PTL DEF RubricTemplateSpec

(***************************************************************************)
(* Dealing.                                                                *)
(***************************************************************************)

\* The places of the elements of a set in an order of it, or in a list without
\* repetitions.
LEMMA OrderedOnce ==
  ASSUME NEW S, IsFiniteSet(S), NEW f \in Orders(S)
  PROVE  Cardinality(S) \in Nat /\ f \in Bijection(1..Cardinality(S), S)
<1>1. PICK n \in Nat : n = Cardinality(S)
  BY FS_CardinalityType
<1>2. f \in [1..n -> S] /\ \A i, j \in 1..n : f[i] = f[j] => i = j
  BY <1>1 DEF Orders
<1>3. f \in Injection(1..n, S)
  BY <1>2 DEF Injection, IsInjective
<1>4. Cardinality(1..n) = n
  BY FS_Interval
<1>5. f \in Surjection(1..n, S)
  BY <1>1, <1>3, <1>4, FS_Injection
<1> QED
  BY <1>1, <1>3, <1>5 DEF Bijection

LEMMA ListedOnce ==
  ASSUME NEW D, NEW s \in Seq(D)
  PROVE  /\ IsFiniteSet(ToSet(s)) /\ Cardinality(ToSet(s)) \in Nat
         /\ Len(s) = Cardinality(ToSet(s)) => s \in Bijection(1..Len(s), ToSet(s))
<1>1. PICK n \in Nat : n = Len(s) /\ DOMAIN s = 1..n /\ s \in [1..n -> D]
  BY LenProperties
<1>2. s \in Surjection(1..n, ToSet(s))
  BY <1>1 DEF Surjection, ToSet
<1>3. IsFiniteSet(1..n) /\ Cardinality(1..n) = n
  BY FS_Interval
<1>4. IsFiniteSet(ToSet(s)) /\ (Cardinality(ToSet(s)) = n <=> s \in Injection(1..n, ToSet(s)))
  BY <1>2, <1>3, FS_Surjection
<1> QED
  BY <1>1, <1>2, <1>4, FS_CardinalityType DEF Bijection

\* As many elements as places.
LEMMA AsManyPlaces ==
  ASSUME NEW n \in Nat, NEW S, NEW f \in Bijection(1..n, S),
         NEW P \in SUBSET (1..n), NEW T \in SUBSET S,
         \A p \in 1..n : p \in P <=> f[p] \in T
  PROVE  IsFiniteSet(P) /\ Cardinality(T) = Cardinality(P)
<1>1. IsFiniteSet(P)
  <2>1. IsFiniteSet(1..n)
    BY FS_Interval
  <2> QED
    BY <2>1, FS_Subset
<1>2. /\ f \in [1..n -> S]
      /\ \A p, q \in 1..n : f[p] = f[q] => p = q
      /\ \A t \in S : \E p \in 1..n : f[p] = t
  BY DEF Bijection, Injection, Surjection, IsInjective
<1>3. PICK g : g = [p \in P |-> f[p]]
  OBVIOUS
<1>4. g \in [P -> T]
  BY <1>3
<1>5. \A p, q \in P : g[p] = g[q] => p = q
  BY <1>2, <1>3
<1>6. \A t \in T : \E p \in P : g[p] = t
  BY <1>2, <1>3
<1>7. g \in Bijection(P, T)
  BY <1>4, <1>5, <1>6 DEF Bijection, Injection, Surjection, IsInjective
<1>8. ExistsBijection(P, T)
  BY <1>7 DEF ExistsBijection
<1> QED
  BY <1>1, <1>8, FS_Bijection

LEMMA GreatestOne ==
  ASSUME NEW n \in Nat, NEW T \in SUBSET (1..n), T # {}
  PROVE  Max(T) \in T /\ \A y \in T : y <= Max(T)
<1> DEFINE Bounds == {k \in Nat : \A y \in T : y <= k}
<1>1. PICK k \in Bounds : \A b \in Bounds : k <= b
  <2>1. n \in Bounds
    OBVIOUS
  <2>2. Bounds \in SUBSET Nat
    OBVIOUS
  <2> HIDE DEF Bounds
  <2> QED
    BY <2>1, <2>2, LeastOne
<1>2. k # 0
  <2>1. PICK y \in T : y \in 1..n
    OBVIOUS
  <2> QED
    BY <1>1, <2>1
<1>3. k \in T
  <2> SUFFICES ASSUME k \notin T
               PROVE  FALSE
    OBVIOUS
  <2>1. \A y \in T : y <= k - 1
    BY <1>1
  <2>2. k - 1 \in Bounds /\ ~ (k <= k - 1)
    BY <1>2, <2>1
  <2> QED
    BY <1>1, <2>2
<1>4. \E x \in T : \A y \in T : x >= y
  BY <1>1, <1>3
<1>5. Max(T) \in T /\ \A y \in T : Max(T) >= y
  BY <1>4 DEF Max
<1> QED
  BY <1>5

(***************************************************************************)
(* In turn.                                                                *)
(***************************************************************************)

\* Whose turn it is at place p, of m.
Turn(p, m) == ((p - 1) % m) + 1

LEMMA TurnType ==
  ASSUME NEW m \in Nat \ {0}, NEW p \in Nat \ {0}
  PROVE  /\ Turn(p, m) \in 1..m
         /\ \E q \in Nat : p = q * m + Turn(p, m)
<1>1. PICK x \in Nat : x = p - 1
  OBVIOUS
<1>2. x % m \in 0..(m - 1)
  OBVIOUS
<1>3. PICK q \in Nat : x = q * m + (x % m)
  <2>1. x = (x \div m) * m + (x % m)
    BY SMTT(20)
  <2>2. x \div m \in Int
    OBVIOUS
  <2>3. x \div m >= 0
    OBVIOUS
  <2>4. PICK q \in Nat : q = x \div m
    BY <2>2, <2>3
  <2>5. x = q * m + (x % m)
    BY <2>1, <2>4
  <2> QED
    BY <2>5
<1>4. PICK r \in 0..(m - 1) : r = x % m
  BY <1>2
<1>5. Turn(p, m) = r + 1
  BY <1>1, <1>4 DEF Turn
<1>6. x = q * m + r
  BY <1>3, <1>4
<1>7. p = q * m + (r + 1) /\ r + 1 \in 1..m
  BY <1>1, <1>6
<1> QED
  BY <1>5, <1>7

LEMMA TurnIs ==
  ASSUME NEW m \in Nat \ {0}, NEW p \in Nat \ {0}, NEW q \in Nat, NEW i \in 1..m,
         p = q * m + i
  PROVE  Turn(p, m) = i
<1>1. PICK x \in Nat, r \in 0..(m - 1) : x = p - 1 /\ r = i - 1 /\ x = q * m + r
  BY Z3
<1>2. x % m = r
  BY <1>1, SMTT(20)
<1> QED
  BY <1>1, <1>2 DEF Turn

\* The places of i, among n.
Turns(n, m, i) == {p \in 1..n : Turn(p, m) = i}

\* One element less, or none less if there was none.
LEMMA OneLess ==
  ASSUME NEW S, IsFiniteSet(S), NEW x
  PROVE  /\ IsFiniteSet(S \ {x}) /\ Cardinality(S \ {x}) \in Nat /\ Cardinality(S) \in Nat
         /\ Cardinality(S) <= Cardinality(S \ {x}) + 1
<1>1. /\ IsFiniteSet(S \ {x})
      /\ Cardinality(S \ {x}) = IF x \in S THEN Cardinality(S) - 1 ELSE Cardinality(S)
  BY FS_RemoveElement
<1> QED
  BY <1>1, FS_CardinalityType

\* Nobody has more than one turn more than another.
LEMMA TurnsAreFair ==
  ASSUME NEW n \in Nat, NEW m \in Nat \ {0}, NEW i \in 1..m, NEW j \in 1..m
  PROVE  Cardinality(Turns(n, m, i)) <= Cardinality(Turns(n, m, j)) + 1
<1>1. /\ IsFiniteSet(Turns(n, m, i)) /\ Cardinality(Turns(n, m, i)) \in Nat
      /\ IsFiniteSet(Turns(n, m, j)) /\ Cardinality(Turns(n, m, j)) \in Nat
  <2>1. IsFiniteSet(1..n)
    BY FS_Interval
  <2>2. Turns(n, m, i) \in SUBSET (1..n) /\ Turns(n, m, j) \in SUBSET (1..n)
    BY DEF Turns
  <2> QED
    BY <2>1, <2>2, FS_Subset, FS_CardinalityType
<1>2. ASSUME NEW p \in Turns(n, m, i)
      PROVE  /\ j <= i => p - (i - j) \in Turns(n, m, j)
             /\ i < j /\ p # i => p + (j - i) - m \in Turns(n, m, j)
  <2>1. p \in 1..n /\ Turn(p, m) = i
    BY DEF Turns
  <2>2. PICK q \in Nat : p = q * m + i
    <3>1. p \in Nat \ {0}
      BY <2>1
    <3> QED
      BY <2>1, <3>1, TurnType
  <2>3. ASSUME j <= i
        PROVE  p - (i - j) \in Turns(n, m, j)
    <3>1. PICK r : r = p - (i - j)
      OBVIOUS
    <3>2. q * m \in Nat
      OBVIOUS
    <3>3. r = q * m + j /\ r \in 1..n
      BY <2>1, <2>2, <2>3, <3>1, <3>2
    <3>4. Turn(r, m) = j
      <4>1. r \in Nat \ {0}
        BY <3>3
      <4> QED
        BY <3>3, <4>1, TurnIs
    <3> QED
      BY <3>1, <3>3, <3>4 DEF Turns
  <2>4. ASSUME i < j, p # i
        PROVE  p + (j - i) - m \in Turns(n, m, j)
    <3>1. PICK r : r = p + (j - i) - m
      OBVIOUS
    <3>2. q # 0
      BY <2>2, <2>4
    <3>3. PICK c \in Nat : c = q - 1 /\ q * m = c * m + m
      BY <3>2
    <3>4. c * m \in Nat
      OBVIOUS
    <3>5. r = c * m + j /\ r \in 1..n
      BY <2>1, <2>2, <2>4, <3>1, <3>3, <3>4
    <3>6. Turn(r, m) = j
      <4>1. r \in Nat \ {0}
        BY <3>5
      <4> QED
        BY <3>5, <4>1, TurnIs
    <3> QED
      BY <3>1, <3>5, <3>6 DEF Turns
  <2> QED
    BY <2>3, <2>4
<1>3. \A p \in Turns(n, m, i) : p \in Int
  BY DEF Turns
<1>4. CASE j <= i
  <2>1. PICK f : f = [p \in Turns(n, m, i) |-> p - (i - j)]
    OBVIOUS
  <2>2. f \in [Turns(n, m, i) -> Turns(n, m, j)]
    BY <1>2, <1>4, <2>1
  <2>3. \A p, q \in Turns(n, m, i) : f[p] = f[q] => p = q
    BY <1>3, <2>1
  <2>4. f \in Injection(Turns(n, m, i), Turns(n, m, j))
    BY <2>2, <2>3 DEF Injection, IsInjective
  <2>5. Cardinality(Turns(n, m, i)) <= Cardinality(Turns(n, m, j))
    BY <1>1, <2>4, FS_Injection
  <2> QED
    BY <1>1, <2>5
<1>5. CASE i < j
  <2>1. PICK Later : Later = Turns(n, m, i) \ {i}
    OBVIOUS
  <2>2. PICK f : f = [p \in Later |-> p + (j - i) - m]
    OBVIOUS
  <2>3. f \in [Later -> Turns(n, m, j)]
    BY <1>2, <1>5, <2>1, <2>2
  <2>4. \A p, q \in Later : f[p] = f[q] => p = q
    BY <1>3, <2>1, <2>2
  <2>5. f \in Injection(Later, Turns(n, m, j))
    BY <2>3, <2>4 DEF Injection, IsInjective
  <2>6. Cardinality(Later) <= Cardinality(Turns(n, m, j))
    BY <1>1, <2>5, FS_Injection
  <2>7. Cardinality(Later) \in Nat /\ Cardinality(Turns(n, m, i)) <= Cardinality(Later) + 1
    BY <1>1, <2>1, OneLess
  <2> QED
    BY <1>1, <2>6, <2>7
<1> QED
  BY <1>4, <1>5

\* Dealt out in turn, the shares of two scorers differ by one at most.
LEMMA SharesAreFair ==
  ASSUME NEW n \in Nat, NEW V, NEW cards \in Bijection(1..n, V),
         NEW m \in Nat \ {0}, NEW S, NEW order \in Bijection(1..m, S), NEW to,
         \A p \in 1..n : to[cards[p]] = order[Turn(p, m)],
         NEW s \in S, NEW t \in S
  PROVE  Cardinality({v \in V : to[v] = s}) <= Cardinality({v \in V : to[v] = t}) + 1
<1>1. /\ \A i, j \in 1..m : order[i] = order[j] => i = j
      /\ \A x \in S : \E i \in 1..m : order[i] = x
  BY DEF Bijection, Injection, Surjection, IsInjective
<1>2. \A p \in 1..n : cards[p] \in V
  BY DEF Bijection, Injection
<1>3. ASSUME NEW x \in S
      PROVE  \E i \in 1..m : Cardinality({v \in V : to[v] = x}) = Cardinality(Turns(n, m, i))
  <2>1. PICK i \in 1..m : order[i] = x
    BY <1>1
  <2>2. \A p \in 1..n : Turn(p, m) \in 1..m
    BY TurnType
  <2>3. PICK P : P = Turns(n, m, i) /\ P \in SUBSET (1..n)
    BY DEF Turns
  <2>4. PICK T : T = {v \in V : to[v] = x} /\ T \in SUBSET V
    OBVIOUS
  <2>5. \A p \in 1..n : p \in P <=> cards[p] \in T
    BY <1>1, <1>2, <2>1, <2>2, <2>3, <2>4 DEF Turns
  <2>6. Cardinality(T) = Cardinality(P)
    BY <2>3, <2>4, <2>5, AsManyPlaces
  <2> QED
    BY <2>3, <2>4, <2>6
<1> QED
  BY <1>3, TurnsAreFair

(***************************************************************************)
(* By quantities.                                                          *)
(***************************************************************************)

\* Whose quantity place p falls in.
FallsIn(qs, p, k) == Sums(qs)[k - 1] < p /\ p <= Sums(qs)[k]

LEMMA PlacesByQuantity ==
  ASSUME NEW qs \in Seq(Nat)
  PROVE  /\ \A p \in 1..Added(qs) : \E k \in 1..Len(qs) : FallsIn(qs, p, k)
         /\ \A p \in 1..Added(qs), j \in 1..Len(qs), k \in 1..Len(qs) :
              FallsIn(qs, p, j) /\ FallsIn(qs, p, k) => j = k
         /\ \A k \in 1..Len(qs) :
              Cardinality({p \in 1..Added(qs) : FallsIn(qs, p, k)}) = qs[k]
<1>1. PICK N \in Nat : N = Len(qs)
  OBVIOUS
<1>2. PICK g : g = Sums(qs)
  OBVIOUS
<1>3. /\ g[0] = 0
      /\ \A k \in 1..N : g[k] = g[k - 1] + qs[k]
      /\ \A k \in 0..N : g[k] \in Nat
      /\ \A j \in 0..N, k \in 0..N : j <= k => g[j] <= g[k]
  BY <1>1, <1>2, SumsFacts, SumsType
<1>4. PICK n \in Nat : n = Added(qs) /\ n = g[N]
  <2>1. g[N] \in Nat
    BY <1>3
  <2> QED
    BY <1>1, <1>2, <2>1 DEF Added
<1>5. \A k \in 1..N : k - 1 \in 0..N /\ k \in 0..N
  OBVIOUS
<1>6. \A p, k : FallsIn(qs, p, k) <=> g[k - 1] < p /\ p <= g[k]
  BY <1>2 DEF FallsIn
<1>7. ASSUME NEW p \in 1..n
      PROVE  \E k \in 1..N : FallsIn(qs, p, k)
  <2> DEFINE Reaches == {k \in 0..N : p <= g[k]}
  <2>1. N \in Reaches
    BY <1>4
  <2>2. PICK k \in Reaches : \A j \in Reaches : k <= j
    <3>1. Reaches \in SUBSET Nat
      OBVIOUS
    <3> HIDE DEF Reaches
    <3> QED
      BY <2>1, <3>1, LeastOne
  <2>3. k # 0
    BY <1>3, <2>2
  <2>4. k \in 1..N /\ k - 1 \in 0..N /\ ~ (k <= k - 1)
    BY <2>2, <2>3
  <2>5. ~ (p <= g[k - 1])
    BY <2>2, <2>4
  <2>6. g[k - 1] < p
    BY <1>3, <2>4, <2>5
  <2> QED
    BY <1>6, <2>2, <2>4, <2>6
<1>8. ASSUME NEW p \in 1..n, NEW j \in 1..N, NEW k \in 1..N, FallsIn(qs, p, j), FallsIn(qs, p, k)
      PROVE  j = k
  <2>1. g[j - 1] < p /\ p <= g[j] /\ g[k - 1] < p /\ p <= g[k]
    BY <1>6, <1>8
  <2>2. j - 1 \in 0..N /\ j \in 0..N /\ k - 1 \in 0..N /\ k \in 0..N
    BY <1>5
  <2>3. j <= k - 1 => g[j] <= g[k - 1]
    BY <1>3, <2>2
  <2>4. k <= j - 1 => g[k] <= g[j - 1]
    BY <1>3, <2>2
  <2>5. g[j - 1] \in Nat /\ g[j] \in Nat /\ g[k - 1] \in Nat /\ g[k] \in Nat
    BY <1>3, <2>2
  <2>6. ~ (j <= k - 1) /\ ~ (k <= j - 1)
    BY <2>1, <2>3, <2>4, <2>5
  <2> QED
    BY <2>6
<1>9. ASSUME NEW k \in 1..N
      PROVE  Cardinality({p \in 1..n : FallsIn(qs, p, k)}) = qs[k]
  <2>1. PICK a \in Nat, b \in Nat : a = g[k - 1] /\ b = g[k]
    BY <1>3, <1>5
  <2>2. b = a + qs[k] /\ qs[k] \in Nat /\ b <= n
    <3>1. N \in 0..N
      OBVIOUS
    <3> QED
      BY SMTT(30), <1>1, <1>3, <1>4, <1>5, <2>1, <3>1
  <2>3. \A p : p \in 1..n /\ FallsIn(qs, p, k) <=> p \in (a + 1)..b
    <3>1. \A p : FallsIn(qs, p, k) <=> a < p /\ p <= b
      BY <1>6, <2>1
    <3>2. \A p : p \in 1..n /\ a < p /\ p <= b <=> p \in (a + 1)..b
      BY <2>2
    <3> QED
      BY <3>1, <3>2
  <2>4. PICK P : P = (a + 1)..b
    OBVIOUS
  <2>5. {p \in 1..n : FallsIn(qs, p, k)} = P
    BY <2>3, <2>4
  <2>6. Cardinality(P) = IF a + 1 > b THEN 0 ELSE b - (a + 1) + 1
    <3>1. a + 1 \in Int /\ b \in Int
      OBVIOUS
    <3> QED
      BY <2>4, <3>1, FS_Interval
  <2>7. Cardinality(P) = b - a
    <3>1. CASE a + 1 > b
      BY <2>2, <2>6, <3>1
    <3>2. CASE ~ (a + 1 > b)
      BY <2>2, <2>6, <3>2
    <3> QED
      BY <3>1, <3>2
  <2>8. b - a = qs[k]
    BY <2>2
  <2> QED
    BY <2>5, <2>7, <2>8
<1> QED
  BY <1>1, <1>4, <1>7, <1>8, <1>9

(***************************************************************************)
(* The deals.                                                              *)
(***************************************************************************)

DealInv ==
  /\ deal.phase = "asked" =>
       /\ deal.videos \in Seq(DealtVideos)
       /\ deal.scorers \in SUBSET DealtScorers /\ deal.scorers # {}
       /\ deal.strategy = "specific" => deal.plan \in Seq(DealtVideos \X DealtScorers)
       /\ deal.strategy = "quantity" => deal.plan \in Seq(DealtScorers \X Nat)
  /\ DealIsFair

\* What a deal leaves of the request.
LEMMA DealBecomes ==
  ASSUME NEW phase, NEW to, Becomes(phase, to)
  PROVE  /\ deal'.phase = phase /\ deal'.to = to
         /\ deal'.strategy = deal.strategy /\ deal'.videos = deal.videos
         /\ deal'.scorers = deal.scorers /\ deal'.plan = deal.plan /\ Asked' = Asked
  BY DEF Becomes, Asked

LEMMA RefusalIsFair ==
  ASSUME DealInv, Refuse
  PROVE  DealInv'
  BY DealBecomes DEF Refuse, DealInv, DealIsFair

\* The scorers in an order of theirs.
LEMMA ScorersInOrder ==
  ASSUME DealInv, deal.phase = "asked", NEW order \in Orders(deal.scorers)
  PROVE  /\ Len(order) \in Nat \ {0}
         /\ order \in Bijection(1..Len(order), deal.scorers)
<1>1. IsFiniteSet(deal.scorers) /\ deal.scorers # {}
  BY DealingAssumption, FS_Subset DEF DealInv
<1>2. PICK m \in Nat : m = Cardinality(deal.scorers) /\ order \in Bijection(1..m, deal.scorers)
  BY <1>1, OrderedOnce
<1>3. m # 0
  BY <1>1, <1>2, FS_EmptySet
<1>4. order \in [1..m -> deal.scorers]
  BY <1>2 DEF Bijection, Injection
<1>5. Len(order) = m
  <2>1. order \in Seq(deal.scorers)
    BY <1>4
  <2> QED
    BY <1>4, <2>1, LenProperties
<1> QED
  BY <1>2, <1>3, <1>5

LEMMA DealInTurnIsFair ==
  ASSUME DealInv, DealInTurn
  PROVE  DealInv'
<1> DEFINE places(v) == {i \in DOMAIN deal.videos : deal.videos[i] = v}
<1>1. PICK order \in Orders(deal.scorers) :
        Becomes("dealt", [v \in Asked |->
          order[((Max({i \in DOMAIN deal.videos : deal.videos[i] = v}) - 1) % Len(order)) + 1]])
  BY DEF DealInTurn
<1>2. /\ deal.phase = "asked" /\ deal.strategy = "average"
      /\ deal.videos \in Seq(DealtVideos) /\ deal.scorers # {}
  BY DEF DealInTurn, DealInv
<1>3. PICK n \in Nat : n = Len(deal.videos) /\ DOMAIN deal.videos = 1..n
  BY <1>2, LenProperties
<1>4. PICK m \in Nat \ {0} : m = Len(order) /\ order \in Bijection(1..m, deal.scorers)
  BY <1>2, ScorersInOrder
<1>5. PICK to : to = [v \in Asked |-> order[Turn(Max(places(v)), m)]] /\ Becomes("dealt", to)
  BY <1>1, <1>4 DEF Turn
<1>6. /\ deal'.phase = "dealt" /\ deal'.to = to /\ deal'.strategy = "average"
      /\ deal'.videos = deal.videos /\ deal'.scorers = deal.scorers /\ Asked' = Asked
  BY <1>2, <1>5, DealBecomes
<1>7. ASSUME NEW v \in Asked
      PROVE  Max(places(v)) \in 1..n /\ deal.videos[Max(places(v))] = v
  <2>1. PICK P \in SUBSET (1..n) : P = places(v)
    BY <1>3
  <2>2. P # {}
    BY <1>3, <2>1 DEF Asked, ToSet
  <2>3. Max(P) \in P
    BY <2>1, <2>2, GreatestOne
  <2> QED
    BY <2>1, <2>3
<1>8. \A v \in Asked : to[v] \in deal.scorers
  <2> SUFFICES ASSUME NEW v \in Asked
               PROVE  to[v] \in deal.scorers
    OBVIOUS
  <2>1. PICK p \in Nat \ {0} : p = Max(places(v))
    <3>1. PICK p \in 1..n : p = Max(places(v))
      BY <1>7
    <3>2. p \in Nat \ {0}
      OBVIOUS
    <3> QED
      BY <3>1, <3>2
  <2>2. to[v] = order[Turn(p, m)] /\ Turn(p, m) \in 1..m
    BY <1>5, <2>1, TurnType
  <2>3. order \in [1..m -> deal.scorers]
    BY <1>4 DEF Bijection, Injection
  <2> QED
    BY <2>2, <2>3
<1>9. ASSUME n = Cardinality(Asked), NEW s \in deal.scorers, NEW t \in deal.scorers
      PROVE  Cardinality({v \in Asked : to[v] = s}) <= Cardinality({v \in Asked : to[v] = t}) + 1
  <2>1. deal.videos \in Bijection(1..n, Asked)
    BY <1>2, <1>3, <1>9, ListedOnce DEF Asked
  <2>2. ASSUME NEW p \in 1..n
        PROVE  to[deal.videos[p]] = order[Turn(p, m)]
    <3>1. PICK v \in Asked : v = deal.videos[p]
      BY <1>3 DEF Asked, ToSet
    <3>2. Max(places(v)) = p
      BY <1>7, <2>1, <3>1 DEF Bijection, Injection, IsInjective
    <3> QED
      BY <1>5, <3>1, <3>2
  <2> HIDE DEF places
  <2> QED
    BY <1>4, <2>1, <2>2, SharesAreFair
<1> HIDE DEF places
<1>10. DealIsFair'
  <2>1. DOMAIN to = Asked
    BY <1>5
  <2>2. ASSUME n = Cardinality(Asked), NEW s \in deal.scorers, NEW t \in deal.scorers
        PROVE  ShareOf(s)' <= ShareOf(t)' + 1
    BY <1>6, <1>9, <2>2 DEF ShareOf
  <2> QED
    BY <1>3, <1>6, <1>8, <2>1, <2>2 DEF DealIsFair
<1> QED
  BY <1>6, <1>10 DEF DealInv

LEMMA DealAsWrittenIsFair ==
  ASSUME DealInv, DealAsWritten
  PROVE  DealInv'
<1>1. CASE Refuse
  BY <1>1, RefusalIsFair
<1>2. ASSUME /\ \A i \in DOMAIN deal.plan : deal.plan[i][1] \in Asked
                                            /\ deal.plan[i][2] \in deal.scorers
             /\ \A v \in Asked : \E i \in DOMAIN deal.plan : deal.plan[i][1] = v,
             Becomes("dealt", [v \in Asked |->
               deal.plan[Max({i \in DOMAIN deal.plan : deal.plan[i][1] = v})][2]])
      PROVE  DealInv'
  <2>1. /\ deal.phase = "asked" /\ deal.strategy = "specific"
        /\ deal.plan \in Seq(DealtVideos \X DealtScorers)
    BY DEF DealAsWritten, DealInv
  <2>2. PICK n \in Nat : n = Len(deal.plan) /\ DOMAIN deal.plan = 1..n
    BY <2>1, LenProperties
  <2>3. PICK to : /\ to = [v \in Asked |->
                       deal.plan[Max({i \in DOMAIN deal.plan : deal.plan[i][1] = v})][2]]
                  /\ Becomes("dealt", to)
    BY <1>2
  <2>4. /\ deal'.phase = "dealt" /\ deal'.to = to /\ deal'.strategy = "specific"
        /\ deal'.scorers = deal.scorers /\ deal'.plan = deal.plan /\ Asked' = Asked
    BY <2>1, <2>3, DealBecomes
  <2>5. ASSUME NEW v \in Asked
        PROVE  \E i \in DOMAIN deal.plan : /\ deal.plan[i] = <<v, to[v]>>
                                           /\ to[v] \in deal.scorers
    <3>1. PICK P \in SUBSET (1..n) : P = {i \in DOMAIN deal.plan : deal.plan[i][1] = v}
      BY <2>2
    <3>2. P # {}
      BY <1>2, <3>1
    <3>3. PICK i \in P : i = Max(P)
      BY <3>1, <3>2, GreatestOne
    <3>4. to[v] = deal.plan[i][2] /\ i \in DOMAIN deal.plan /\ deal.plan[i][1] = v
      BY <2>3, <3>1, <3>3
    <3>5. deal.plan[i] \in DealtVideos \X DealtScorers
      BY <2>1, <2>2, <3>4
    <3> QED
      BY <1>2, <3>4, <3>5
  <2>6. DOMAIN to = Asked
    BY <2>3
  <2>7. DealIsFair'
    BY <2>4, <2>5, <2>6 DEF DealIsFair
  <2> QED
    BY <2>4, <2>7 DEF DealInv
<1> QED
  BY <1>1, <1>2 DEF DealAsWritten

\* The videos that were asked for, in an order drawn by lot.
LEMMA CardsInOrder ==
  ASSUME DealInv, deal.phase = "asked", NEW cards \in Orders(Asked)
  PROVE  /\ IsFiniteSet(Asked) /\ Cardinality(Asked) \in Nat
         /\ cards \in Bijection(1..Cardinality(Asked), Asked)
         /\ \A v \in Asked : /\ PlaceOf(cards, v) \in 1..Cardinality(Asked)
                             /\ cards[PlaceOf(cards, v)] = v
         /\ \A p \in 1..Cardinality(Asked) :
              cards[p] \in Asked /\ PlaceOf(cards, cards[p]) = p
<1>1. IsFiniteSet(Asked)
  BY ListedOnce DEF DealInv, Asked
<1>2. PICK n \in Nat : n = Cardinality(Asked) /\ cards \in Bijection(1..n, Asked)
  BY <1>1, OrderedOnce
<1>3. /\ DOMAIN cards = 1..n
      /\ \A p \in 1..n : cards[p] \in Asked
      /\ \A p, q \in 1..n : cards[p] = cards[q] => p = q
      /\ \A v \in Asked : \E p \in 1..n : cards[p] = v
  BY <1>2 DEF Bijection, Injection, Surjection, IsInjective
<1>4. ASSUME NEW v \in Asked
      PROVE  PlaceOf(cards, v) \in 1..n /\ cards[PlaceOf(cards, v)] = v
  BY <1>3 DEF PlaceOf
<1>5. ASSUME NEW p \in 1..n
      PROVE  PlaceOf(cards, cards[p]) = p
  BY <1>3, <1>4
<1> QED
  BY <1>1, <1>2, <1>3, <1>4, <1>5

LEMMA DealShuffledIsFair ==
  ASSUME DealInv, DealShuffled
  PROVE  DealInv'
<1>1. PICK order \in Orders(deal.scorers), cards \in Orders(Asked) :
        Becomes("dealt", [v \in Asked |->
          order[((PlaceOf(cards, v) - 1) % Len(order)) + 1]])
  BY DEF DealShuffled
<1>2. deal.phase = "asked" /\ deal.strategy = "shuffled"
  BY DEF DealShuffled
<1>3. PICK n \in Nat : /\ n = Cardinality(Asked) /\ cards \in Bijection(1..n, Asked)
                       /\ \A v \in Asked : PlaceOf(cards, v) \in 1..n /\ cards[PlaceOf(cards, v)] = v
                       /\ \A p \in 1..n : cards[p] \in Asked /\ PlaceOf(cards, cards[p]) = p
  BY <1>2, CardsInOrder
<1>4. PICK m \in Nat \ {0} : m = Len(order) /\ order \in Bijection(1..m, deal.scorers)
  BY <1>2, ScorersInOrder
<1>5. PICK to : to = [v \in Asked |-> order[Turn(PlaceOf(cards, v), m)]] /\ Becomes("dealt", to)
  BY <1>1, <1>4 DEF Turn
<1>6. /\ deal'.phase = "dealt" /\ deal'.to = to /\ deal'.strategy = "shuffled"
      /\ deal'.scorers = deal.scorers /\ Asked' = Asked
  BY <1>2, <1>5, DealBecomes
<1>7. \A v \in Asked : to[v] \in deal.scorers
  <2> SUFFICES ASSUME NEW v \in Asked
               PROVE  to[v] \in deal.scorers
    OBVIOUS
  <2>1. PICK p \in 1..n : p = PlaceOf(cards, v)
    BY <1>3
  <2>2. p \in Nat \ {0}
    OBVIOUS
  <2>3. to[v] = order[Turn(p, m)] /\ Turn(p, m) \in 1..m
    BY <1>5, <2>1, <2>2, TurnType
  <2>4. order \in [1..m -> deal.scorers]
    BY <1>4 DEF Bijection, Injection
  <2> QED
    BY <2>3, <2>4
<1>8. ASSUME NEW s \in deal.scorers, NEW t \in deal.scorers
      PROVE  Cardinality({v \in Asked : to[v] = s}) <= Cardinality({v \in Asked : to[v] = t}) + 1
  <2>1. \A p \in 1..n : to[cards[p]] = order[Turn(p, m)]
    BY <1>3, <1>5
  <2>2. cards \in Bijection(1..n, Asked)
    BY <1>3
  <2>3. order \in Bijection(1..m, deal.scorers)
    BY <1>4
  <2> QED
    BY <2>1, <2>2, <2>3, SharesAreFair
<1>9. DealIsFair'
  <2>1. DOMAIN to = Asked
    BY <1>5
  <2>2. ASSUME NEW s \in deal.scorers, NEW t \in deal.scorers
        PROVE  ShareOf(s)' <= ShareOf(t)' + 1
    BY <1>6, <1>8 DEF ShareOf
  <2> QED
    BY <1>6, <1>7, <2>1, <2>2 DEF DealIsFair
<1> QED
  BY <1>6, <1>9 DEF DealInv

LEMMA DealByQuantityIsFair ==
  ASSUME DealInv, DealByQuantity
  PROVE  DealInv'
<1>1. CASE Refuse
  BY <1>1, RefusalIsFair
<1>2. ASSUME QuantitiesAreValid, NEW cards \in Orders(Asked),
             Becomes("dealt", [v \in Asked |-> deal.plan[EntryFor(PlaceOf(cards, v))][1]])
      PROVE  DealInv'
  <2>1. /\ deal.phase = "asked" /\ deal.strategy = "quantity"
        /\ deal.plan \in Seq(DealtScorers \X Nat)
    BY DEF DealByQuantity, DealInv
  <2>2. PICK N \in Nat : N = Len(deal.plan) /\ DOMAIN deal.plan = 1..N
    BY <2>1, LenProperties
  <2>3. PICK qs : /\ qs = Quantities(deal.plan) /\ qs \in Seq(Nat) /\ Len(qs) = N
                  /\ \A k \in 1..N : qs[k] = deal.plan[k][2]
    <3>1. \A k \in 1..N : deal.plan[k][2] \in Nat
      BY <2>1, <2>2
    <3>2. PICK qs : qs = [k \in 1..N |-> deal.plan[k][2]]
      OBVIOUS
    <3>3. qs \in Seq(Nat) /\ Len(qs) = N
      BY <3>1, <3>2
    <3> QED
      BY SMTT(30), <2>2, <3>2, <3>3 DEF Quantities
  <2>4. PICK n \in Nat : /\ n = Cardinality(Asked) /\ cards \in Bijection(1..n, Asked)
                         /\ \A v \in Asked : PlaceOf(cards, v) \in 1..n /\ cards[PlaceOf(cards, v)] = v
                         /\ \A p \in 1..n : cards[p] \in Asked /\ PlaceOf(cards, cards[p]) = p
    BY <2>1, CardsInOrder
  <2>5. /\ Added(qs) = n
        /\ \A i \in 1..N : deal.plan[i][1] \in deal.scorers
        /\ \A i, j \in 1..N : deal.plan[i][1] = deal.plan[j][1] => i = j
    BY <1>2, <2>2, <2>3, <2>4 DEF QuantitiesAreValid
  <2>6. PICK to : /\ to = [v \in Asked |-> deal.plan[EntryFor(PlaceOf(cards, v))][1]]
                  /\ Becomes("dealt", to)
    BY <1>2
  <2>7. /\ deal'.phase = "dealt" /\ deal'.to = to /\ deal'.strategy = "quantity"
        /\ deal'.scorers = deal.scorers /\ deal'.plan = deal.plan /\ Asked' = Asked
    BY <2>1, <2>6, DealBecomes
  <2>8. /\ \A p \in 1..n : \E k \in 1..N : FallsIn(qs, p, k)
        /\ \A p \in 1..n, j \in 1..N, k \in 1..N : FallsIn(qs, p, j) /\ FallsIn(qs, p, k) => j = k
        /\ \A k \in 1..N : Cardinality({p \in 1..n : FallsIn(qs, p, k)}) = qs[k]
    BY SMTT(30), <2>3, <2>5, PlacesByQuantity
  <2>9. ASSUME NEW v \in Asked
        PROVE  \E k \in 1..N : FallsIn(qs, PlaceOf(cards, v), k) /\ to[v] = deal.plan[k][1]
    <3>1. PICK p \in 1..n : p = PlaceOf(cards, v)
      BY <2>4
    <3>2. PICK k : k = EntryFor(p)
      OBVIOUS
    <3>3. k \in 1..N /\ FallsIn(qs, p, k)
      BY <2>2, <2>3, <2>8, <3>2 DEF EntryFor, FallsIn
    <3>4. to[v] = deal.plan[k][1]
      BY <2>6, <3>1, <3>2
    <3> QED
      BY <3>1, <3>3, <3>4
  <2>10. ASSUME NEW i \in 1..N
         PROVE  Cardinality({v \in Asked : to[v] = deal.plan[i][1]}) = deal.plan[i][2]
    <3>1. PICK T \in SUBSET Asked : T = {v \in Asked : to[v] = deal.plan[i][1]}
      OBVIOUS
    <3>2. PICK P \in SUBSET (1..n) : P = {p \in 1..n : FallsIn(qs, p, i)}
      OBVIOUS
    <3>3. ASSUME NEW p \in 1..n
          PROVE  p \in P <=> cards[p] \in T
      <4>1. PICK v \in Asked : v = cards[p] /\ PlaceOf(cards, v) = p
        BY <2>4
      <4>2. PICK k \in 1..N : FallsIn(qs, p, k) /\ to[v] = deal.plan[k][1]
        BY <2>9, <4>1
      <4>3. p \in P <=> k = i
        BY <2>8, <3>2, <4>2
      <4>4. v \in T <=> k = i
        BY <2>5, <3>1, <4>2
      <4> QED
        BY <4>1, <4>3, <4>4
    <3>4. Cardinality(T) = Cardinality(P)
      BY <2>4, <3>3, AsManyPlaces
    <3> QED
      BY <2>3, <2>8, <3>1, <3>2, <3>4
  <2>11. DealIsFair'
    <3>1. DOMAIN to = Asked
      BY <2>6
    <3>2. \A v \in Asked : to[v] \in deal.scorers
      BY <2>5, <2>9
    <3>3. \A i \in 1..N : ShareOf(deal.plan[i][1])' = deal.plan[i][2]
      BY <2>7, <2>10 DEF ShareOf
    <3> QED
      BY <2>2, <2>7, <3>1, <3>2, <3>3 DEF DealIsFair
  <2> QED
    BY <2>7, <2>11 DEF DealInv
<1> QED
  BY <1>1, <1>2 DEF DealByQuantity

\* A deal gives every video it was asked for to one of the scorers, in shares that differ
\* by one video at most, or as the caller wrote: buildAssignments and buildReassignments
\* (internal/modules/scoring/service.go), for any videos, scorers and lists.
THEOREM DealsAreFair == DealingSpec => []DealIsFair
<1>1. DealingInit => DealInv
  <2> SUFFICES ASSUME DealingInit
               PROVE  DealInv
    OBVIOUS
  <2>1. ASSUME NEW S, NEW k \in Nat, NEW s \in SeqsUpTo(S, k)
        PROVE  s \in Seq(S)
    <3>1. PICK j \in 1..k : s \in [1..j -> S]
      BY DEF SeqsUpTo
    <3>2. j \in Nat
      OBVIOUS
    <3> QED
      BY <3>1, <3>2
  <2>2. PICK videos \in SeqsUpTo(DealtVideos, MaxListed), scorers \in (SUBSET DealtScorers) \ {{}} :
          \/ \E strategy \in {"average", "shuffled"} :
               deal = Request(strategy, videos, scorers, <<>>)
          \/ \E plan \in SeqsUpTo(DealtVideos \X DealtScorers, MaxListed) :
               deal = Request("specific", videos, scorers, plan)
          \/ \E plan \in SeqsUpTo(DealtScorers \X (0..MaxListed), 2) :
               deal = Request("quantity", videos, scorers, plan)
    BY DEF DealingInit
  <2>3. videos \in Seq(DealtVideos)
    BY <2>1, DealingAssumption
  <2>4. \A plan \in SeqsUpTo(DealtVideos \X DealtScorers, MaxListed) :
          plan \in Seq(DealtVideos \X DealtScorers)
    BY <2>1, DealingAssumption
  <2>5. \A plan \in SeqsUpTo(DealtScorers \X (0..MaxListed), 2) :
          plan \in Seq(DealtScorers \X Nat)
    <3>1. \A plan \in SeqsUpTo(DealtScorers \X (0..MaxListed), 2) :
            plan \in Seq(DealtScorers \X (0..MaxListed))
      BY <2>1
    <3>2. DealtScorers \X (0..MaxListed) \subseteq DealtScorers \X Nat
      BY DealingAssumption
    <3> QED
      BY <3>1, <3>2, SeqMonotonic
  <2>6. ASSUME NEW strategy, NEW plan, deal = Request(strategy, videos, scorers, plan),
               strategy = "specific" => plan \in Seq(DealtVideos \X DealtScorers),
               strategy = "quantity" => plan \in Seq(DealtScorers \X Nat)
        PROVE  DealInv
    <3>1. /\ deal.phase = "asked" /\ deal.videos = videos /\ deal.scorers = scorers
          /\ deal.strategy = strategy /\ deal.plan = plan
      BY <2>6 DEF Request
    <3>2. DealIsFair
      BY <3>1 DEF DealIsFair
    <3> QED
      BY <2>3, <2>6, <3>1, <3>2 DEF DealInv
  <2>7. CASE \E strategy \in {"average", "shuffled"} :
               deal = Request(strategy, videos, scorers, <<>>)
    BY <2>6, <2>7
  <2>8. CASE \E plan \in SeqsUpTo(DealtVideos \X DealtScorers, MaxListed) :
               deal = Request("specific", videos, scorers, plan)
    BY <2>4, <2>6, <2>8
  <2>9. CASE \E plan \in SeqsUpTo(DealtScorers \X (0..MaxListed), 2) :
               deal = Request("quantity", videos, scorers, plan)
    BY <2>5, <2>6, <2>9
  <2> QED
    BY <2>2, <2>7, <2>8, <2>9
<1>2. DealInv /\ [DealingNext]_deal => DealInv'
  <2>1. ASSUME DealInv, UNCHANGED deal
        PROVE  DealInv'
    <3>1. Asked' = Asked /\ \A s : ShareOf(s)' = ShareOf(s)
      BY <2>1 DEF ShareOf, Asked
    <3> QED
      BY <2>1, <3>1 DEF DealInv, DealIsFair
  <2> QED
    BY <2>1, DealInTurnIsFair, DealAsWrittenIsFair, DealShuffledIsFair, DealByQuantityIsFair
       DEF DealingNext
<1>3. DealInv => DealIsFair
  BY DEF DealInv
<1> QED
  BY <1>1, <1>2, <1>3, PTL DEF DealingSpec
=============================================================================
