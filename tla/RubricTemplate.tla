---------------------------- MODULE RubricTemplate ----------------------------
(***************************************************************************)
(* Reading a rubric from an Excel sheet (project/rubric_parser.go).  A row *)
(* that names a primary item opens it and carries its first sub item, a    *)
(* row that does not adds one to the item opened last, and blank rows are  *)
(* passed over.  A primary item whose sub items have no scores of their    *)
(* own is shared out among them.                                           *)
(*                                                                         *)
(* The rows are those below the header.  Scores are hundredths of a point  *)
(* and their arithmetic is exact.                                          *)
(***************************************************************************)
EXTENDS Integers, Sequences, FiniteSets, Sums

CONSTANTS
  Rows,       \* bound: the rows a sheet may have
  MaxRows     \* bound: their number

\* "primary": the row names a primary item, of "score" hundredths (0: none, or one
\* that cannot be read).  "complete": the columns every sub item needs are filled.
\* "sub": its own score; -1: one that cannot be read.
Row == [blank : BOOLEAN, primary : BOOLEAN, score : Nat, complete : BOOLEAN,
        sub : Nat \cup {-1}]

ASSUME RubricTemplateAssumption == Rows \subseteq Row /\ MaxRows \in Nat

VARIABLE template   \* a sheet, and what was read from it

TemplateRest == template = [phase |-> "none"]

RubricTemplateInit ==
  \E rows \in UNION {[1..n -> Rows] : n \in 0..MaxRows} :
    template = [phase |-> "uploaded", rows |-> rows]
-----------------------------------------------------------------------------
\* math.Round of x / d: a half goes away from zero.
Round(x, d) == (2 * x + d) \div (2 * d)

\* Mutated: the last share is like the others.
EqualShares(score, n) == [i \in 1..n |-> Round(score, n)]

\* The last share takes what the rounding leaves.
Shares(score, n) ==
  [i \in 1..n |-> IF i < n THEN Round(score, n) ELSE score - (n - 1) * Round(score, n)]

\* assignAverageSubScores
SubScores(score, subs) ==
  IF \E i \in 1..Len(subs) : subs[i] > 0 THEN subs ELSE Shares(score, Len(subs))

\* What has been read of a sheet: the items that are complete, the sum of their
\* scores, and the item whose sub items are still being read.
Read(items, total, current) ==
  [refused |-> FALSE, items |-> items, total |-> total, current |-> current]

NotOpened == [open |-> FALSE, score |-> 0, subs |-> <<>>]

Under(score, subs) == [open |-> TRUE, score |-> score, subs |-> subs]

Reading == Read(<<>>, 0, NotOpened)

Refused == [refused |-> TRUE, items |-> <<>>, total |-> 0, current |-> NotOpened]

\* flushCurrent
Flush(read) ==
  LET score == read.current.score
      subs  == read.current.subs
  IN  IF ~read.current.open THEN read
      ELSE IF subs = <<>> THEN Refused
      ELSE Read(Append(read.items, [score |-> score, subs |-> SubScores(score, subs)]),
                read.total + score, NotOpened)

\* The row's sub item, added to the primary item of that score and those sub items.
AddSubItem(read, score, subs, row) ==
  IF ~row.complete \/ row.sub < 0 THEN Refused
  ELSE Read(read.items, read.total, Under(score, Append(subs, row.sub)))

ReadRow(read, row) ==
  CASE read.refused \/ row.blank -> read
    [] ~read.refused /\ ~row.blank /\ row.primary ->
         LET flushed == Flush(read)
         IN  IF flushed.refused \/ row.score = 0 THEN Refused
             ELSE AddSubItem(flushed, row.score, <<>>, row)
    [] OTHER -> IF read.current.open
                THEN AddSubItem(read, read.current.score, read.current.subs, row)
                ELSE Refused

\* What has been read after each row.
Readings(rows) ==
  LET reading[n \in 0..Len(rows)] ==
        IF n = 0 THEN Reading ELSE ReadRow(reading[n - 1], rows[n])
  IN  reading

\* parseRubricTemplate
ParseTemplate ==
  /\ template.phase = "uploaded"
  /\ LET read == Flush(Readings(template.rows)[Len(template.rows)])
     IN  template' = [phase |-> IF read.refused \/ read.items = <<>>
                                THEN "refused" ELSE "parsed",
                      rows |-> template.rows, items |-> read.items,
                      totalScore |-> Round(read.total, 100)]

RubricTemplateSpec == RubricTemplateInit /\ [][ParseTemplate]_template
-----------------------------------------------------------------------------
(***************************************************************************)
(* What a sheet says, by the positions of its rows.                        *)
(***************************************************************************)

Filled(rows) == {i \in 1..Len(rows) : ~ rows[i].blank}

\* The primary items that the first i rows open.
Opened(rows, i) == Cardinality({j \in Filled(rows) : j <= i /\ rows[j].primary})

GoodRow(row) == row.complete /\ row.sub >= 0 /\ (row.primary => row.score > 0)

WellFormed(rows) ==
  /\ Filled(rows) # {}
  /\ \A i \in Filled(rows) : GoodRow(rows[i]) /\ Opened(rows, i) > 0

\* The rows of the k-th primary item: from its own to the one before the next.
RowsOfItem(rows, k) == {i \in Filled(rows) : Opened(rows, i) = k}

\* The place of row i among those of its item.
PlaceIn(own, i) == Cardinality({j \in own : j <= i})

\* An item has the score of the row that opens it and a sub item for each of its rows,
\* with the scores that the rows give or, if they give none, with scores that add up
\* to its own, none of them negative as long as there are few sub items for the score.
ReadsItem(rows, k, item) ==
  LET own == RowsOfItem(rows, k)
      n == Len(item.subs)
  IN  /\ n = Cardinality(own)
      /\ \A i \in own : rows[i].primary => item.score = rows[i].score
      /\ IF \E i \in own : rows[i].sub > 0
         THEN \A i \in own : item.subs[PlaceIn(own, i)] = rows[i].sub
         ELSE /\ Added(item.subs) = item.score
              /\ n * (n - 1) <= 2 * item.score => \A j \in 1..n : item.subs[j] >= 0

\* A sheet is accepted exactly when it is well formed, whatever blank rows are between;
\* its primary items are then read as ReadsItem says, and the total is theirs.
TemplateIsRead ==
  template.phase # "none" /\ template.phase # "uploaded" =>
    /\ template.phase = "parsed" <=> WellFormed(template.rows)
    /\ template.phase = "parsed" =>
         /\ Len(template.items) = Opened(template.rows, Len(template.rows))
         /\ \A k \in DOMAIN template.items : ReadsItem(template.rows, k, template.items[k])
         /\ template.totalScore =
              Round(Added([k \in DOMAIN template.items |-> template.items[k].score]), 100)
=============================================================================
