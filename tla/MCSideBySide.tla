---------------------------- MODULE MCSideBySide ----------------------------
(***************************************************************************)
(* The components that share no state with one another, in one run: the    *)
(* initial state chooses one of them, which takes all the steps of the     *)
(* behaviour, while the others rest.                                       *)
(***************************************************************************)
EXTENDS AnalysisJobs, Accounts, Bootstrap, VideoAssets, Catalog, Dealing,
        ScoreSheets, RubricTemplate, Listing, UserBatches

VARIABLE component   \* the one at work

vars == <<component, jobsVars, accountsVars, bootVars, assetsVars,
          catalogVars, deal, sheet, template, listingVars, batchVars>>
-----------------------------------------------------------------------------
(***************************************************************************)
(* Values.                                                                 *)
(***************************************************************************)

\* The settings met: one without faults, one that keeps failed files and meets
\* faults, and one with remote URLs.
Setups == {[remote |-> FALSE, keepFailed |-> FALSE, faulty |-> FALSE],
           [remote |-> FALSE, keepFailed |-> TRUE, faulty |-> TRUE],
           [remote |-> TRUE, keepFailed |-> FALSE, faulty |-> FALSE]}

Actor(id, role, school, number) ==
  [id |-> id, role |-> role, school |-> school, number |-> number]

\* Two students share a number, in two schools; one has no school.
OneOfEachRole ==
  {Actor("admin", "admin", "-", "-"), Actor("lead", "school_admin", "s1", "-"),
   Actor("lead2", "school_leader", "s2", "-"), Actor("teach", "teacher", "s1", "-"),
   Actor("scorer", "scorer", "s1", "-"), Actor("stud", "student", "s1", "n1"),
   Actor("twin", "student", "s2", "n1"), Actor("lone", "student", "-", "n1")}

\* One group, two groups, none; full scores that are and are not half steps.
RubricSet ==
  {[total |-> total, groups |-> <<[full |-> full, items |-> <<item, 100>>]>>] :
     total \in {100, 10000}, full \in {20, 100, 433}, item \in {50, 333}}
  \cup {[total |-> total, groups |-> <<[full |-> 60, items |-> <<item>>],
                                       [full |-> 200, items |-> <<130>>]>>] :
          total \in {100, 10000}, item \in {0, 60}}
  \cup {[total |-> 10000, groups |-> <<>>]}

RawScoreSet == {-50, 0, 25, 75, 400}

BlankRow == [blank |-> TRUE, primary |-> FALSE, score |-> 0, complete |-> FALSE, sub |-> 0]

PrimaryRow(score, sub) ==
  [blank |-> FALSE, primary |-> TRUE, score |-> score, complete |-> TRUE, sub |-> sub]

SubRow(sub) == [BlankRow EXCEPT !.blank = FALSE, !.complete = TRUE, !.sub = sub]

RowSet == {BlankRow, PrimaryRow(0, 0), PrimaryRow(2, 0), PrimaryRow(100, 0),
           PrimaryRow(250, 150), SubRow(0), SubRow(50), SubRow(-1),
           [SubRow(0) EXCEPT !.complete = FALSE]}

ItemWith(username, kind) == [username |-> username, kind |-> kind]

\* Two rows, and three of which two are alike, with each kind of row between.
RequestSet ==
  {[total |-> total, item |-> <<ItemWith("u1", "good"), ItemWith("u2", kind), ItemWith("u1", "good")>>] :
     total \in {2, 3}, kind \in {"good", "invalid", "unhashable"}}
-----------------------------------------------------------------------------
(***************************************************************************)
(* The composition.                                                        *)
(***************************************************************************)

Components == {"jobs", "accounts", "bootstrap", "assets", "catalog",
               "dealing", "sheets", "templates", "lists", "batches"}

SideBySideInit ==
  /\ component \in Components
  /\ JobsRest /\ AccountsRest /\ BootstrapInit /\ AssetsRest /\ CatalogInit
  /\ IF component = "jobs" THEN setup \in Setups
     ELSE setup = [remote |-> FALSE, keepFailed |-> FALSE, faulty |-> FALSE]
  /\ alone \in IF component = "accounts" THEN BOOLEAN ELSE {FALSE}
  /\ solo \in IF component = "assets" THEN BOOLEAN ELSE {FALSE}
  /\ IF component = "dealing" THEN DealingInit ELSE DealRest
  /\ IF component = "sheets" THEN ScoreSheetsInit ELSE SheetRest
  /\ IF component = "templates" THEN RubricTemplateInit ELSE TemplateRest
  /\ IF component = "lists" THEN ListingInit ELSE ListingRest
  /\ BatchesInit

Works(c) == component = c /\ UNCHANGED component

SideBySideNext ==
  \/ /\ Works("jobs") /\ AnalysisJobsNext
     /\ UNCHANGED <<accountsVars, bootVars, assetsVars, catalogVars,
                    deal, sheet, template, listingVars, batchVars>>
  \/ /\ Works("accounts") /\ AccountsNext
     /\ UNCHANGED <<jobsVars, bootVars, assetsVars, catalogVars,
                    deal, sheet, template, listingVars, batchVars>>
  \/ /\ Works("bootstrap") /\ BootstrapNext
     /\ UNCHANGED <<jobsVars, accountsVars, assetsVars, catalogVars,
                    deal, sheet, template, listingVars, batchVars>>
  \/ /\ Works("assets") /\ VideoAssetsNext
     /\ UNCHANGED <<jobsVars, accountsVars, bootVars, catalogVars,
                    deal, sheet, template, listingVars, batchVars>>
  \/ /\ Works("catalog") /\ CatalogNext
     /\ UNCHANGED <<jobsVars, accountsVars, bootVars, assetsVars,
                    deal, sheet, template, listingVars, batchVars>>
  \/ /\ Works("dealing") /\ DealingNext
     /\ UNCHANGED <<jobsVars, accountsVars, bootVars, assetsVars,
                    catalogVars, sheet, template, listingVars, batchVars>>
  \/ /\ Works("sheets") /\ NormalizeResult
     /\ UNCHANGED <<jobsVars, accountsVars, bootVars, assetsVars,
                    catalogVars, deal, template, listingVars, batchVars>>
  \/ /\ Works("templates") /\ ParseTemplate
     /\ UNCHANGED <<jobsVars, accountsVars, bootVars, assetsVars,
                    catalogVars, deal, sheet, listingVars, batchVars>>
  \/ /\ Works("lists") /\ ListingNext
     /\ UNCHANGED <<jobsVars, accountsVars, bootVars, assetsVars,
                    catalogVars, deal, sheet, template, batchVars>>
  \/ /\ Works("batches") /\ BatchesNext
     /\ UNCHANGED <<jobsVars, accountsVars, bootVars, assetsVars,
                    catalogVars, deal, sheet, template, listingVars>>

\* The fairness of AnalysisJobs, while it is the one at work.
ProviderFairness ==
  LET AtWork(A) == component = "jobs" /\ A
  IN  /\ WF_jobsVars(AtWork(ProcessStep)) /\ WF_jobsVars(AtWork(CleanerStep))
      /\ \A j \in Job : WF_jobsVars(AtWork(EnqueueJob(j)))
      /\ \A w \in Workers : WF_jobsVars(AtWork(WorkerStep(w)))

SideBySide == SideBySideInit /\ [][SideBySideNext]_vars /\ ProviderFairness

\* The types of the component at work.
SideBySideTypeOK ==
  /\ component = "jobs" => AnalysisJobsTypeOK
  /\ component = "accounts" => AccountsTypeOK
  /\ component = "bootstrap" => BootstrapTypeOK
  /\ component = "assets" => VideoAssetsTypeOK
  /\ component = "catalog" => CatalogTypeOK
  /\ component = "lists" => ListingTypeOK
  /\ component = "batches" => BatchesTypeOK
=============================================================================
