-------------------------- MODULE SideBySideProofs --------------------------
(***************************************************************************)
(* The components side by side: each is what it is by itself, so that the  *)
(* one run in which they take turns shows of each what a run of its own    *)
(* would show.                                                             *)
(***************************************************************************)
EXTENDS MCSideBySide, AccessProofs, AnalysisJobsProofs

\* The inductive invariant of the component at work.
SideBySideInv ==
  /\ component = "jobs" => JobsInv
  /\ component = "accounts" => AccountsTypeOK
  /\ component = "bootstrap" => BootstrapTypeOK
  /\ component = "assets" => VideoAssetsTypeOK
  /\ component = "catalog" => CatalogInv
  /\ component = "lists" => ListingInv
  /\ component = "batches" => BatchesInv

LEMMA SideBySideInvInit == SideBySideInit => SideBySideInv
<1> SUFFICES ASSUME SideBySideInit PROVE SideBySideInv
  OBVIOUS
<1>1. BootstrapInit /\ CatalogInit /\ BatchesInit
  BY DEF SideBySideInit
<1>2. ASSUME component = "jobs" PROVE AnalysisJobsInit
  <2>1. JobsRest /\ setup \in Setups
    BY <1>2 DEF SideBySideInit
  <2>2. Setups \subseteq [remote : BOOLEAN, keepFailed : BOOLEAN, faulty : BOOLEAN]
    BY DEF Setups
  <2> QED
    BY <2>1, <2>2 DEF AnalysisJobsInit
<1>3. ASSUME component = "accounts" PROVE AccountsInit
  BY <1>3 DEF SideBySideInit, AccountsInit
<1>4. ASSUME component = "assets" PROVE VideoAssetsInit
  BY <1>4 DEF SideBySideInit, VideoAssetsInit
<1>5. ASSUME component = "lists" PROVE ListingInit
  BY <1>5 DEF SideBySideInit
<1> QED
  BY <1>1, <1>2, <1>3, <1>4, <1>5, JobsInvInit, AccountsInitType,
     BootstrapInitType, AssetsInitType, CatalogInvInit, ListingInitInv, BatchesInvInit
  DEF SideBySideInv

\* A step of the composition is one of the component at work, or of none.
LEMMA OneWorks ==
  ASSUME [SideBySideNext]_vars
  PROVE  /\ component' = component
         /\ component = "jobs" => [AnalysisJobsNext]_jobsVars
         /\ component = "accounts" => [AccountsNext]_accountsVars
         /\ component = "bootstrap" => [BootstrapNext]_bootVars
         /\ component = "assets" => [VideoAssetsNext]_assetsVars
         /\ component = "catalog" => [CatalogNext]_catalogVars
         /\ component = "lists" => [ListingNext]_listingVars
         /\ component = "batches" => [BatchesNext]_batchVars
<1>1. CASE SideBySideNext
  BY <1>1 DEF SideBySideNext, Works
<1>2. CASE UNCHANGED vars
  BY <1>2 DEF vars
<1> QED
  BY <1>1, <1>2

LEMMA SideBySideInvStep == SideBySideInv /\ [SideBySideNext]_vars => SideBySideInv'
<1> SUFFICES ASSUME SideBySideInv, [SideBySideNext]_vars PROVE SideBySideInv'
  OBVIOUS
<1>1. component = "jobs" => JobsInv'
  BY OneWorks, JobsInvStep DEF SideBySideInv
<1>2. component = "accounts" => AccountsTypeOK'
  BY OneWorks, AccountsStepType DEF SideBySideInv
<1>3. component = "bootstrap" => BootstrapTypeOK'
  BY OneWorks, BootstrapStepType DEF SideBySideInv
<1>4. component = "assets" => VideoAssetsTypeOK'
  BY OneWorks, AssetsStepType DEF SideBySideInv
<1>5. component = "catalog" => CatalogInv'
  BY OneWorks, CatalogInvStep DEF SideBySideInv
<1>6. component = "lists" => ListingInv'
  BY OneWorks, ListingType, ReadingStep DEF SideBySideInv, ListingInv
<1>7. component = "batches" => BatchesInv'
  BY OneWorks, BatchesInvStep DEF SideBySideInv
<1> QED
  BY <1>1, <1>2, <1>3, <1>4, <1>5, <1>6, <1>7, OneWorks DEF SideBySideInv

\* Whichever component is at work keeps its types, whatever handlers, instances,
\* workers and requests it has, and whatever fails.
THEOREM SideBySideTypeCorrectness == SideBySide => []SideBySideTypeOK
<1>1. SideBySideInv => SideBySideTypeOK
  BY DEF SideBySideInv, SideBySideTypeOK, JobsInv, CatalogInv, ListingInv, BatchesInv
<1>2. SideBySide => SideBySideInit /\ [][SideBySideNext]_vars
  BY DEF SideBySide
<1> QED
  BY <1>1, <1>2, SideBySideInvInit, SideBySideInvStep, PTL
=============================================================================
