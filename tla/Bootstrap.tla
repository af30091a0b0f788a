----------------------------- MODULE Bootstrap -----------------------------
(***************************************************************************)
(* What an instance of the backend does before it serves                   *)
(* (internal/app, internal/bootstrap): with BOOTSTRAP_ENABLED it seeds the *)
(* roles and their permissions and makes sure that there is an admin.      *)
(* Every statement is committed by itself, and nothing keeps two instances *)
(* from starting at the same time.                                         *)
(***************************************************************************)
EXTENDS Naturals, FiniteSets

CONSTANTS
  Instances,
  RoleCount,     \* defaultRoleSeeds, in their order; role 1 is the admin's
  MaxStarts      \* bound: starts of an instance

ASSUME BootstrapAssumption == RoleCount \in Nat \ {0} /\ MaxStarts \in Nat

VARIABLES
  seededCode,    \* a row of permissions; one code stands for all of them
  seededRoles,   \* rows of roles
  linked,        \* roles with their rows of role_permissions
  initAdmin,     \* the user of INIT_ADMIN_USERNAME
  instance,      \* where an instance is
  cut            \* roles of which a bootstrap was cut short, and not made up for

bootVars == <<seededCode, seededRoles, linked, initAdmin, instance, cut>>

RoleRank == 1..RoleCount

InstancePhase == {"down", "lookingUp", "inserting", "finding", "creating",
                  "unlinking", "linking", "counting", "adding", "serving"}

BootstrapTypeOK ==
  /\ seededCode \in BOOLEAN
  /\ seededRoles \subseteq RoleRank /\ linked \subseteq RoleRank
  /\ initAdmin \in {"none", "admin", "other role"}
  /\ instance \in [Instances -> [phase : InstancePhase, role : RoleRank,
                                 starts : 0..MaxStarts]]
  /\ cut \subseteq RoleRank

BootstrapInit ==
  /\ seededCode = FALSE /\ seededRoles = {} /\ linked = {}
  /\ initAdmin = "none"
  /\ instance = [i \in Instances |-> [phase |-> "down", role |-> 1, starts |-> 0]]
  /\ cut = {}

InPhase(i, phase) == instance[i].phase = phase

Enters(i, phase) == instance' = [instance EXCEPT ![i].phase = phase]

\* BOOTSTRAP_ENABLED or not.
StartInstance(i) ==
  /\ InPhase(i, "down") /\ instance[i].starts < MaxStarts
  /\ \E phase \in {"lookingUp", "serving"} :
       instance' = [instance EXCEPT ![i] =
         [phase |-> phase, role |-> 1, starts |-> @.starts + 1]]
  /\ UNCHANGED <<seededCode, seededRoles, linked, initAdmin, cut>>

\* seedPermissions looks for a code; one that is there is updated.
FindPermission(i) ==
  /\ InPhase(i, "lookingUp")
  /\ Enters(i, IF seededCode THEN "finding" ELSE "inserting")
  /\ UNCHANGED <<seededCode, seededRoles, linked, initAdmin, cut>>

\* The code is unique too.
CreatePermission(i) ==
  /\ InPhase(i, "inserting")
  /\ Enters(i, IF seededCode THEN "down" ELSE "finding")
  /\ seededCode' = TRUE
  /\ UNCHANGED <<seededRoles, linked, initAdmin, cut>>

\* seedRBAC looks for the role; one that is there is updated.
FindRole(i) ==
  /\ InPhase(i, "finding")
  /\ Enters(i, IF instance[i].role \in seededRoles THEN "unlinking" ELSE "creating")
  /\ UNCHANGED <<seededCode, seededRoles, linked, initAdmin, cut>>

\* The unique index on the code refuses a second row: the start is aborted.
CreateRole(i) ==
  /\ InPhase(i, "creating")
  /\ IF instance[i].role \in seededRoles
     THEN Enters(i, "down") /\ UNCHANGED seededRoles
     ELSE Enters(i, "unlinking") /\ seededRoles' = seededRoles \cup {instance[i].role}
  /\ UNCHANGED <<seededCode, linked, initAdmin, cut>>

\* syncRolePermissions deletes all rows of the role, and inserts them again.
UnlinkPermissions(i) ==
  /\ InPhase(i, "unlinking")
  /\ linked' = linked \ {instance[i].role}
  /\ Enters(i, "linking")
  /\ UNCHANGED <<seededCode, seededRoles, initAdmin, cut>>

NextRole(i) ==
  instance' = [instance EXCEPT ![i] =
    IF instance[i].role < RoleCount
    THEN [instance[i] EXCEPT !.phase = "finding", !.role = instance[i].role + 1]
    ELSE [instance[i] EXCEPT !.phase = "counting"]]

\* Mutated: a role whose permissions somebody else is inserting is passed over.
LinkNothing(i) ==
  /\ InPhase(i, "linking")
  /\ NextRole(i)
  /\ UNCHANGED <<seededCode, seededRoles, linked, initAdmin, cut>>

\* The primary key refuses rows that are there already: the start is aborted.
LinkPermissions(i) ==
  /\ InPhase(i, "linking")
  /\ IF instance[i].role \in linked
     THEN Enters(i, "down") /\ UNCHANGED linked
     ELSE linked' = linked \cup {instance[i].role} /\ NextRole(i)
  /\ cut' = cut \ {instance[i].role}
  /\ UNCHANGED <<seededCode, seededRoles, initAdmin>>

\* ensureDefaultAdmin; another admin than the first one is not modelled.
CountAdmins(i) ==
  /\ InPhase(i, "counting")
  /\ IF initAdmin = "admin"
     THEN Enters(i, "serving") ELSE Enters(i, "adding")
  /\ UNCHANGED <<seededCode, seededRoles, linked, initAdmin, cut>>

\* The user name is unique: if its user has lost the role of admin, or another
\* instance was faster, the start is aborted.
AddAdmin(i) ==
  /\ InPhase(i, "adding")
  /\ IF initAdmin = "none"
     THEN initAdmin' = "admin" /\ Enters(i, "serving")
     ELSE Enters(i, "down") /\ UNCHANGED initAdmin
  /\ UNCHANGED <<seededCode, seededRoles, linked, cut>>

\* UpdateManagedUser, on the only admin, or the deletion of it.
AdminLeaves ==
  /\ initAdmin = "admin" /\ \E i \in Instances : InPhase(i, "serving")
  /\ initAdmin' \in {"other role", "none"}
  /\ UNCHANGED <<seededCode, seededRoles, linked, instance, cut>>

\* The instance ends; a failing statement of the bootstrap ends it too.
InstanceEnds(i) ==
  /\ ~ InPhase(i, "down")
  /\ Enters(i, "down")
  /\ cut' = IF instance[i].phase \in {"unlinking", "linking"}
            THEN cut \cup {instance[i].role} ELSE cut
  /\ UNCHANGED <<seededCode, seededRoles, linked, initAdmin>>

BootstrapNext ==
  \/ \E i \in Instances :
       \/ StartInstance(i) \/ FindPermission(i) \/ CreatePermission(i)
       \/ FindRole(i) \/ CreateRole(i) \/ UnlinkPermissions(i)
       \/ LinkPermissions(i) \/ CountAdmins(i) \/ AddAdmin(i) \/ InstanceEnds(i)
  \/ AdminLeaves

BootstrapSpec == BootstrapInit /\ [][BootstrapNext]_bootVars
-----------------------------------------------------------------------------

\* RequirePermission refuses nobody by mistake: a role's permissions are missing
\* only while an instance is about to insert them, or after one ended there.  Two
\* instances that start together do not leave a role without permissions.
MissingPermissionsHaveACause ==
  \A r \in seededRoles \ linked :
    \/ r \in cut
    \/ \E i \in Instances : /\ instance[i].role = r
                            /\ instance[i].phase \in {"unlinking", "linking"}
=============================================================================
