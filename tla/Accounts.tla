------------------------------ MODULE Accounts ------------------------------
(***************************************************************************)
(* Users, their roles and their sessions (internal/modules/user and auth,  *)
(* the JWT manager and the middleware).  A user has a role column and rows *)
(* of user_roles, of which the active one counts.  A login opens a session *)
(* in Redis; a refresh closes it and opens the next one of the same login. *)
(*                                                                         *)
(* Changes of a user and of its roles are one transaction, which locks the *)
(* row of the user first; every other statement stands by itself.          *)
(***************************************************************************)
EXTENDS Naturals, FiniteSets

CONSTANTS
  Users,          \* identities; one that was deleted is never used again
  Visits,         \* handlers at work at the same time
  MaxSessions     \* bound: sessions ever opened

ASSUME AccountsAssumption == Users # {} /\ MaxSessions \in Nat

VARIABLES
  profile,    \* the row of users
  grant,      \* the rows of user_roles, at most one for a user and a role
  session,    \* session:<user>:<sid> in Redis
  visit,      \* what a handler has read
  alone       \* whether handlers come one by one in this behaviour

accountsVars == <<profile, grant, session, visit, alone>>

\* Three of the six roles: one above all, one that manages a school, and one that
\* is managed.
Role == {"admin", "school_admin", "teacher"}

UserStatus == {"none", "active", "inactive", "deleted"}

SessionId == 1..MaxSessions

\* "login": the session the login opened.
Session == [user : Users, state : {"none", "open", "ended"}, login : 0..MaxSessions]

Visit ==
  [phase  : {"idle", "managing", "granting", "loaded", "admitted", "rotated", "issued"},
   user   : Users,
   actor  : Role,
   sid    : 0..MaxSessions]   \* session to be exchanged, or just opened

AccountsTypeOK ==
  /\ profile \in [Users -> [status : UserStatus, role : Role]]
  /\ grant \in [Users -> [Role -> {"none", "active", "disabled"}]]
  /\ session \in [SessionId -> Session]
  /\ visit \in [Visits -> Visit]
  /\ alone \in BOOLEAN

NoVisit == [phase |-> "idle", user |-> CHOOSE u \in Users : TRUE,
            actor |-> "admin", sid |-> 0]

AccountsRest ==
  /\ profile = [u \in Users |-> [status |-> "none", role |-> "teacher"]]
  /\ grant = [u \in Users |-> [r \in Role |-> "none"]]
  /\ session = [s \in SessionId |-> [user |-> NoVisit.user, state |-> "none", login |-> 0]]
  /\ visit = [h \in Visits |-> NoVisit]

AccountsInit == AccountsRest /\ alone \in BOOLEAN

MayVisit(h) ==
  /\ visit[h].phase = "idle"
  /\ alone => \A g \in Visits : visit[g].phase = "idle"

EndsVisit(h) == visit' = [visit EXCEPT ![h] = NoVisit]
-----------------------------------------------------------------------------
(***************************************************************************)
(* Users and roles.                                                        *)
(***************************************************************************)

\* validateManageRole.
MayGrant(actor, role) == actor = "admin" \/ role = "teacher"

\* ensureActorCanManageTarget; both are of one school here.
MayManage(actor, u) == actor = "admin" \/ profile[u].role = "teacher"

Exists(u) == profile[u].status \in {"active", "inactive"}

\* createOne: the row and its role are one transaction.
CreateUser(u, r) ==
  /\ profile[u].status = "none"
  /\ profile' = [profile EXCEPT ![u] = [status |-> "active", role |-> r]]
  /\ grant' = [grant EXCEPT ![u][r] = "active"]
  /\ UNCHANGED <<session, visit, alone>>

\* UpdateManagedUser and Delete read the user and ask whether the actor may.
FindTarget(h, u) ==
  /\ MayVisit(h)
  /\ Exists(u)
  /\ \E actor \in {"admin", "school_admin"} :
       /\ MayManage(actor, u)
       /\ visit' = [visit EXCEPT ![h] = [phase |-> "managing", user |-> u,
                                         actor |-> actor, sid |-> 0]]
  /\ UNCHANGED <<profile, grant, session, alone>>

\* A row that is gone by now is not updated, and no error is raised for it.
SetUserStatus(h) ==
  LET u == visit[h].user IN
  /\ visit[h].phase = "managing"
  /\ \E status \in {"active", "inactive"} :
       profile' = IF Exists(u) THEN [profile EXCEPT ![u].status = status] ELSE profile
  /\ EndsVisit(h)
  /\ UNCHANGED <<grant, session, alone>>

\* Mutated: the role held so far stays active.
SetUserRoleKeepingOld(h) ==
  LET u == visit[h].user IN
  /\ visit[h].phase = "managing" /\ Exists(u)
  /\ \E r \in Role, status \in {"active", "inactive"} :
       /\ MayGrant(visit[h].actor, r)
       /\ grant[u][r] = "none"
       /\ profile' = [profile EXCEPT ![u].role = r, ![u].status = status]
       /\ grant' = [grant EXCEPT ![u][r] = "active"]
  /\ EndsVisit(h)
  /\ UNCHANGED <<session, alone>>

\* The active rows are disabled and a new one is inserted, which the unique index
\* on user and role refuses if the user ever had the role: then nothing is changed.
SetUserRole(h) ==
  LET u == visit[h].user IN
  /\ visit[h].phase = "managing" /\ Exists(u)
  /\ \E r \in Role, status \in {"active", "inactive"} :
       /\ MayGrant(visit[h].actor, r)
       /\ grant[u][r] = "none"
       /\ profile' = [profile EXCEPT ![u].role = r, ![u].status = status]
       /\ grant' = [grant EXCEPT ![u] =
            [q \in Role |-> IF q = r THEN "active"
                            ELSE IF @[q] = "active" THEN "disabled" ELSE @[q]]]
  /\ EndsVisit(h)
  /\ UNCHANGED <<session, alone>>

\* Delete takes the rows of user_roles along; sessions stay.
DeleteUser(h) ==
  LET u == visit[h].user IN
  /\ visit[h].phase = "managing" /\ Exists(u)
  /\ profile' = [profile EXCEPT ![u].status = "deleted"]
  /\ grant' = [grant EXCEPT ![u] = [r \in Role |-> "none"]]
  /\ EndsVisit(h)
  /\ UNCHANGED <<session, alone>>
-----------------------------------------------------------------------------
(***************************************************************************)
(* Login, refresh, logout.                                                 *)
(***************************************************************************)

\* The password is right and the user active.
Login(h, u) ==
  /\ MayVisit(h)
  /\ profile[u].status = "active"
  /\ visit' = [visit EXCEPT ![h] = [NoVisit EXCEPT !.phase = "rotated", !.user = u]]
  /\ UNCHANGED <<profile, grant, session, alone>>

\* Refresh of auth, with the token of s: the session has to be there.
RefreshSession(h, s) ==
  /\ MayVisit(h)
  /\ session[s].state = "open"
  /\ visit' = [visit EXCEPT ![h] = [NoVisit EXCEPT !.phase = "loaded",
                                      !.user = session[s].user, !.sid = s]]
  /\ UNCHANGED <<profile, grant, session, alone>>

AdmitUser(h) ==
  /\ visit[h].phase = "loaded"
  /\ IF profile[visit[h].user].status = "active"
     THEN visit' = [visit EXCEPT ![h].phase = "admitted"]
     ELSE EndsVisit(h)
  /\ UNCHANGED <<profile, grant, session, alone>>

\* Mutated: the old session stays.
KeepSession(h) ==
  /\ visit[h].phase = "admitted"
  /\ visit' = [visit EXCEPT ![h].phase = "rotated"]
  /\ UNCHANGED <<profile, grant, session, alone>>

\* SessionStore.Delete; deleting what is not there is no error.
DeleteSession(h) ==
  /\ visit[h].phase = "admitted"
  /\ session' = [session EXCEPT ![visit[h].sid].state = "ended"]
  /\ visit' = [visit EXCEPT ![h].phase = "rotated"]
  /\ UNCHANGED <<profile, grant, alone>>

\* issueTokens: the session comes before the answer is put together.
SaveSession(h) ==
  /\ visit[h].phase = "rotated"
  /\ \E s \in SessionId :
       /\ session[s].state = "none" /\ \A t \in 1..(s - 1) : session[t].state # "none"
       /\ session' = [session EXCEPT ![s] =
            [user |-> visit[h].user, state |-> "open",
             login |-> IF visit[h].sid = 0 THEN s ELSE session[visit[h].sid].login]]
       /\ visit' = [visit EXCEPT ![h].phase = "issued", ![h].sid = s]
  /\ UNCHANGED <<profile, grant, alone>>

\* GetMe: the answer; an error if the user is not there any more.
AnswerTokens(h) ==
  /\ visit[h].phase = "issued"
  /\ EndsVisit(h)
  /\ UNCHANGED <<profile, grant, session, alone>>

\* Logout, with the access token of s, which counts while the session is there.
Logout(s) ==
  /\ alone => \A g \in Visits : visit[g].phase = "idle"
  /\ session[s].state = "open"
  /\ session' = [session EXCEPT ![s].state = "ended"]
  /\ UNCHANGED <<profile, grant, visit, alone>>

SessionExpires(s) ==
  /\ session[s].state = "open"
  /\ session' = [session EXCEPT ![s].state = "ended"]
  /\ UNCHANGED <<profile, grant, visit, alone>>

\* An error or a crash between two statements.
VisitFails(h) ==
  /\ visit[h].phase # "idle"
  /\ EndsVisit(h)
  /\ UNCHANGED <<profile, grant, session, alone>>

AccountsNext ==
  \/ \E u \in Users, r \in Role : CreateUser(u, r)
  \/ \E h \in Visits :
       \/ \E u \in Users : FindTarget(h, u) \/ Login(h, u)
       \/ \E s \in SessionId : RefreshSession(h, s)
       \/ SetUserStatus(h) \/ SetUserRole(h) \/ DeleteUser(h)
       \/ AdmitUser(h) \/ DeleteSession(h) \/ SaveSession(h) \/ AnswerTokens(h)
       \/ VisitFails(h)
  \/ \E s \in SessionId : Logout(s) \/ SessionExpires(s)

AccountsSpec == AccountsInit /\ [][AccountsNext]_accountsVars
-----------------------------------------------------------------------------
(***************************************************************************)
(* Properties.                                                             *)
(***************************************************************************)

\* The two places of a role agree: whoever exists has one active row of
\* user_roles, that of the role column.  (userBaseQuery joins the active rows: a
\* second one would show the user twice.)
RolePlacesAgree ==
  \A u \in Users : Exists(u) =>
    {r \in Role : grant[u][r] = "active"} = {profile[u].role}

\* A role a user has lost never comes back: the unique index refuses the row that
\* UpdateManagedUser inserts.
LostRolesStayLost ==
  [][\A u \in Users, r \in Role :
       grant[u][r] = "disabled" => grant'[u][r] # "active"]_accountsVars

OpenSessionsOf(login) == {s \in SessionId : session[s].state = "open"
                                              /\ session[s].login = login}

\* One by one, refreshes exchange a session for another: a login has at most one.
OneSessionPerLogin ==
  alone => \A login \in SessionId : Cardinality(OpenSessionsOf(login)) <= 1
=============================================================================
