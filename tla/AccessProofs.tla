---------------------------- MODULE AccessProofs ----------------------------
(***************************************************************************)
(* Theorems of Accounts, for any users, handlers and number of sessions;   *)
(* of UserBatches, for any requests and rows; of Bootstrap, for any number *)
(* of instances, roles and starts; of Catalog, for any users and schools;  *)
(* of Listing, for any lists and page sizes; and of VideoAssets, for any   *)
(* number of handlers and evaluations.                                     *)
(***************************************************************************)
EXTENDS Accounts, UserBatches, Bootstrap, Catalog, Listing, VideoAssets,
        FiniteSetTheorems, TLAPS

(***************************************************************************)
(* Users, roles and sessions.                                              *)
(***************************************************************************)

Profile == [status : UserStatus, role : Role]
Grants == [Role -> {"none", "active", "disabled"}]

\* The handlers that manage users, and those of the sessions.
ManageStep(h) ==
  \/ \E u \in Users : FindTarget(h, u)
  \/ SetUserStatus(h) \/ SetUserRole(h) \/ DeleteUser(h)

SessionStep(h) ==
  \/ \E u \in Users : Login(h, u)
  \/ \E s \in SessionId : RefreshSession(h, s)
  \/ AdmitUser(h) \/ DeleteSession(h) \/ SaveSession(h) \/ AnswerTokens(h)
  \/ VisitFails(h)

Ending(s) == Logout(s) \/ SessionExpires(s)

LEMMA NoVisitType == NoVisit \in Visit /\ NoVisit.user \in Users
<1>1. (CHOOSE u \in Users : TRUE) \in Users
  BY AccountsAssumption
<1> QED
  BY <1>1, AccountsAssumption DEF NoVisit, Visit, Role

LEMMA AccountsInitType == AccountsInit => AccountsTypeOK
<1>1. "teacher" \in Role /\ "none" \in UserStatus /\ 0 \in 0..MaxSessions
  BY AccountsAssumption DEF Role, UserStatus
<1> QED
  BY <1>1, NoVisitType
  DEF AccountsInit, AccountsRest, AccountsTypeOK, Session

LEMMA CreateUserType ==
  ASSUME AccountsTypeOK, NEW u \in Users, NEW r \in Role, CreateUser(u, r)
  PROVE  AccountsTypeOK'
BY DEF CreateUser, AccountsTypeOK, UserStatus

LEMMA ManageStepType ==
  ASSUME AccountsTypeOK, NEW h \in Visits, ManageStep(h)
  PROVE  AccountsTypeOK'
<1>1. visit[h] \in Visit /\ visit[h].user \in Users
  BY DEF AccountsTypeOK, Visit
<1>2. CASE \E u \in Users : FindTarget(h, u)
  <2>1. PICK u \in Users : FindTarget(h, u)
    BY <1>2
  <2>2. PICK actor \in {"admin", "school_admin"} :
          visit' = [visit EXCEPT ![h] = [phase |-> "managing", user |-> u,
                                         actor |-> actor, sid |-> 0]]
    BY <2>1 DEF FindTarget
  <2>3. [phase |-> "managing", user |-> u, actor |-> actor, sid |-> 0] \in Visit
    BY AccountsAssumption DEF Visit, Role
  <2> QED
    BY <2>1, <2>2, <2>3 DEF FindTarget, AccountsTypeOK
<1>3. CASE SetUserStatus(h)
  BY <1>1, <1>3, NoVisitType DEF SetUserStatus, EndsVisit, AccountsTypeOK, UserStatus
<1>4. CASE SetUserRole(h)
  BY <1>1, <1>4, NoVisitType DEF SetUserRole, EndsVisit, AccountsTypeOK, UserStatus
<1>5. CASE DeleteUser(h)
  BY <1>1, <1>5, NoVisitType DEF DeleteUser, EndsVisit, AccountsTypeOK, UserStatus
<1> QED
  BY <1>2, <1>3, <1>4, <1>5 DEF ManageStep

LEMMA SessionStepType ==
  ASSUME AccountsTypeOK, NEW h \in Visits, SessionStep(h)
  PROVE  AccountsTypeOK'
<1>1. visit \in [Visits -> Visit] /\ session \in [SessionId -> Session]
  BY DEF AccountsTypeOK
<1>2. visit' \in [Visits -> Visit] /\ session' \in [SessionId -> Session]
  <2>1. CASE \E u \in Users : Login(h, u)
    <3>1. PICK u \in Users : Login(h, u)
      BY <2>1
    <3>2. [NoVisit EXCEPT !.phase = "rotated", !.user = u] \in Visit
      BY NoVisitType DEF Visit
    <3> QED
      BY <1>1, <3>1, <3>2 DEF Login
  <2>2. CASE \E s \in SessionId : RefreshSession(h, s)
    <3>1. PICK s \in SessionId : RefreshSession(h, s)
      BY <2>2
    <3>2. session[s].user \in Users /\ s \in 0..MaxSessions
      BY <1>1, AccountsAssumption DEF Session, SessionId
    <3> QED
      BY <1>1, <3>1, <3>2, NoVisitType DEF RefreshSession, Visit
  <2>3. CASE AdmitUser(h)
    <3>1. session' = session /\ visit[h] \in Visit
      BY <1>1, <2>3 DEF AdmitUser
    <3>2. CASE visit' = [visit EXCEPT ![h].phase = "admitted"]
      <4>1. [visit[h] EXCEPT !.phase = "admitted"] \in Visit
        BY <3>1 DEF Visit
      <4> QED
        BY <1>1, <3>1, <3>2, <4>1
    <3>3. CASE visit' = [visit EXCEPT ![h] = NoVisit]
      BY <1>1, <3>1, <3>3, NoVisitType
    <3> QED
      BY <2>3, <3>2, <3>3 DEF AdmitUser, EndsVisit
  <2>4. CASE DeleteSession(h)
    <3>1. [visit[h] EXCEPT !.phase = "rotated"] \in Visit
      BY <1>1 DEF Visit
    <3>2. \A s \in SessionId : [session[s] EXCEPT !.state = "ended"] \in Session
      BY <1>1 DEF Session
    <3>3. /\ visit' = [visit EXCEPT ![h].phase = "rotated"]
          /\ session' = [session EXCEPT ![visit[h].sid].state = "ended"]
      BY <2>4 DEF DeleteSession
    <3> QED
      BY <1>1, <3>1, <3>2, <3>3
  <2>5. CASE SaveSession(h)
    <3>1. PICK s \in SessionId :
            /\ session' = [session EXCEPT ![s] =
                 [user |-> visit[h].user, state |-> "open",
                  login |-> IF visit[h].sid = 0 THEN s ELSE session[visit[h].sid].login]]
            /\ visit' = [visit EXCEPT ![h].phase = "issued", ![h].sid = s]
      BY <2>5 DEF SaveSession
    <3>2. visit[h].user \in Users /\ visit[h].sid \in 0..MaxSessions /\ s \in 0..MaxSessions
      BY <1>1, AccountsAssumption DEF Visit, SessionId
    <3>3. (IF visit[h].sid = 0 THEN s ELSE session[visit[h].sid].login) \in 0..MaxSessions
      BY <1>1, <3>2, AccountsAssumption DEF Session, SessionId
    <3> DEFINE login == IF visit[h].sid = 0 THEN s ELSE session[visit[h].sid].login
    <3>4. [user |-> visit[h].user, state |-> "open", login |-> login] \in Session
      BY <3>2, <3>3 DEF Session
    <3>5. session' = [session EXCEPT ![s] =
            [user |-> visit[h].user, state |-> "open", login |-> login]]
      BY <3>1
    <3> HIDE DEF login
    <3>6. session' \in [SessionId -> Session]
      BY <1>1, <3>4, <3>5
    <3>7. visit' \in [Visits -> Visit]
      BY <1>1, <3>1, <3>2 DEF Visit
    <3> QED
      BY <3>6, <3>7
  <2>6. CASE AnswerTokens(h) \/ VisitFails(h)
    BY <1>1, <2>6, NoVisitType DEF AnswerTokens, VisitFails, EndsVisit
  <2> QED
    BY <2>1, <2>2, <2>3, <2>4, <2>5, <2>6 DEF SessionStep
<1>3. UNCHANGED <<profile, grant, alone>>
  BY DEF SessionStep, Login, RefreshSession, AdmitUser, DeleteSession, SaveSession,
         AnswerTokens, VisitFails, EndsVisit
<1> QED
  BY <1>2, <1>3 DEF AccountsTypeOK

LEMMA EndingType ==
  ASSUME AccountsTypeOK, NEW s \in SessionId, Ending(s)
  PROVE  AccountsTypeOK'
BY DEF Ending, Logout, SessionExpires, AccountsTypeOK, Session

LEMMA AccountsStepType == AccountsTypeOK /\ [AccountsNext]_accountsVars => AccountsTypeOK'
<1> SUFFICES ASSUME AccountsTypeOK, [AccountsNext]_accountsVars
             PROVE  AccountsTypeOK'
  OBVIOUS
<1>1. CASE UNCHANGED accountsVars
  BY <1>1 DEF accountsVars, AccountsTypeOK
<1> QED
  BY <1>1, CreateUserType, ManageStepType, SessionStepType, EndingType
  DEF AccountsNext, ManageStep, SessionStep, Ending

\* Users, roles, sessions and handlers keep their types.
THEOREM AccountsTypeCorrectness == AccountsSpec => []AccountsTypeOK
<1>1. AccountsInit => AccountsTypeOK
  BY AccountsInitType
<1>2. AccountsTypeOK /\ [AccountsNext]_accountsVars => AccountsTypeOK'
  BY AccountsStepType
<1> QED
  BY <1>1, <1>2, PTL DEF AccountsSpec
-----------------------------------------------------------------------------
(***************************************************************************)
(* Roles.                                                                  *)
(***************************************************************************)

\* Who is not there has no row of user_roles, so that a new user starts with one.
NobodyHasRoles == \A u \in Users : ~ Exists(u) => \A r \in Role : grant[u][r] = "none"

RolesInv == AccountsTypeOK /\ NobodyHasRoles /\ RolePlacesAgree

LEMMA RolesInvStep ==
  ASSUME RolesInv, [AccountsNext]_accountsVars
  PROVE  /\ RolesInv'
         /\ \A u \in Users, r \in Role :
              grant[u][r] = "disabled" => grant'[u][r] # "active"
<1> USE DEF RolesInv, NobodyHasRoles, RolePlacesAgree, Exists
<1>0. AccountsTypeOK'
  BY AccountsStepType
<1>1. CASE UNCHANGED <<profile, grant>>
  BY <1>0, <1>1
<1>2. ASSUME NEW u \in Users, NEW r \in Role, CreateUser(u, r)
      PROVE  /\ NobodyHasRoles' /\ RolePlacesAgree'
             /\ \A v \in Users, q \in Role :
                  grant[v][q] = "disabled" => grant'[v][q] # "active"
  BY <1>2 DEF CreateUser, AccountsTypeOK
<1>3. ASSUME NEW h \in Visits, SetUserStatus(h) \/ SetUserRole(h) \/ DeleteUser(h)
      PROVE  /\ NobodyHasRoles' /\ RolePlacesAgree'
             /\ \A v \in Users, q \in Role :
                  grant[v][q] = "disabled" => grant'[v][q] # "active"
  <2>1. visit[h].user \in Users
    BY DEF AccountsTypeOK, Visit
  <2>2. CASE SetUserStatus(h)
    BY <2>1, <2>2 DEF SetUserStatus, AccountsTypeOK, UserStatus
  <2>3. CASE SetUserRole(h)
    BY <2>1, <2>3 DEF SetUserRole, AccountsTypeOK
  <2>4. CASE DeleteUser(h)
    BY <2>1, <2>4 DEF DeleteUser, AccountsTypeOK
  <2> QED
    BY <1>3, <2>2, <2>3, <2>4
<1> QED
  BY <1>0, <1>1, <1>2, <1>3
  DEF AccountsNext, accountsVars, FindTarget, Login, RefreshSession, AdmitUser,
      DeleteSession, SaveSession, AnswerTokens, VisitFails, Logout, SessionExpires

LEMMA RolesInvariance == AccountsSpec => []RolesInv
<1>1. AccountsInit => RolesInv
  BY AccountsInitType
  DEF AccountsInit, AccountsRest, RolesInv, NobodyHasRoles, RolePlacesAgree, Exists
<1>2. RolesInv /\ [AccountsNext]_accountsVars => RolesInv'
  BY RolesInvStep
<1> QED
  BY <1>1, <1>2, PTL DEF AccountsSpec

\* Whoever exists has one active row of user_roles, that of the role column.
THEOREM RolesAgree == AccountsSpec => []RolePlacesAgree
<1>1. RolesInv => RolePlacesAgree
  BY DEF RolesInv
<1> QED
  BY <1>1, RolesInvariance, PTL

\* A role that was taken from a user cannot be given back.
THEOREM LostRoles == AccountsSpec => LostRolesStayLost
<1>1. RolesInv /\ [AccountsNext]_accountsVars =>
        [\A u \in Users, r \in Role :
           grant[u][r] = "disabled" => grant'[u][r] # "active"]_accountsVars
  BY RolesInvStep
<1> QED
  BY <1>1, RolesInvariance, PTL DEF AccountsSpec, LostRolesStayLost
-----------------------------------------------------------------------------
(***************************************************************************)
(* Sessions, one request at a time.                                        *)
(***************************************************************************)

Open(s) == session[s].state = "open"

LoginOf(s) == session[s].login

\* One by one: of a login, at most one session is open; it is the one a refresh has
\* read, and none once the refresh has closed it.  A login is the rank of a session
\* that was opened, so that the next one starts a login of its own.
SessionsInv ==
  alone =>
    /\ \A g, h \in Visits :
         visit[g].phase # "idle" /\ visit[h].phase # "idle" => g = h
    /\ \A s, t \in SessionId : Open(s) /\ Open(t) /\ LoginOf(s) = LoginOf(t) => s = t
    /\ \A s \in SessionId : session[s].state # "none" =>
         LoginOf(s) \in SessionId /\ session[LoginOf(s)].state # "none"
    /\ \A h \in Visits :
         /\ visit[h].phase \in {"loaded", "admitted"} =>
              /\ visit[h].sid \in SessionId
              /\ session[visit[h].sid].state # "none"
              /\ \A t \in SessionId :
                   Open(t) /\ LoginOf(t) = LoginOf(visit[h].sid) => t = visit[h].sid
         /\ visit[h].phase = "rotated" /\ visit[h].sid # 0 =>
              /\ session[visit[h].sid].state # "none"
              /\ \A t \in SessionId : Open(t) => LoginOf(t) # LoginOf(visit[h].sid)

LEMMA VisitStepSessions ==
  ASSUME AccountsTypeOK, SessionsInv, NEW h \in Visits,
         ManageStep(h) \/ SessionStep(h)
  PROVE  SessionsInv'
<1> SUFFICES ASSUME alone'
             PROVE  SessionsInv'
  BY DEF SessionsInv
<1>0. /\ alone
      /\ \A g \in Visits : g # h => visit[g].phase = "idle"
  BY DEF SessionsInv, ManageStep, SessionStep, FindTarget, SetUserStatus, SetUserRole,
         DeleteUser, Login, RefreshSession, AdmitUser, DeleteSession, SaveSession,
         AnswerTokens, VisitFails, MayVisit
<1> USE <1>0 DEF SessionsInv, AccountsTypeOK, Open, LoginOf, EndsVisit
<1>1. CASE ManageStep(h) \/ AnswerTokens(h) \/ VisitFails(h)
  <2>1. /\ session' = session
        /\ visit'[h].phase \in {"idle", "managing"}
        /\ \A g \in Visits : g # h => visit'[g] = visit[g]
    <3>1. CASE \E u \in Users : FindTarget(h, u)
      BY <3>1 DEF FindTarget
    <3>2. CASE EndsVisit(h) /\ session' = session
      BY <3>2 DEF NoVisit
    <3> QED
      BY <1>1, <3>1, <3>2
      DEF ManageStep, SetUserStatus, SetUserRole, DeleteUser, AnswerTokens, VisitFails
  <2> QED
    BY <2>1
<1>2. CASE \E u \in Users : Login(h, u)
  BY <1>2 DEF Login, NoVisit
<1>3. CASE \E s \in SessionId : RefreshSession(h, s)
  BY <1>3 DEF RefreshSession, NoVisit
<1>4. CASE AdmitUser(h)
  <2>1. /\ session' = session /\ visit[h].phase = "loaded"
        /\ \A g \in Visits : g # h => visit'[g] = visit[g]
    BY <1>4 DEF AdmitUser
  <2>2. \/ visit'[h].phase = "admitted" /\ visit'[h].sid = visit[h].sid
        \/ visit'[h].phase = "idle"
    BY <1>4 DEF AdmitUser, NoVisit, Visit
  <2> QED
    BY SMTT(30), <2>1, <2>2
<1>5. CASE DeleteSession(h)
  <2>1. 0 \notin SessionId
    BY DEF SessionId
  <2> QED
    BY <1>5, <2>1 DEF DeleteSession
<1>6. CASE SaveSession(h)
  <2>1. PICK s \in SessionId :
          /\ session[s].state = "none"
          /\ session' = [session EXCEPT ![s] =
               [user |-> visit[h].user, state |-> "open",
                login |-> IF visit[h].sid = 0 THEN s ELSE LoginOf(visit[h].sid)]]
          /\ visit' = [visit EXCEPT ![h].phase = "issued", ![h].sid = s]
    BY <1>6 DEF SaveSession
  <2>2. /\ visit[h].phase = "rotated"
        /\ visit[h].sid \in SessionId \cup {0} /\ 0 \notin SessionId
    BY <1>6, AccountsAssumption DEF SaveSession, Visit, SessionId
  <2>3. /\ \A t \in SessionId : t # s => session'[t] = session[t]
        /\ session'[s].state = "open"
        /\ session'[s].login = IF visit[h].sid = 0 THEN s ELSE LoginOf(visit[h].sid)
    BY <2>1
  <2>4. \A t \in SessionId : Open(t) => LoginOf(t) # session'[s].login
    BY <2>1, <2>2, <2>3
  <2>5. session'[s].login \in SessionId /\ session'[session'[s].login].state # "none"
    BY <2>1, <2>2, <2>3
  <2>6. visit'[h].phase = "issued" /\ \A g \in Visits : g # h => visit'[g] = visit[g]
    BY <2>1
  <2>7. ASSUME NEW q \in SessionId, NEW t \in SessionId,
               session'[q].state = "open", session'[t].state = "open",
               session'[q].login = session'[t].login
        PROVE  q = t
    <3>1. CASE q # s /\ t # s
      BY <2>3, <2>7, <3>1
    <3>2. CASE q = s \/ t = s
      BY <2>3, <2>4, <2>7, <3>2
    <3> QED
      BY <3>1, <3>2
  <2>8. \A t \in SessionId : session'[t].state # "none" =>
          session'[t].login \in SessionId /\ session'[session'[t].login].state # "none"
    BY <2>3, <2>5
  <2>9. alone' = alone
    BY <1>6 DEF SaveSession
  <2> QED
    BY <2>6, <2>7, <2>8, <2>9
<1> QED
  BY <1>1, <1>2, <1>3, <1>4, <1>5, <1>6 DEF ManageStep, SessionStep

LEMMA EndingSessions ==
  ASSUME AccountsTypeOK, SessionsInv, NEW s \in SessionId, Ending(s)
  PROVE  SessionsInv'
<1>0. /\ session[s].state = "open"
      /\ session' = [session EXCEPT ![s].state = "ended"]
      /\ UNCHANGED <<visit, alone>>
  BY DEF Ending, Logout, SessionExpires
<1>1. /\ \A t \in SessionId : session'[t].login = session[t].login
      /\ \A t \in SessionId : session[t].state # "none" => session'[t].state # "none"
      /\ \A t \in SessionId : session'[t].state = "open" => session[t].state = "open"
      /\ \A t \in SessionId : session'[t].state # "none" => session[t].state # "none"
  BY <1>0 DEF AccountsTypeOK, Session
<1>2. \A h \in Visits : visit[h].sid # 0 => visit[h].sid \in SessionId
  BY AccountsAssumption DEF AccountsTypeOK, Visit, SessionId
<1> QED
  BY <1>0, <1>1, <1>2 DEF SessionsInv, Open, LoginOf

LEMMA SessionsInvStep ==
  ASSUME AccountsTypeOK, SessionsInv, [AccountsNext]_accountsVars
  PROVE  SessionsInv'
<1>1. CASE UNCHANGED <<session, visit, alone>>
  BY <1>1 DEF SessionsInv, Open, LoginOf
<1>2. CASE \E u \in Users, r \in Role : CreateUser(u, r)
  BY <1>1, <1>2 DEF CreateUser
<1>3. CASE \E h \in Visits : ManageStep(h) \/ SessionStep(h)
  BY <1>3, VisitStepSessions
<1>4. CASE \E s \in SessionId : Ending(s)
  BY <1>4, EndingSessions
<1>5. CASE UNCHANGED accountsVars
  BY <1>1, <1>5 DEF accountsVars
<1> QED
  BY <1>2, <1>3, <1>4, <1>5 DEF AccountsNext, ManageStep, SessionStep, Ending

LEMMA SessionsInvariance == AccountsSpec => []SessionsInv
<1>1. AccountsInit => SessionsInv
  BY DEF AccountsInit, AccountsRest, SessionsInv, Open, LoginOf, NoVisit
<1>2. AccountsTypeOK /\ SessionsInv /\ [AccountsNext]_accountsVars => SessionsInv'
  BY SessionsInvStep
<1> QED
  BY <1>1, <1>2, AccountsTypeCorrectness, PTL DEF AccountsSpec

\* One by one, however refreshes fail and sessions expire, a login never has two open
\* sessions.
THEOREM OneSession == AccountsSpec => []OneSessionPerLogin
<1>1. SessionsInv => OneSessionPerLogin
  <2> SUFFICES ASSUME SessionsInv, alone, NEW login \in SessionId
               PROVE  Cardinality(OpenSessionsOf(login)) <= 1
    BY DEF OneSessionPerLogin
  <2>1. \A s, t \in OpenSessionsOf(login) : s = t
    BY DEF SessionsInv, OpenSessionsOf, Open, LoginOf
  <2>2. CASE OpenSessionsOf(login) = {}
    BY <2>2, FS_EmptySet
  <2>3. CASE OpenSessionsOf(login) # {}
    <3>1. PICK s \in OpenSessionsOf(login) : TRUE
      BY <2>3
    <3>2. OpenSessionsOf(login) = {s}
      BY <2>1, <3>1
    <3>3. Cardinality({s}) = 1
      BY FS_Singleton
    <3> QED
      BY <3>2, <3>3
  <2> QED
    BY <2>2, <2>3
<1> QED
  BY <1>1, SessionsInvariance, PTL

(***************************************************************************)
(* The creation of many users in one request.                              *)
(***************************************************************************)

\* What is true of a request wherever it is: the rows before the one at work are
\* stored or refused, and no stored row has its like.
BatchInv(r) ==
  /\ r.row <= r.request.total + 1
  /\ \A i \in r.inserted : i <= r.request.total /\ ~ Duplicate(r.request, i)
  /\ r.phase \in {"row", "looked_up", "stored", "answered"} =>
       r.errors = (1 .. (r.row - 1)) \ r.inserted
  /\ r.phase \in {"row", "looked_up", "answered"} =>
       r.inserted \subseteq 1 .. (r.row - 1) /\ r.success = Cardinality(r.inserted)
  /\ r.phase \in {"looked_up", "stored"} =>
       r.row <= r.request.total /\ ~ Duplicate(r.request, r.row)
  /\ r.phase = "stored" =>
       /\ r.row \in r.inserted /\ r.inserted \subseteq 1 .. r.row
       /\ Cardinality(r.inserted) = r.success + 1
  /\ r.phase = "answered" => r.row = r.request.total + 1

BatchesInv == BatchesTypeOK /\ \A b \in Importers : BatchInv(batch[b])

LEMMA RequestType ==
  ASSUME NEW r \in Batch
  PROVE  /\ r.request.total \in Nat \ {0} /\ r.request.total <= MaxItems
         /\ r.row \in Nat \ {0} /\ r.success \in Nat
         /\ IsFiniteSet(r.inserted) /\ r.inserted \subseteq Nat
<1>1. r.request.total \in 1 .. MaxItems /\ r.row \in 1 .. (MaxItems + 1)
  BY UserBatchesAssumption DEF Batch, Position
<1>2. r.inserted \subseteq 1 .. MaxItems /\ IsFiniteSet(1 .. MaxItems)
  BY UserBatchesAssumption, FS_Interval DEF Batch, Position
<1> QED
  BY <1>1, <1>2, UserBatchesAssumption, FS_Subset DEF Batch

LEMMA FreshInv == \A request \in Requests : Fresh(request) \in Batch /\ BatchInv(Fresh(request))
<1> TAKE request \in Requests
<1>1. request.total \in 1 .. MaxItems
  BY UserBatchesAssumption DEF Position
<1>2. Fresh(request) \in Batch
  BY UserBatchesAssumption DEF Fresh, Batch
<1>3. (1 .. 0) = {} /\ Cardinality({}) = 0
  BY FS_EmptySet
<1> QED
  BY <1>1, <1>2, <1>3, UserBatchesAssumption DEF Fresh, BatchInv

LEMMA ItemFailsInv ==
  ASSUME NEW r \in Batch, BatchInv(r), r.phase = "row", r.row <= r.request.total,
         NEW s, s = [r EXCEPT !.phase = "row", !.row = @ + 1, !.errors = @ \cup {r.row}]
  PROVE  s \in Batch /\ BatchInv(s)
<1>1. /\ r.row \in 1 .. MaxItems /\ r.row + 1 \in 1 .. (MaxItems + 1)
      /\ (r.row + 1) - 1 = r.row /\ r.row \notin 1 .. (r.row - 1)
      /\ 1 .. r.row = (1 .. (r.row - 1)) \cup {r.row}
  BY RequestType, UserBatchesAssumption
<1>2. s \in Batch
  BY <1>1 DEF Batch, Position
<1>3. /\ s.phase = "row" /\ s.row = r.row + 1 /\ s.errors = r.errors \cup {r.row}
      /\ s.inserted = r.inserted /\ s.success = r.success /\ s.request = r.request
  BY DEF Batch
<1>4. r.inserted \subseteq 1 .. (r.row - 1) /\ r.errors = (1 .. (r.row - 1)) \ r.inserted
  BY DEF BatchInv
<1> QED
  BY <1>1, <1>2, <1>3, <1>4, RequestType DEF BatchInv

LEMMA StoredInv ==
  ASSUME NEW r \in Batch, BatchInv(r), r.phase = "looked_up",
         NEW s, s = [r EXCEPT !.phase = "stored", !.inserted = @ \cup {r.row}]
  PROVE  s \in Batch /\ BatchInv(s)
<1>1. /\ r.row \in 1 .. MaxItems /\ r.row \notin 1 .. (r.row - 1)
      /\ 1 .. r.row = (1 .. (r.row - 1)) \cup {r.row}
  BY RequestType, UserBatchesAssumption DEF BatchInv
<1>2. s \in Batch
  BY <1>1 DEF Batch, Position
<1>3. /\ s.phase = "stored" /\ s.row = r.row /\ s.errors = r.errors
      /\ s.inserted = r.inserted \cup {r.row} /\ s.success = r.success /\ s.request = r.request
  BY DEF Batch
<1>4. Cardinality(s.inserted) = r.success + 1
  <2>1. r.row \notin r.inserted /\ r.success = Cardinality(r.inserted)
    BY <1>1 DEF BatchInv
  <2> QED
    BY <1>3, <2>1, RequestType, FS_AddElement
<1> QED
  BY <1>1, <1>2, <1>3, <1>4, RequestType DEF BatchInv

LEMMA ReadBackInv ==
  ASSUME NEW r \in Batch, BatchInv(r), r.phase = "stored",
         NEW s, s = [r EXCEPT !.phase = "row", !.row = @ + 1, !.success = @ + 1]
  PROVE  s \in Batch /\ BatchInv(s)
<1>1. /\ r.row \in 1 .. MaxItems /\ r.row + 1 \in 1 .. (MaxItems + 1)
      /\ (r.row + 1) - 1 = r.row /\ r.success + 1 \in Nat
      /\ 1 .. r.row = (1 .. (r.row - 1)) \cup {r.row}
  BY RequestType, UserBatchesAssumption DEF BatchInv
<1>2. s \in Batch
  BY <1>1 DEF Batch
<1>3. /\ s.phase = "row" /\ s.row = r.row + 1 /\ s.errors = r.errors
      /\ s.inserted = r.inserted /\ s.success = r.success + 1 /\ s.request = r.request
  BY DEF Batch
<1> QED
  BY <1>1, <1>2, <1>3, RequestType DEF BatchInv

LEMMA PhaseInv ==
  ASSUME NEW r \in Batch, BatchInv(r), NEW s,
         \/ /\ s = [r EXCEPT !.phase = "looked_up"] /\ r.phase = "row"
            /\ r.row <= r.request.total /\ ~ Duplicate(r.request, r.row)
         \/ /\ s = [r EXCEPT !.phase = "answered"]
            /\ r.phase = "row" /\ r.row > r.request.total
         \/ s = [r EXCEPT !.phase = "aborted"]
  PROVE  s \in Batch /\ BatchInv(s)
<1>1. s \in Batch
  BY DEF Batch
<1>2. /\ s.row = r.row /\ s.errors = r.errors /\ s.inserted = r.inserted
      /\ s.success = r.success /\ s.request = r.request
  BY DEF Batch
<1>3. s.phase = "looked_up" \/ s.phase = "answered" \/ s.phase = "aborted"
  BY DEF Batch
<1>4. s.phase = "looked_up" => /\ r.phase = "row" /\ r.row <= r.request.total
                               /\ ~ Duplicate(r.request, r.row)
  BY DEF Batch
<1>5. s.phase = "answered" => r.phase = "row" /\ r.row > r.request.total
  BY DEF Batch
<1> QED
  BY <1>1, <1>2, <1>3, <1>4, <1>5, RequestType DEF BatchInv

\* Each step of a request takes it from a record that keeps the invariant to one that does.
LEMMA BatchStep ==
  ASSUME BatchesInv, NEW b \in Importers,
         \/ BatchCreate(b) \/ RefuseItem(b) \/ LookUpUsername(b) \/ StoreUser(b)
         \/ ReadBack(b) \/ AnswerBatch(b) \/ StatementFails(b)
  PROVE  BatchesInv'
<1> USE DEF BatchesInv, BatchesTypeOK
<1> PICK r \in Batch : r = batch[b] /\ BatchInv(r)
  OBVIOUS
<1>1. ASSUME NEW s \in Batch, BatchInv(s), batch' = [batch EXCEPT ![b] = s],
             taken' \subseteq Usernames
      PROVE  BatchesInv'
  <2>1. batch' \in [Importers -> Batch]
    BY <1>1
  <2>2. ASSUME NEW c \in Importers PROVE BatchInv(batch'[c])
    <3>1. batch'[c] = IF c = b THEN s ELSE batch[c]
      BY <1>1
    <3>2. CASE c = b
      BY <1>1, <3>1, <3>2
    <3>3. CASE c # b
      BY <3>1, <3>3
    <3> QED
      BY <3>2, <3>3
  <2>3. (\A c \in Importers : BatchInv(batch[c]))'
    BY <2>2 DEF BatchInv
  <2> QED
    BY <1>1, <2>1, <2>3
<1>2. r.row <= r.request.total => ItemOf(b).username \in Usernames
  <2>1. r.row <= r.request.total => r.row \in Position
    BY RequestType, UserBatchesAssumption DEF Position
  <2> QED
    BY <2>1, UserBatchesAssumption DEF ItemOf, Batch, Item
<1>3. CASE BatchCreate(b)
  BY <1>1, <1>3, FreshInv DEF BatchCreate
<1>4. ASSUME ItemFails(b), AtRow(b), UNCHANGED taken PROVE BatchesInv'
  <2> PICK s : s = [r EXCEPT !.phase = "row", !.row = @ + 1, !.errors = @ \cup {r.row}]
    OBVIOUS
  <2>1. s \in Batch /\ BatchInv(s)
    BY <1>4, ItemFailsInv DEF AtRow
  <2>2. batch' = [batch EXCEPT ![b] = s]
    BY <1>4 DEF ItemFails
  <2> QED
    BY <1>1, <1>4, <2>1, <2>2
<1>5. ASSUME BatchFails(b), UNCHANGED taken PROVE BatchesInv'
  <2> PICK s : s = [r EXCEPT !.phase = "aborted"]
    OBVIOUS
  <2>1. s \in Batch /\ BatchInv(s)
    BY PhaseInv
  <2>2. batch' = [batch EXCEPT ![b] = s]
    BY <1>5 DEF BatchFails
  <2> QED
    BY <1>1, <1>5, <2>1, <2>2
<1>6. CASE RefuseItem(b)
  BY <1>4, <1>6 DEF RefuseItem
<1>7. CASE LookUpUsername(b)
  <2>1. CASE batch' = [batch EXCEPT ![b].phase = "looked_up"]
    <3> PICK s : s = [r EXCEPT !.phase = "looked_up"]
      OBVIOUS
    <3>1. r.phase = "row" /\ r.row <= r.request.total /\ ~ Duplicate(r.request, r.row)
      BY <1>7 DEF LookUpUsername, AtRow
    <3>2. s \in Batch /\ BatchInv(s)
      BY <3>1, PhaseInv
    <3>3. batch' = [batch EXCEPT ![b] = s] /\ taken' = taken
      BY <1>7, <2>1 DEF LookUpUsername
    <3> QED
      BY <1>1, <3>2, <3>3
  <2> QED
    BY <1>4, <1>5, <1>7, <2>1 DEF LookUpUsername
<1>8. CASE StoreUser(b)
  <2>1. CASE ItemOf(b).username \in taken
    BY <1>5, <1>8, <2>1 DEF StoreUser
  <2>2. CASE ItemOf(b).username \notin taken
    <3> PICK s : s = [r EXCEPT !.phase = "stored", !.inserted = @ \cup {r.row}]
      OBVIOUS
    <3>1. r.phase = "looked_up" /\ s \in Batch /\ BatchInv(s)
      BY <1>8, StoredInv DEF StoreUser
    <3>2. batch' = [batch EXCEPT ![b] = s]
      BY <1>8, <2>2 DEF StoreUser
    <3>3. taken' \subseteq Usernames
      BY <1>2, <1>8, <2>2, <3>1 DEF StoreUser, BatchInv
    <3> QED
      BY <1>1, <3>1, <3>2, <3>3
  <2> QED
    BY <2>1, <2>2
<1>9. CASE ReadBack(b)
  <2>1. CASE BatchFails(b)
    BY <1>5, <1>9, <2>1 DEF ReadBack
  <2>2. CASE ~ BatchFails(b)
    <3> PICK s : s = [r EXCEPT !.phase = "row", !.row = @ + 1, !.success = @ + 1]
      OBVIOUS
    <3>1. r.phase = "stored" /\ s \in Batch /\ BatchInv(s)
      BY <1>9, ReadBackInv DEF ReadBack
    <3>2. batch' = [batch EXCEPT ![b] = s] /\ taken' = taken
      BY <1>9, <2>2 DEF ReadBack
    <3> QED
      BY <1>1, <3>1, <3>2
  <2> QED
    BY <2>1, <2>2
<1>10. CASE AnswerBatch(b)
  <2> PICK s : s = [r EXCEPT !.phase = "answered"]
    OBVIOUS
  <2>1. r.phase = "row" /\ r.row > r.request.total
    BY <1>10 DEF AnswerBatch
  <2>2. s \in Batch /\ BatchInv(s)
    BY <2>1, PhaseInv
  <2>3. batch' = [batch EXCEPT ![b] = s] /\ taken' = taken
    BY <1>10 DEF AnswerBatch
  <2> QED
    BY <1>1, <2>2, <2>3
<1>11. CASE StatementFails(b)
  BY <1>5, <1>11 DEF StatementFails
<1> QED
  BY <1>3, <1>6, <1>7, <1>8, <1>9, <1>10, <1>11

LEMMA BatchesInvInit == BatchesInit => BatchesInv
<1> SUFFICES ASSUME BatchesInit PROVE BatchesInv
  OBVIOUS
<1> PICK request \in Requests : request = CHOOSE q \in Requests : TRUE
  BY UserBatchesAssumption
<1> PICK r : r = [Fresh(request) EXCEPT !.phase = "none"]
  OBVIOUS
<1>1. r \in Batch /\ r.phase = "none" /\ r.row = 1 /\ r.inserted = {} /\ r.request.total \in Nat
  BY FreshInv, RequestType DEF Fresh, Batch
<1>2. BatchInv(r)
  BY <1>1 DEF BatchInv
<1>3. taken = {} /\ batch = [b \in Importers |-> r]
  BY DEF BatchesInit, BatchesRest
<1> QED
  BY <1>1, <1>2, <1>3 DEF BatchesInv, BatchesTypeOK

LEMMA BatchesInvStep == BatchesInv /\ [BatchesNext]_batchVars => BatchesInv'
<1> SUFFICES ASSUME BatchesInv, [BatchesNext]_batchVars PROVE BatchesInv'
  OBVIOUS
<1>1. CASE UNCHANGED batchVars
  BY <1>1 DEF batchVars, BatchesInv, BatchesTypeOK
<1>2. CASE \E u \in Usernames : OthersCreate(u) \/ OthersDelete(u)
  BY <1>2 DEF OthersCreate, OthersDelete, BatchesInv, BatchesTypeOK
<1> QED
  BY <1>1, <1>2, BatchStep DEF BatchesNext

LEMMA BatchesInvariance == BatchesSpec => []BatchesInv
BY BatchesInvInit, BatchesInvStep, PTL DEF BatchesSpec

\* For any requests at any time, with users made and deleted by others under way: an
\* answer lists as errors just the rows whose user was not stored, and counts the others.
LEMMA BatchAnswersAreTrue == BatchesSpec => []AnswersMatchTheTable
<1>1. BatchesInv => AnswersMatchTheTable
  <2> SUFFICES ASSUME BatchesInv, NEW b \in Importers, batch[b].phase = "answered"
               PROVE  /\ batch[b].errors = (1 .. batch[b].request.total) \ batch[b].inserted
                      /\ batch[b].success = Cardinality(batch[b].inserted)
    BY DEF AnswersMatchTheTable
  <2> PICK r \in Batch : r = batch[b] /\ BatchInv(r)
    BY DEF BatchesInv, BatchesTypeOK
  <2>1. r.row - 1 = r.request.total
    BY RequestType DEF BatchInv
  <2> QED
    BY <2>1 DEF BatchInv
<1> QED
  BY <1>1, BatchesInvariance, PTL

\* And no request stores two users of one name, not even when the first is deleted
\* before the second row: both rows are refused.
LEMMA BatchesStoreNoUserTwice == BatchesSpec => []NoUserTwice
<1>1. BatchesInv => NoUserTwice
  <2> SUFFICES ASSUME BatchesInv, NEW b \in Importers, NEW i \in batch[b].inserted,
                      NEW j \in batch[b].inserted, i # j
               PROVE  batch[b].request.item[i].username # batch[b].request.item[j].username
    BY DEF NoUserTwice
  <2> PICK r \in Batch : r = batch[b] /\ BatchInv(r)
    BY DEF BatchesInv, BatchesTypeOK
  <2>1. ~ Duplicate(r.request, i) /\ j \in 1 .. r.request.total
    <3>1. j \in Position
      BY DEF Batch
    <3> QED
      BY <3>1, RequestType DEF BatchInv, Position
  <2> QED
    BY <2>1 DEF Duplicate
<1> QED
  BY <1>1, BatchesInvariance, PTL

\* For any requests at any time, with users made and deleted by others under way: an
\* answer lists as errors just the rows whose user was not stored, counts the others,
\* and none of them has the name of another.
THEOREM BatchAnswersHold == BatchesSpec => []BatchesKeepTheirWord
<1>1. AnswersMatchTheTable /\ NoUserTwice => BatchesKeepTheirWord
  BY DEF BatchesKeepTheirWord
<1> QED
  BY <1>1, BatchAnswersAreTrue, BatchesStoreNoUserTwice, PTL

(***************************************************************************)
(* The seeding of the roles.                                               *)
(***************************************************************************)

LEMMA BootstrapInitType == BootstrapInit => BootstrapTypeOK
<1> SUFFICES ASSUME BootstrapInit PROVE BootstrapTypeOK
  OBVIOUS
<1>1. seededCode \in BOOLEAN
  BY DEF BootstrapInit
<1>2. 1 \in RoleRank /\ 0 \in 0..MaxStarts
  BY BootstrapAssumption DEF RoleRank
<1>3. instance \in [Instances -> [phase : InstancePhase, role : RoleRank,
                                  starts : 0..MaxStarts]]
  BY <1>2 DEF BootstrapInit, InstancePhase
<1> QED
  BY <1>1, <1>3 DEF BootstrapInit, BootstrapTypeOK

Instance == [phase : InstancePhase, role : RoleRank, starts : 0..MaxStarts]

\* An instance that is replaced by one of the type leaves the array well-typed.
LEMMA InstanceType ==
  ASSUME BootstrapTypeOK, NEW i \in Instances, NEW new \in Instance
  PROVE  [instance EXCEPT ![i] = new] \in [Instances -> Instance]
BY DEF BootstrapTypeOK, Instance

LEMMA MovedType ==
  ASSUME NEW old \in Instance, NEW phase \in InstancePhase, NEW role \in RoleRank
  PROVE  [old EXCEPT !.phase = phase, !.role = role] \in Instance
BY DEF Instance

\* So does a statement that only moves the instance on.
LEMMA EntersType ==
  ASSUME BootstrapTypeOK, NEW i \in Instances, NEW phase \in InstancePhase,
         Enters(i, phase)
  PROVE  instance' \in [Instances -> Instance]
BY DEF BootstrapTypeOK, Enters, Instance

\* Every statement of an instance leaves well-typed variables.
LEMMA InstanceStepType ==
  ASSUME BootstrapTypeOK, NEW i \in Instances,
         \/ StartInstance(i) \/ FindPermission(i) \/ CreatePermission(i)
         \/ FindRole(i) \/ CreateRole(i) \/ UnlinkPermissions(i)
         \/ LinkPermissions(i) \/ CountAdmins(i) \/ AddAdmin(i) \/ InstanceEnds(i)
  PROVE  instance' \in [Instances -> Instance]
<1>1. CASE StartInstance(i)
  <2>1. instance[i].starts \in 0..MaxStarts
    BY DEF BootstrapTypeOK
  <2>2. instance[i].starts + 1 \in 0..MaxStarts /\ 1 \in RoleRank
    BY <1>1, <2>1, BootstrapAssumption DEF StartInstance, RoleRank
  <2>3. PICK phase \in {"lookingUp", "serving"} :
          instance' = [instance EXCEPT ![i] =
            [phase |-> phase, role |-> 1, starts |-> @.starts + 1]]
    BY <1>1 DEF StartInstance
  <2>4. [phase |-> phase, role |-> 1, starts |-> instance[i].starts + 1] \in Instance
    BY <2>2 DEF Instance, InstancePhase
  <2> QED
    BY <2>3, <2>4, InstanceType
<1>2. CASE LinkPermissions(i) /\ instance[i].role \notin linked
  <2>1. /\ instance[i] \in Instance
        /\ instance[i].role \in RoleRank
    BY DEF BootstrapTypeOK, Instance
  <2>2. CASE instance[i].role < RoleCount
    <3> DEFINE next == instance[i].role + 1
    <3>1. next \in RoleRank
      BY <2>1, <2>2, BootstrapAssumption DEF RoleRank
    <3> HIDE DEF next
    <3>2. [instance[i] EXCEPT !.phase = "finding", !.role = next] \in Instance
      BY <2>1, <3>1, MovedType DEF InstancePhase
    <3>3. instance' = [instance EXCEPT ![i] =
            [instance[i] EXCEPT !.phase = "finding", !.role = next]]
      BY <1>2, <2>2 DEF LinkPermissions, NextRole, next
    <3> QED
      BY <3>2, <3>3, InstanceType
  <2>3. CASE ~ (instance[i].role < RoleCount)
    <3>1. [instance[i] EXCEPT !.phase = "counting"] \in Instance
      BY <2>1 DEF Instance, InstancePhase
    <3> QED
      BY <1>2, <2>3, <3>1, InstanceType DEF LinkPermissions, NextRole
  <2> QED
    BY <2>2, <2>3
<1>3. CASE \E phase \in InstancePhase : Enters(i, phase)
  BY <1>3, EntersType
<1> QED
  BY <1>1, <1>2, <1>3
  DEF FindPermission, CreatePermission, FindRole, CreateRole, UnlinkPermissions,
      LinkPermissions, CountAdmins, AddAdmin, InstanceEnds, InstancePhase

LEMMA BootstrapStepType == BootstrapTypeOK /\ [BootstrapNext]_bootVars => BootstrapTypeOK'
<1> SUFFICES ASSUME BootstrapTypeOK, [BootstrapNext]_bootVars
             PROVE  BootstrapTypeOK'
  OBVIOUS
<1>1. ASSUME NEW i \in Instances,
             \/ StartInstance(i) \/ FindPermission(i) \/ CreatePermission(i)
             \/ FindRole(i) \/ CreateRole(i) \/ UnlinkPermissions(i)
             \/ LinkPermissions(i) \/ CountAdmins(i) \/ AddAdmin(i) \/ InstanceEnds(i)
      PROVE  BootstrapTypeOK'
  <2>1. instance' \in [Instances -> Instance] /\ instance[i].role \in RoleRank
    BY <1>1, InstanceStepType DEF BootstrapTypeOK
  <2>2. seededRoles' \subseteq RoleRank /\ linked' \subseteq RoleRank /\ cut' \subseteq RoleRank
    BY <1>1, <2>1
    DEF BootstrapTypeOK, StartInstance, FindPermission, CreatePermission,
        FindRole, CreateRole, UnlinkPermissions,
        LinkPermissions, CountAdmins, AddAdmin, InstanceEnds
  <2>3. initAdmin' \in {"none", "admin", "other role"} /\ seededCode' \in BOOLEAN
    BY <1>1
    DEF BootstrapTypeOK, StartInstance, FindPermission, CreatePermission,
        FindRole, CreateRole, UnlinkPermissions,
        LinkPermissions, CountAdmins, AddAdmin, InstanceEnds
  <2> QED
    BY <2>1, <2>2, <2>3 DEF BootstrapTypeOK, Instance
<1>2. CASE AdminLeaves
  BY <1>2 DEF AdminLeaves, BootstrapTypeOK
<1>3. CASE UNCHANGED bootVars
  BY <1>3 DEF bootVars, BootstrapTypeOK
<1> QED
  BY <1>1, <1>2, <1>3 DEF BootstrapNext

\* The variables keep their types, however instances overlap and end.
THEOREM BootstrapTypeCorrectness == BootstrapSpec => []BootstrapTypeOK
<1>1. BootstrapInit => BootstrapTypeOK
  BY BootstrapInitType
<1>2. BootstrapTypeOK /\ [BootstrapNext]_bootVars => BootstrapTypeOK'
  BY BootstrapStepType
<1> QED
  BY <1>1, <1>2, PTL DEF BootstrapSpec
-----------------------------------------------------------------------------
AtPermissionsOf(r) ==
  \E i \in Instances : /\ instance[i].role = r
                       /\ instance[i].phase \in {"unlinking", "linking"}

\* An instance at the permissions of a role stays there while others move, and only
\* gives them up linked or cut.
LEMMA CausesStay ==
  ASSUME BootstrapTypeOK, MissingPermissionsHaveACause,
         NEW i \in Instances,
         \A j \in Instances \ {i} : instance'[j] = instance[j],
         seededRoles' \subseteq seededRoles \cup {instance[i].role},
         linked \ {instance[i].role} \subseteq linked',
         cut \ {instance[i].role} \subseteq cut',
         \/ instance[i].role \notin seededRoles'
         \/ instance[i].role \in linked'
         \/ instance[i].role \in cut'
         \/ /\ instance'[i].role = instance[i].role
            /\ instance'[i].phase \in {"unlinking", "linking"}
  PROVE  MissingPermissionsHaveACause'
<1> SUFFICES ASSUME NEW r \in seededRoles' \ linked'
             PROVE  r \in cut' \/ AtPermissionsOf(r)'
  BY DEF MissingPermissionsHaveACause, AtPermissionsOf
<1>1. CASE r = instance[i].role
  BY <1>1 DEF AtPermissionsOf
<1>2. CASE r # instance[i].role
  <2>1. r \in seededRoles \ linked
    BY <1>2
  <2>2. CASE r \in cut
    BY <1>2, <2>2
  <2>3. CASE AtPermissionsOf(r)
    <3>1. PICK j \in Instances : /\ instance[j].role = r
                                 /\ instance[j].phase \in {"unlinking", "linking"}
      BY <2>3 DEF AtPermissionsOf
    <3>2. instance'[j] = instance[j]
      BY <1>2, <3>1
    <3> QED
      BY <3>1, <3>2 DEF AtPermissionsOf
  <2> QED
    BY <2>1, <2>2, <2>3 DEF MissingPermissionsHaveACause, AtPermissionsOf
<1> QED
  BY <1>1, <1>2

\* A statement of an instance elsewhere, which changes no row of these, takes no cause
\* away.
LEMMA CausesElsewhere ==
  ASSUME MissingPermissionsHaveACause,
         NEW i \in Instances,
         instance[i].phase \notin {"unlinking", "linking"},
         \A j \in Instances \ {i} : instance'[j] = instance[j],
         UNCHANGED <<seededRoles, linked, cut>>
  PROVE  MissingPermissionsHaveACause'
<1> SUFFICES ASSUME NEW r \in seededRoles \ linked, r \notin cut
             PROVE  AtPermissionsOf(r)'
  BY DEF MissingPermissionsHaveACause, AtPermissionsOf
<1>1. PICK j \in Instances : /\ instance[j].role = r
                             /\ instance[j].phase \in {"unlinking", "linking"}
  BY DEF MissingPermissionsHaveACause
<1>2. instance'[j] = instance[j]
  BY <1>1
<1> QED
  BY <1>1, <1>2 DEF AtPermissionsOf

\* A statement of an instance moves no other instance.
LEMMA InstanceMovesAlone ==
  ASSUME BootstrapTypeOK, NEW i \in Instances,
         \/ StartInstance(i) \/ FindPermission(i) \/ CreatePermission(i)
         \/ FindRole(i) \/ CreateRole(i) \/ UnlinkPermissions(i)
         \/ LinkPermissions(i) \/ CountAdmins(i) \/ AddAdmin(i) \/ InstanceEnds(i)
  PROVE  \A j \in Instances \ {i} : instance'[j] = instance[j]
<1>1. instance \in [Instances -> Instance]
  BY DEF BootstrapTypeOK, Instance
<1>2. CASE StartInstance(i)
  BY <1>1, <1>2 DEF StartInstance
<1>3. CASE LinkPermissions(i)
  BY <1>1, <1>3 DEF LinkPermissions, NextRole, Enters
<1>4. CASE \E phase \in InstancePhase : Enters(i, phase)
  BY <1>1, <1>4 DEF Enters
<1> QED
  BY <1>2, <1>3, <1>4
  DEF FindPermission, CreatePermission, FindRole, CreateRole, UnlinkPermissions,
      CountAdmins, AddAdmin, InstanceEnds, InstancePhase

LEMMA CausesStep ==
  ASSUME BootstrapTypeOK, MissingPermissionsHaveACause, [BootstrapNext]_bootVars
  PROVE  MissingPermissionsHaveACause'
<1>1. ASSUME NEW i \in Instances,
             \/ StartInstance(i) \/ FindPermission(i) \/ CreatePermission(i)
             \/ FindRole(i) \/ CountAdmins(i) \/ AddAdmin(i)
      PROVE  MissingPermissionsHaveACause'
  <2>1. /\ instance[i].phase \notin {"unlinking", "linking"}
        /\ UNCHANGED <<seededRoles, linked, cut>>
    BY <1>1 DEF StartInstance, FindPermission, CreatePermission, FindRole,
                CountAdmins, AddAdmin, InPhase
  <2>2. \A j \in Instances \ {i} : instance'[j] = instance[j]
    BY <1>1, InstanceMovesAlone
  <2> QED
    BY <2>1, <2>2, CausesElsewhere
<1>2. ASSUME NEW i \in Instances, CreateRole(i)
      PROVE  MissingPermissionsHaveACause'
  <2>1. /\ instance[i].phase = "creating"
        /\ UNCHANGED <<linked, cut>>
    BY <1>2 DEF CreateRole, InPhase
  <2>2. \A j \in Instances \ {i} : instance'[j] = instance[j]
    BY <1>2, InstanceMovesAlone
  <2>3. CASE instance[i].role \notin seededRoles
    <3>1. Enters(i, "unlinking") /\ seededRoles' = seededRoles \cup {instance[i].role}
      BY <1>2, <2>3 DEF CreateRole
    <3>2. instance'[i].role = instance[i].role /\ instance'[i].phase = "unlinking"
      BY <3>1 DEF Enters, BootstrapTypeOK, Instance
    <3> QED
      BY <2>1, <2>2, <3>1, <3>2, CausesStay
  <2>4. CASE instance[i].role \in seededRoles
    <3>1. seededRoles' = seededRoles
      BY <1>2, <2>4 DEF CreateRole
    <3> QED
      BY <2>1, <2>2, <3>1, CausesElsewhere
  <2> QED
    BY <2>3, <2>4
<1>3. ASSUME NEW i \in Instances, UnlinkPermissions(i)
      PROVE  MissingPermissionsHaveACause'
  <2>1. /\ Enters(i, "linking") /\ linked' = linked \ {instance[i].role}
        /\ UNCHANGED <<seededRoles, cut>>
    BY <1>3 DEF UnlinkPermissions
  <2>2. \A j \in Instances \ {i} : instance'[j] = instance[j]
    BY <1>3, InstanceMovesAlone
  <2>3. instance'[i].role = instance[i].role /\ instance'[i].phase = "linking"
    BY <2>1 DEF Enters, BootstrapTypeOK, Instance
  <2> QED
    BY <2>1, <2>2, <2>3, CausesStay
<1>4. ASSUME NEW i \in Instances, LinkPermissions(i)
      PROVE  MissingPermissionsHaveACause'
  <2>1. \A j \in Instances \ {i} : instance'[j] = instance[j]
    BY <1>4, InstanceMovesAlone
  <2>2. instance[i].role \in linked'
    BY <1>4 DEF LinkPermissions
  <2>3. linked \subseteq linked' /\ cut' = cut \ {instance[i].role} /\ seededRoles' = seededRoles
    BY <1>4 DEF LinkPermissions
  <2> QED
    BY <2>1, <2>2, <2>3, CausesStay
<1>5. ASSUME NEW i \in Instances, InstanceEnds(i)
      PROVE  MissingPermissionsHaveACause'
  <2>1. /\ UNCHANGED <<seededRoles, linked>>
        /\ cut' = IF instance[i].phase \in {"unlinking", "linking"}
                  THEN cut \cup {instance[i].role} ELSE cut
    BY <1>5 DEF InstanceEnds
  <2>2. \A j \in Instances \ {i} : instance'[j] = instance[j]
    BY <1>5, InstanceMovesAlone
  <2>3. CASE instance[i].phase \in {"unlinking", "linking"}
    <3>1. cut' = cut \cup {instance[i].role}
      BY <2>1, <2>3
    <3> QED
      BY <2>1, <2>2, <3>1, CausesStay
  <2>4. CASE instance[i].phase \notin {"unlinking", "linking"}
    <3>1. cut' = cut
      BY <2>1, <2>4
    <3> QED
      BY <2>1, <2>2, <2>4, <3>1, CausesElsewhere
  <2> QED
    BY <2>3, <2>4
<1>6. CASE AdminLeaves
  BY <1>6 DEF AdminLeaves, MissingPermissionsHaveACause
<1>7. CASE UNCHANGED bootVars
  BY <1>7 DEF bootVars, MissingPermissionsHaveACause
<1> QED
  BY <1>1, <1>2, <1>3, <1>4, <1>5, <1>6, <1>7 DEF BootstrapNext

\* Instances that start together never leave a role without its permissions: they are
\* missing only where one is about to insert them, or was cut short.
THEOREM PermissionsAreNotLost == BootstrapSpec => []MissingPermissionsHaveACause
<1>1. BootstrapInit => MissingPermissionsHaveACause
  BY DEF BootstrapInit, MissingPermissionsHaveACause
<1>2. BootstrapTypeOK /\ MissingPermissionsHaveACause /\ [BootstrapNext]_bootVars
        => MissingPermissionsHaveACause'
  BY CausesStep
<1> QED
  BY <1>1, <1>2, BootstrapTypeCorrectness, PTL DEF BootstrapSpec
-----------------------------------------------------------------------------
(***************************************************************************)
(* The rights of the roles.  All but one of the agreements follow from the *)
(* rules alone; the right to confirm an upload rests on who could make it, *)
(* and on what does not change between the two requests.                   *)
(***************************************************************************)

\* A project and a task keep their creators, and a video has a task and an
\* uploader who passed the rules of its project.
UploadedByRule ==
  /\ project.here \/ task.here \/ HasVideo => project.creator # Nobody
  /\ HasVideo =>
       /\ task.here
       /\ \E a \in Actors :
            a.id = videoRow.uploader /\ a.role \in Manager /\ CanManageProject(a)

CatalogInv == CatalogTypeOK /\ UploadedByRule

LEMMA CatalogInvInit == CatalogInit => CatalogInv
BY DEF CatalogInit, CatalogInv, CatalogTypeOK, UploadedByRule, HasVideo, UserId,
       SchoolId, StudentNumber

LEMMA ProjectStepKeepsInv ==
  ASSUME CatalogInv, NEW a \in Actors,
         (\E school \in Schools : CreateProject(a, school)) \/ DeleteProject(a)
  PROVE  CatalogInv'
<1> USE DEF CatalogInv, CatalogTypeOK, HasVideo
<1>1. a.id \in UserId /\ a.id # Nobody
  BY CatalogAssumption DEF UserId
<1>2. CASE \E school \in Schools : CreateProject(a, school)
  <2>1. PICK school \in Schools : CreateProject(a, school)
    BY <1>2
  <2>2. ~ HasVideo /\ UNCHANGED <<rubric, task, videoRow>>
    BY <2>1 DEF CreateProject, UploadedByRule
  <2>3. project' = [here |-> TRUE, school |-> school, creator |-> a.id]
    BY <2>1 DEF CreateProject
  <2> QED
    BY <1>1, <2>2, <2>3 DEF UploadedByRule, SchoolId
<1>3. CASE DeleteProject(a)
  <2>1. /\ project' \in [here : BOOLEAN, school : SchoolId, creator : UserId]
        /\ project'.creator = project.creator /\ project'.school = project.school
        /\ UNCHANGED <<rubric, task, videoRow>>
        /\ project.here
    BY <1>3 DEF DeleteProject
  <2>2. \A b \in Actors : CanManageProject(b)' = CanManageProject(b)
    BY <2>1 DEF CanManageProject, SameSchool
  <2> QED
    BY <2>1, <2>2 DEF UploadedByRule
<1> QED
  BY <1>2, <1>3

LEMMA RubricStepKeepsInv ==
  ASSUME CatalogInv, NEW a \in Actors,
         \/ \E public \in BOOLEAN : CreateRubric(a, public)
         \/ UpdateRubric(a) \/ DeleteRubric(a)
  PROVE  CatalogInv'
<1> USE DEF CatalogInv, CatalogTypeOK
<1>1. a.id \in UserId /\ a.school \in SchoolId
  BY CatalogAssumption DEF UserId, SchoolId
<1>2. UNCHANGED <<project, task, videoRow>>
  BY DEF CreateRubric, UpdateRubric, DeleteRubric
<1>3. rubric' \in [here : BOOLEAN, school : SchoolId, creator : UserId, public : BOOLEAN]
  <2>1. ASSUME NEW public \in BOOLEAN, CreateRubric(a, public)
        PROVE  rubric' \in [here : BOOLEAN, school : SchoolId, creator : UserId,
                            public : BOOLEAN]
    BY <1>1, <2>1 DEF CreateRubric, SchoolId
  <2>2. CASE UpdateRubric(a) \/ DeleteRubric(a)
    BY <2>2 DEF UpdateRubric, DeleteRubric
  <2> QED
    BY <2>1, <2>2
<1> QED
  BY <1>2, <1>3 DEF UploadedByRule, HasVideo, CanManageProject, SameSchool

LEMMA TaskStepKeepsInv ==
  ASSUME CatalogInv, NEW a \in Actors, CreateTask(a)
  PROVE  CatalogInv'
<1> USE DEF CatalogInv, CatalogTypeOK
<1>1. a.id \in UserId
  BY DEF UserId
<1>2. /\ UNCHANGED <<project, rubric, videoRow>>
      /\ task' = [here |-> TRUE, creator |-> a.id]
      /\ project.here /\ ~ task.here
  BY DEF CreateTask
<1>3. ~ HasVideo /\ ~ HasVideo'
  BY <1>2 DEF UploadedByRule, HasVideo
<1> QED
  BY <1>1, <1>2, <1>3 DEF UploadedByRule

LEMMA VideoStepKeepsInv ==
  ASSUME CatalogInv, NEW a \in Actors,
         \/ \E student \in UserId, number \in StudentNumber \ {Nobody} :
              CreateUpload(a, student, number)
         \/ ConfirmByManager(a) \/ RemoveVideo(a)
  PROVE  CatalogInv'
<1> USE DEF CatalogInv, CatalogTypeOK, HasVideo
<1>1. a.id \in UserId /\ Nobody \in UserId /\ Nobody \in StudentNumber
  BY DEF UserId, StudentNumber
<1>2. UNCHANGED <<project, rubric, task>>
  BY DEF CreateUpload, ConfirmByManager, RemoveVideo
<1>3. \A b \in Actors : CanManageProject(b)' = CanManageProject(b)
  BY <1>2 DEF CanManageProject, SameSchool
<1>4. ASSUME NEW student \in UserId, NEW number \in StudentNumber,
             CreateUpload(a, student, number)
      PROVE  CatalogInv'
  <2>1. /\ videoRow' = [status |-> "uploading", uploader |-> a.id,
                        student |-> student, number |-> number]
        /\ a.role \in Manager /\ CanManageProject(a) /\ task.here
    BY <1>4 DEF CreateUpload, TaskResolves
  <2> QED
    BY <1>1, <1>2, <1>3, <2>1 DEF UploadedByRule
<1>5. CASE ConfirmByManager(a)
  <2>1. /\ videoRow' \in [status : {"none", "uploading", "ready"}, uploader : UserId,
                          student : UserId, number : StudentNumber]
        /\ videoRow'.uploader = videoRow.uploader
        /\ HasVideo
    BY <1>5 DEF ConfirmByManager
  <2> QED
    BY <1>2, <1>3, <2>1 DEF UploadedByRule
<1>6. CASE RemoveVideo(a)
  BY <1>1, <1>2, <1>6 DEF RemoveVideo, UploadedByRule
<1> QED
  BY <1>4, <1>5, <1>6

LEMMA CatalogInvStep == CatalogInv /\ [CatalogNext]_catalogVars => CatalogInv'
<1> SUFFICES ASSUME CatalogInv, [CatalogNext]_catalogVars PROVE CatalogInv'
  OBVIOUS
<1>1. CASE CatalogNext
  BY <1>1, ProjectStepKeepsInv, RubricStepKeepsInv, TaskStepKeepsInv, VideoStepKeepsInv
  DEF CatalogNext
<1>2. CASE UNCHANGED catalogVars
  BY <1>2 DEF catalogVars, CatalogInv, CatalogTypeOK, UploadedByRule, HasVideo,
              CanManageProject, SameSchool
<1> QED
  BY <1>1, <1>2

\* What the lists show can be opened.
LEMMA ListsMatchRequests ==
  ASSUME NEW a \in Actors, a.school # Nowhere
  PROVE  /\ ListsProject(a) => CanManageProject(a)
         /\ ListsRubric(a) => CanOpenRubric(a)
         /\ ListsVideo(a) => CanAccessVideo(a) \/ LeftOut(a)
         /\ ListsMine(a) => CanOpenMine(a)
<1>1. ListsProject(a) => CanManageProject(a)
  BY DEF ListsProject, CanManageProject, SameSchool
<1>2. ListsRubric(a) => CanOpenRubric(a)
  BY DEF ListsRubric, CanOpenRubric, CanManageRubric, SameSchool
<1>3. ListsVideo(a) => CanAccessVideo(a) \/ LeftOut(a)
  <2> SUFFICES ASSUME ListsVideo(a) PROVE CanAccessVideo(a) \/ LeftOut(a)
    OBVIOUS
  <2>1. VideoSchool = project.school /\ VideoCreator = task.creator /\ task.here
    BY DEF ListsVideo, TaskResolves, VideoSchool, VideoCreator
  <2> QED
    BY <2>1 DEF ListsVideo, CanReadProject, CanManageProject, CanAccessVideo,
                CanManageVideo, LeftOut
<1>4. ListsMine(a) => CanOpenMine(a)
  BY DEF ListsMine, CanOpenMine, SameSchool, VideoSchool
<1> QED
  BY <1>1, <1>2, <1>3, <1>4

\* Whoever passes the route of a list passes that of its items, and managers pass
\* those of uploads.
LEMMA RoutesMatch ==
  ASSUME NEW a \in Actors
  PROVE  /\ Passes(a, "ListProjects") => Passes(a, "GetProject")
         /\ Passes(a, "ListRubrics") => Passes(a, "GetRubric")
         /\ Passes(a, "ListVideos") => Passes(a, "GetVideo")
         /\ a.role \in Manager => Passes(a, "ConfirmUpload") /\ Passes(a, "DeleteVideo")
<1>1. a.role \in Manager =>
        <<"video", "create">> \in Granted[a.role] /\ <<"video", "delete">> \in Granted[a.role]
  BY DEF Manager, Leader, Granted, SchoolPermissions, AllOf
<1> QED
  BY <1>1 DEF Passes, Route

\* The rules fit together for any users, schools and orders of requests.
THEOREM RightsAgree == CatalogSpec => []RightsFitTogether
<1>1. CatalogInv => RightsFitTogether
  <2> SUFFICES ASSUME CatalogInv, NEW a \in Actors,
                      videoRow.status = "uploading", project.here,
                      a.id = videoRow.uploader
               PROVE  \/ /\ Passes(a, "ConfirmUpload") /\ Passes(a, "DeleteVideo")
                         /\ CanManageVideo(a)
                      \/ LeftOut(a)
    BY ListsMatchRequests, RoutesMatch DEF RightsFitTogether
  <2>1. task.here /\ a.role \in Manager /\ CanManageProject(a)
    BY CatalogAssumption DEF CatalogInv, UploadedByRule, HasVideo
  <2>2. VideoSchool = project.school /\ VideoCreator = task.creator
    BY <2>1 DEF VideoSchool, VideoCreator
  <2>3. CanManageVideo(a) \/ LeftOut(a)
    BY <2>1, <2>2 DEF CanManageProject, CanManageVideo, LeftOut
  <2> QED
    BY <2>1, <2>3, RoutesMatch
<1> QED
  BY <1>1, CatalogInvInit, CatalogInvStep, PTL DEF CatalogSpec

(***************************************************************************)
(* Reading a list page by page.                                            *)
(***************************************************************************)

Rank(r) == Cardinality(Ahead(r))

\* What a reading knows of the rows it counts on: those to come are on pages to
\* come, and among the counted ones; those seen are on the pages read.
ReadingInv ==
  /\ \A r \in steady \cup unpushed : Distinct(r)
  /\ reader.pages = 0 => shown = {}
  /\ listing.whole /\ reader.phase # "done" => reader.pages = 0
  /\ ~ listing.whole =>
       /\ \A r \in steady \ shown : reader.pages * reader.size <= Rank(r)
       /\ \A r \in unpushed \cap shown : Rank(r) < reader.pages * reader.size
  /\ Closing => \A r \in steady : Rank(r) < reader.total
  /\ NothingIsMissed /\ NothingIsRepeated

ListingInv == ListingTypeOK /\ ReadingInv

LEMMA ListedIsFinite ==
  ASSUME ListingTypeOK
  PROVE  /\ IsFiniteSet(Listed) /\ Cardinality(Listed) \in Nat
         /\ \A r : IsFiniteSet(Ahead(r)) /\ Rank(r) \in Nat
         /\ \A r \in Listed : Rank(r) < Cardinality(Listed)
<1>1. IsFiniteSet(Listed) /\ Cardinality(Listed) \in Nat
  BY ListingAssumption, FS_Subset, FS_CardinalityType DEF Listed
<1>2. ASSUME NEW r PROVE IsFiniteSet(Ahead(r)) /\ Rank(r) \in Nat
  <2>1. Ahead(r) \in SUBSET Listed
    BY DEF Ahead
  <2> QED
    BY <1>1, <2>1, FS_Subset, FS_CardinalityType DEF Rank
<1>3. ASSUME NEW r \in Listed PROVE Rank(r) < Cardinality(Listed)
  <2>1. Ahead(r) \in SUBSET Listed /\ Ahead(r) # Listed
    <3>1. Ahead(r) \subseteq Listed
      BY DEF Ahead
    <3>2. place[r] \in Nat
      BY ListingAssumption DEF ListingTypeOK, Listed
    <3>3. r \notin Ahead(r)
      BY <3>2 DEF Ahead
    <3> QED
      BY <3>1, <3>3
  <2>2. Cardinality(Ahead(r)) <= Cardinality(Listed) /\ Cardinality(Ahead(r)) # Cardinality(Listed)
    BY <1>1, <2>1, FS_Subset
  <2> QED
    BY <1>1, <1>2, <2>2 DEF Rank
<1> QED
  BY <1>1, <1>2, <1>3

LEMMA FirstNumbers == \A n \in Nat : IsFiniteSet(0 .. (n - 1)) /\ Cardinality(0 .. (n - 1)) = n
<1> TAKE n \in Nat
<1> PICK b \in Int : b = n - 1
  OBVIOUS
<1>1. IsFiniteSet(0 .. b) /\ Cardinality(0 .. b) = IF 0 > b THEN 0 ELSE b - 0 + 1
  BY FS_Interval
<1> QED
  BY <1>1

\* A row with a place of its own is where the rows before it leave it, in whatever
\* order the query returns the others.
LEMMA PositionIsRank ==
  ASSUME ListingTypeOK, NEW pos \in Arrangements, NEW r, Distinct(r)
  PROVE  pos[r] = Rank(r)
<1> PICK n \in Nat : n = Cardinality(Listed)
  BY ListedIsFinite
<1>1. /\ pos \in [Listed -> 0 .. (n - 1)]
      /\ \A q, s \in Listed : q # s => pos[q] # pos[s]
      /\ \A q, s \in Listed : place[q] < place[s] => pos[q] < pos[s]
  BY DEF Arrangements
<1>2. \A t \in 0 .. (n - 1) : \E q \in Listed : pos[q] = t
  <2>1. pos \in Injection(Listed, 0 .. (n - 1))
    BY <1>1 DEF Injection, IsInjective
  <2>2. IsFiniteSet(0 .. (n - 1)) /\ Cardinality(0 .. (n - 1)) = n
    BY FirstNumbers
  <2>3. pos \in Surjection(Listed, 0 .. (n - 1))
    BY <2>1, <2>2, FS_Injection
  <2> QED
    BY <2>3 DEF Surjection
<1>3. r \in Listed /\ \A q \in Listed : q # r => place[q] # place[r]
  BY DEF Distinct
<1>4. \A q \in Listed : place[q] \in Nat
  BY ListingAssumption DEF ListingTypeOK, Listed
<1> PICK p \in Nat : p = pos[r]
  BY <1>1, <1>3
<1> DEFINE g == [q \in Ahead(r) |-> pos[q]]
<1>5. \A q \in Ahead(r) : q \in Listed /\ place[q] < place[r]
  BY DEF Ahead
<1>6. \A q \in Ahead(r) : pos[q] \in 0 .. (p - 1)
  BY <1>1, <1>3, <1>5
<1>7. \A t \in 0 .. (p - 1) : \E q \in Ahead(r) : pos[q] = t
  <2> TAKE t \in 0 .. (p - 1)
  <2>1. PICK q \in Listed : pos[q] = t
    BY <1>1, <1>2, <1>3
  <2>2. q # r /\ ~ (place[r] < place[q])
    BY <1>1, <1>3, <2>1
  <2>3. place[q] < place[r]
    BY <1>3, <1>4, <2>2
  <2> QED
    BY <2>1, <2>3 DEF Ahead
<1>8. g \in Bijection(Ahead(r), 0 .. (p - 1))
  <2>1. g \in [Ahead(r) -> 0 .. (p - 1)]
    BY <1>6
  <2>2. \A q, s \in Ahead(r) : g[q] = g[s] => q = s
    BY <1>1, <1>5
  <2>3. \A t \in 0 .. (p - 1) : \E q \in Ahead(r) : g[q] = t
    BY <1>7
  <2> HIDE DEF g
  <2> QED
    BY <2>1, <2>2, <2>3 DEF Bijection, Injection, IsInjective, Surjection
<1>9. Cardinality(0 .. (p - 1)) = Cardinality(Ahead(r))
  <2>1. IsFiniteSet(Ahead(r)) /\ ExistsBijection(Ahead(r), 0 .. (p - 1))
    BY <1>8, ListedIsFinite DEF ExistsBijection
  <2> QED
    BY <2>1, FS_Bijection
<1>10. Cardinality(0 .. (p - 1)) = p
  BY FirstNumbers
<1> QED
  BY <1>9, <1>10 DEF Rank

\* Whoever has read as many pages as there are has read as many rows as there were.
LEMMA PagesCoverTheCount ==
  ASSUME NEW total \in Nat, NEW size \in Nat \ {0}, NEW n \in Nat, n >= TotalPages(total, size)
  PROVE  total <= n * size
<1> PICK q \in Int : q = (total + size - 1) \div size
  OBVIOUS
<1>1. total + size - 1 < size * q + size
  OBVIOUS
<1>2. q <= n
  BY DEF TotalPages
<1>3. size * q <= size * n
  BY <1>2
<1> QED
  BY <1>1, <1>3

\* One row comes, goes or moves, and the rows it disturbs are no longer counted on.
LEMMA RowChangeKeepsReading ==
  ASSUME ListingTypeOK, ListingTypeOK', ReadingInv, NEW r \in Entries, NEW k \in Places \cup {0},
         place' = [place EXCEPT ![r] = k],
         UNCHANGED <<listing, reader, shown, repeated>>,
         \A q \in steady' : /\ q \in steady /\ q # r
                            /\ place[r] # 0 => place[q] < place[r]
                            /\ k # 0 => place[q] # k /\ (Closing => place[q] < k),
         \A q \in unpushed' : q \in unpushed /\ q # r /\ (k # 0 => place[q] < k)
  PROVE  ReadingInv'
<1>1. /\ place'[r] = k /\ \A s \in Entries : s # r => place'[s] = place[s]
      /\ \A s \in Entries : place[s] \in Nat /\ place'[s] \in Nat
      /\ Closing' = Closing
  <2>1. Places \cup {0} \subseteq Nat
    BY ListingAssumption
  <2>2. place \in [Entries -> Places \cup {0}] /\ place' \in [Entries -> Places \cup {0}]
    BY DEF ListingTypeOK
  <2>3. \A s \in Entries : place[s] \in Nat /\ place'[s] \in Nat
    BY <2>1, <2>2
  <2>4. place'[r] = k /\ \A s \in Entries : s # r => place'[s] = place[s]
    BY <2>2
  <2>5. Closing' = Closing
    BY DEF Closing, LastPage
  <2> QED
    BY <2>3, <2>4, <2>5
<1>2. \A q \in steady \cup unpushed : q \in Listed
  BY DEF ReadingInv, Distinct
<1>3. \A q \in Listed : q # r => q \in Listed'
  BY <1>1 DEF Listed
<1>4. \A q \in Listed' : q \in Entries /\ (q # r => q \in Listed) /\ (q = r => k # 0)
  BY <1>1 DEF Listed
<1>5. ASSUME NEW q \in steady' \cup unpushed' PROVE Distinct(q)'
  <2>1. q \in Listed /\ q # r /\ Distinct(q) /\ q \in Entries
    BY <1>2 DEF ReadingInv, Listed
  <2>2. k # 0 => place[q] # k
    BY <1>1, <2>1
  <2> QED
    BY <1>1, <1>3, <1>4, <2>1, <2>2 DEF Distinct
<1>6. ASSUME NEW q \in steady' PROVE Ahead(q) \subseteq Ahead(q)'
  <2> SUFFICES ASSUME NEW s \in Ahead(q) PROVE s \in Ahead(q)'
    OBVIOUS
  <2>1. q \in Entries /\ place'[q] = place[q] /\ s \in Listed /\ place[s] < place[q]
    BY <1>1, <1>2 DEF Listed, Ahead
  <2>2. s # r
    BY <1>1, <2>1 DEF Listed
  <2> QED
    BY <1>1, <1>3, <2>1, <2>2 DEF Ahead, Listed
<1>7. ASSUME NEW q, \/ q \in steady' /\ Closing
                    \/ q \in unpushed'
      PROVE  Ahead(q)' \subseteq Ahead(q)
  <2> SUFFICES ASSUME NEW s \in Ahead(q)' PROVE s \in Ahead(q)
    OBVIOUS
  <2>1. /\ q \in Entries /\ place'[q] = place[q] /\ (k # 0 => place[q] < k)
        /\ s \in Listed' /\ place'[s] < place'[q]
    BY <1>1, <1>2, <1>7 DEF Listed, Ahead
  <2>2. s # r
    BY <1>1, <1>4, <2>1
  <2> QED
    BY <1>1, <1>4, <2>1, <2>2 DEF Ahead
<1>8. \A q : IsFiniteSet(Ahead(q)) /\ Rank(q) \in Nat /\ IsFiniteSet(Ahead(q)') /\ Rank(q)' \in Nat
  <2>1. \A q : IsFiniteSet(Ahead(q)) /\ Rank(q) \in Nat
    BY ListedIsFinite
  <2>2. \A q : Ahead(q)' \in SUBSET Entries
    BY DEF Ahead, Listed
  <2>3. \A q : IsFiniteSet(Ahead(q)') /\ Rank(q)' \in Nat
    BY <2>2, ListingAssumption, FS_Subset, FS_CardinalityType DEF Rank
  <2> QED
    BY <2>1, <2>3
<1>9. \A q \in steady' : Rank(q) <= Rank(q)'
  BY <1>6, <1>8, FS_Subset DEF Rank
<1>10. \A q : (q \in steady' /\ Closing) \/ q \in unpushed' => Rank(q)' <= Rank(q)
  BY <1>7, <1>8, FS_Subset DEF Rank
<1>11. /\ reader \in [phase : {"idle", "counted", "done"}, size : Nat \ {0},
                      pages : Nat, total : Nat]
       /\ reader.pages * reader.size \in Nat
  BY DEF ListingTypeOK
<1>12. ~ listing.whole =>
         /\ \A q \in steady' \ shown : reader.pages * reader.size <= Rank(q)'
         /\ \A q \in unpushed' \cap shown : Rank(q)' < reader.pages * reader.size
  BY <1>8, <1>9, <1>10, <1>11 DEF ReadingInv
<1>13. Closing => \A q \in steady' : Rank(q)' < reader.total
  BY <1>8, <1>10, <1>11 DEF ReadingInv
<1>14. NothingIsMissed' /\ NothingIsRepeated'
  BY DEF ReadingInv, NothingIsMissed, NothingIsRepeated
<1> QED
  BY <1>1, <1>5, <1>12, <1>13, <1>14 DEF ReadingInv

LEMMA ListingInitInv == ListingInit => ListingInv
<1> SUFFICES ASSUME ListingInit PROVE ListingInv
  OBVIOUS
<1>1. ListingTypeOK
  <2>1. \A asked \in Sizes : PageSize(asked) \in Nat \ {0}
    BY ListingAssumption DEF PageSize
  <2> QED
    BY <2>1 DEF ListingInit, ListingTypeOK
<1>2. ReadingInv
  BY DEF ListingInit, ReadingInv, NothingIsMissed, NothingIsRepeated, Closing
<1> QED
  BY <1>1, <1>2 DEF ListingInv

LEMMA ListingType == ListingInv /\ [ListingNext]_listingVars => ListingTypeOK'
<1> SUFFICES ASSUME ListingInv, [ListingNext]_listingVars PROVE ListingTypeOK'
  OBVIOUS
<1> USE DEF ListingInv, ListingTypeOK
<1>1. \A r \in Entries : place[r] \in Nat
  <2>1. Places \cup {0} \subseteq Nat /\ place \in [Entries -> Places \cup {0}]
    BY ListingAssumption
  <2> QED
    BY <2>1
<1>2. CASE UNCHANGED listingVars
  BY <1>2 DEF listingVars, Listed
<1>3. CASE CountRows
  <2>1. Cardinality(Listed) \in Nat
    BY ListedIsFinite
  <2>2. /\ UNCHANGED <<listing, place, shown, repeated>>
        /\ reader' = [reader EXCEPT !.phase = "counted", !.total = Cardinality(Listed)]
        /\ steady' \subseteq Listed /\ unpushed' \subseteq Listed
    BY <1>3 DEF CountRows
  <2> QED
    BY <2>1, <2>2 DEF Listed
<1>4. ASSUME NEW rows \in SUBSET Listed, Shows(rows) PROVE ListingTypeOK'
  <2>1. UNCHANGED <<listing, place, steady, unpushed>> /\ Listed' = Listed
    BY <1>4 DEF Shows, Listed
  <2>2. rows \subseteq Entries
    BY DEF Listed
  <2>3. shown' \subseteq Entries /\ repeated' \subseteq shown'
    BY <1>4, <2>2 DEF Shows
  <2>4. reader' \in [phase : {"idle", "counted", "done"}, size : Nat \ {0},
                      pages : Nat, total : Nat]
    <3>1. PICK p \in {"idle", "done"} : p = IF LastPage THEN "done" ELSE "idle"
      OBVIOUS
    <3>2. reader' = [reader EXCEPT !.phase = p, !.pages = @ + 1]
      BY <1>4, <3>1 DEF Shows
    <3>3. /\ reader \in [phase : {"idle", "counted", "done"}, size : Nat \ {0},
                         pages : Nat, total : Nat]
          /\ p \in {"idle", "counted", "done"} /\ reader.pages + 1 \in Nat
      OBVIOUS
    <3> QED
      BY <3>2, <3>3
  <2> QED
    BY <2>1, <2>3, <2>4
<1>5. CASE FetchPage \/ FetchAll
  BY <1>4, <1>5 DEF FetchPage, FetchAll
<1>6. CASE RequestBreaksOff
  BY <1>6 DEF RequestBreaksOff, Listed
<1>7. ASSUME NEW r \in Entries, NEW k \in Places, RowComes(r, k) \/ RowMoves(r, k)
      PROVE  ListingTypeOK'
  <2>1. /\ k \in Nat \ {0} /\ place' = [place EXCEPT ![r] = k]
        /\ UNCHANGED <<listing, reader, shown, repeated>>
        /\ steady' \subseteq steady /\ unpushed' \subseteq unpushed
    BY <1>7, ListingAssumption DEF RowComes, RowMoves, ApartFrom, UnpushedBy
  <2> QED
    BY <2>1 DEF Listed
<1>8. ASSUME NEW r \in Entries, RowGoes(r) PROVE ListingTypeOK'
  <2>1. /\ place' = [place EXCEPT ![r] = 0]
        /\ UNCHANGED <<listing, reader, shown, repeated>>
        /\ steady' \subseteq steady \ {r} /\ unpushed' \subseteq unpushed \ {r}
    BY <1>1, <1>8 DEF RowGoes, UnpushedBy
  <2> QED
    BY <2>1 DEF Listed
<1> QED
  BY <1>2, <1>3, <1>5, <1>6, <1>7, <1>8 DEF ListingNext

\* A page is read: it has the rows at the positions it is for, and a row with a place
\* of its own is at the position its rank gives.
LEMMA FetchPageKeepsReading == ListingInv /\ ListingTypeOK' /\ FetchPage => ReadingInv'
<1> SUFFICES ASSUME ListingInv, ListingTypeOK', FetchPage PROVE ReadingInv'
  OBVIOUS
<1> DEFINE from == Offset(reader.pages, reader.size)
<1>1. PICK pos \in Arrangements :
        Shows({r \in Listed : from <= pos[r] /\ pos[r] < from + reader.size})
  BY DEF FetchPage
<1> PICK rows : rows = {r \in Listed : from <= pos[r] /\ pos[r] < from + reader.size}
  OBVIOUS
<1>2. /\ reader.phase = "counted" /\ ~ listing.whole
      /\ shown' = shown \cup rows /\ repeated' = repeated \cup (rows \cap shown)
      /\ UNCHANGED <<listing, place, steady, unpushed>>
      /\ reader' = [reader EXCEPT !.phase = IF LastPage THEN "done" ELSE "idle", !.pages = @ + 1]
  BY <1>1 DEF FetchPage, Shows
<1> PICK n \in Nat, size \in Nat \ {0}, total \in Nat :
      n = reader.pages /\ size = reader.size /\ total = reader.total
  BY DEF ListingInv, ListingTypeOK
<1>3. /\ reader'.pages = n + 1 /\ reader'.size = size
      /\ reader'.phase = IF LastPage THEN "done" ELSE "idle"
  BY <1>2 DEF ListingInv, ListingTypeOK
<1>4. n * size \in Nat /\ (n + 1) * size = n * size + size /\ from = n * size
  BY DEF Offset
<1>5. \A r \in steady \cup unpushed : r \in Listed /\ Distinct(r) /\ Distinct(r)'
  BY <1>2 DEF ListingInv, ReadingInv, Distinct, Listed
<1>6. \A r : Rank(r) \in Nat /\ Rank(r)' = Rank(r)
  BY <1>2, ListedIsFinite DEF ListingInv, Rank, Ahead, Listed
<1>7. \A r \in steady \cup unpushed :
        r \in rows <=> n * size <= Rank(r) /\ Rank(r) < n * size + size
  <2> TAKE r \in steady \cup unpushed
  <2>1. pos[r] = Rank(r)
    BY <1>5, PositionIsRank DEF ListingInv
  <2> QED
    BY <1>4, <1>5, <2>1
<1>8. /\ \A r \in steady \ shown : n * size <= Rank(r)
      /\ \A r \in unpushed \cap shown : Rank(r) < n * size
  BY <1>2 DEF ListingInv, ReadingInv
<1>9. \A r \in steady \ shown' : n * size + size <= Rank(r)
  BY <1>2, <1>4, <1>6, <1>7, <1>8
<1>10. \A r \in unpushed \cap shown' : Rank(r) < n * size + size
  BY <1>2, <1>4, <1>6, <1>7, <1>8
<1>11. repeated' \cap unpushed = {}
  <2>1. \A r \in unpushed \cap shown : r \notin rows
    BY <1>4, <1>6, <1>7, <1>8
  <2> QED
    BY <1>2, <2>1 DEF ListingInv, ReadingInv, NothingIsRepeated
<1>12. LastPage => steady \subseteq shown'
  <2> SUFFICES ASSUME LastPage, NEW r \in steady \ shown' PROVE FALSE
    OBVIOUS
  <2>1. Rank(r) < total
    BY <1>2 DEF ListingInv, ReadingInv, Closing
  <2>2. n + 1 >= TotalPages(total, size)
    BY <1>2 DEF LastPage
  <2>3. total <= (n + 1) * size
    BY <2>2, PagesCoverTheCount
  <2> QED
    BY <1>4, <1>6, <1>9, <2>1, <2>3
<1>13. ~ Closing'
  BY <1>3 DEF Closing
<1>14. NothingIsMissed' /\ NothingIsRepeated'
  BY <1>2, <1>3, <1>11, <1>12 DEF NothingIsMissed, NothingIsRepeated
<1>15. /\ \A r \in (steady \ shown)' : reader'.pages * reader'.size <= Rank(r)'
       /\ \A r \in (unpushed \cap shown)' : Rank(r)' < reader'.pages * reader'.size
  BY <1>2, <1>3, <1>4, <1>6, <1>9, <1>10
<1>16. ~ listing'.whole /\ reader'.pages # 0
  BY <1>2, <1>3
<1> QED
  BY <1>2, <1>5, <1>13, <1>14, <1>15, <1>16 DEF ReadingInv

LEMMA ReadingStep == ListingInv /\ [ListingNext]_listingVars => ReadingInv'
<1> SUFFICES ASSUME ListingInv, [ListingNext]_listingVars, ListingTypeOK' PROVE ReadingInv'
  BY ListingType
<1>1. \A r \in Entries : place[r] \in Nat
  <2>1. Places \cup {0} \subseteq Nat /\ place \in [Entries -> Places \cup {0}]
    BY ListingAssumption DEF ListingInv, ListingTypeOK
  <2> QED
    BY <2>1
<1>2. \A q \in steady \cup unpushed : q \in Entries /\ place[q] \in Nat
  BY <1>1 DEF ListingInv, ReadingInv, Distinct, Listed
<1>3. CASE UNCHANGED listingVars
  BY <1>3 DEF listingVars, ListingInv, ReadingInv, Distinct, Listed, Rank, Ahead, Closing,
     LastPage, NothingIsMissed, NothingIsRepeated
<1>4. CASE CountRows
  <2>1. /\ UNCHANGED <<listing, place, shown, repeated>>
        /\ reader.phase = "idle"
        /\ reader' = [reader EXCEPT !.phase = "counted", !.total = Cardinality(Listed)]
    BY <1>4 DEF CountRows
  <2>2. /\ reader'.phase = "counted" /\ reader'.total = Cardinality(Listed)
        /\ reader'.pages = reader.pages /\ reader'.size = reader.size
        /\ reader.pages \in Nat /\ reader.size \in Nat
    BY <2>1 DEF ListingInv, ListingTypeOK
  <2>3. \A r : Rank(r)' = Rank(r) /\ Distinct(r)' = Distinct(r)
    BY <2>1 DEF Rank, Ahead, Distinct, Listed
  <2>4. \A r : Rank(r) \in Nat /\ (r \in Listed => Rank(r) < Cardinality(Listed))
    BY ListedIsFinite DEF ListingInv
  <2>5. CASE reader.pages = 0
    <3>1. /\ \A r \in steady' \cup unpushed' : r \in Listed /\ Distinct(r)
          /\ shown = {} /\ repeated = {}
      BY <1>4, <2>5 DEF CountRows, ListingInv, ListingTypeOK, ReadingInv
    <3>2. reader.pages * reader.size = 0
      BY <2>2, <2>5
    <3>3. \A r \in steady' : reader'.pages * reader'.size <= Rank(r)' /\ Rank(r)' < reader'.total
      BY <2>2, <2>3, <2>4, <3>1, <3>2
    <3> QED
      BY <2>1, <2>2, <2>3, <2>5, <3>1, <3>3 DEF ReadingInv, NothingIsMissed, NothingIsRepeated
  <2>6. CASE reader.pages # 0
    <3>1. UNCHANGED <<steady, unpushed>>
      BY <1>4, <2>6 DEF CountRows
    <3>2. \A r \in steady' : Rank(r)' < reader'.total
      BY <2>2, <2>3, <2>4, <3>1 DEF ListingInv, ListingTypeOK
    <3> QED
      BY <2>1, <2>2, <2>3, <3>1, <3>2 DEF ListingInv, ReadingInv, NothingIsMissed, NothingIsRepeated
  <2> QED
    BY <2>5, <2>6
<1>5. CASE FetchPage
  BY <1>5, FetchPageKeepsReading
<1>6. CASE FetchAll
  <2>1. /\ listing.whole /\ reader.phase = "counted" /\ Shows(Listed)
        /\ reader.pages = 0 /\ shown = {} /\ repeated = {} /\ LastPage
    BY <1>6 DEF FetchAll, ListingInv, ListingTypeOK, ReadingInv, LastPage
  <2>2. /\ UNCHANGED <<listing, place, steady, unpushed>>
        /\ shown' = Listed /\ repeated' = {}
    BY <2>1 DEF Shows
  <2>3. reader'.phase = "done" /\ reader'.pages = reader.pages + 1
    BY <2>1 DEF Shows, ListingInv, ListingTypeOK
  <2>4. \A r \in steady \cup unpushed : r \in Listed /\ Distinct(r) /\ Distinct(r)'
    BY <2>2 DEF ListingInv, ReadingInv, Distinct, Listed
  <2>5. ~ Closing' /\ NothingIsMissed' /\ NothingIsRepeated'
    BY <2>2, <2>3, <2>4 DEF Closing, NothingIsMissed, NothingIsRepeated
  <2>6. listing'.whole /\ reader'.pages # 0
    BY <2>1, <2>2, <2>3
  <2> QED
    BY <2>2, <2>3, <2>4, <2>5, <2>6 DEF ReadingInv
<1>7. CASE RequestBreaksOff
  <2>1. /\ UNCHANGED <<listing, place, shown, repeated, steady, unpushed>>
        /\ reader.phase = "counted" /\ reader' = [reader EXCEPT !.phase = "idle"]
    BY <1>7 DEF RequestBreaksOff
  <2>2. /\ reader'.phase = "idle" /\ reader'.pages = reader.pages /\ reader'.size = reader.size
    BY <2>1 DEF ListingInv, ListingTypeOK
  <2>3. \A r : Rank(r)' = Rank(r) /\ Distinct(r)' = Distinct(r)
    BY <2>1 DEF Rank, Ahead, Distinct, Listed
  <2> QED
    BY <2>1, <2>2, <2>3 DEF ListingInv, ReadingInv, Closing, NothingIsMissed, NothingIsRepeated
<1>8. ASSUME NEW r \in Entries, RowGoes(r) PROVE ReadingInv'
  <2>1. /\ place' = [place EXCEPT ![r] = 0] /\ place[r] # 0
        /\ UNCHANGED <<listing, reader, shown, repeated>>
        /\ steady' = {q \in steady : place[q] < place[r]} /\ unpushed' = unpushed \ {r}
    BY <1>8 DEF RowGoes, UnpushedBy
  <2>2. \A q \in steady' : q \in steady /\ q # r /\ place[q] < place[r]
    BY <1>1, <2>1
  <2>3. ListingTypeOK /\ ReadingInv /\ 0 \in Places \cup {0}
    BY DEF ListingInv
  <2>4. \A q \in unpushed' : q \in unpushed /\ q # r
    BY <2>1
  <2> QED
    BY <2>1, <2>2, <2>3, <2>4, RowChangeKeepsReading
<1>9. ASSUME NEW r \in Entries, NEW k \in Places, RowComes(r, k) PROVE ReadingInv'
  <2>1. /\ place' = [place EXCEPT ![r] = k] /\ place[r] = 0
        /\ UNCHANGED <<listing, reader, shown, repeated>>
        /\ steady' = ApartFrom(steady, k) /\ unpushed' = {q \in unpushed : place[q] < k}
    BY <1>9 DEF RowComes, UnpushedBy
  <2>2. k \in Nat /\ \A q \in steady \cup unpushed : q # r
    BY <2>1, ListingAssumption DEF ListingInv, ReadingInv, Distinct, Listed
  <2>3. \A q \in steady' : /\ q \in steady /\ q # r
                           /\ place[q] # k /\ (Closing => place[q] < k)
    BY <1>2, <2>1, <2>2 DEF ApartFrom, UnpushedBy
  <2>4. \A q \in unpushed' : q \in unpushed /\ q # r /\ place[q] < k
    BY <2>1, <2>2
  <2>5. ListingTypeOK /\ ReadingInv /\ k \in Places \cup {0}
    BY DEF ListingInv
  <2> QED
    BY <2>1, <2>3, <2>4, <2>5, RowChangeKeepsReading
<1>10. ASSUME NEW r \in Entries, NEW k \in Places, RowMoves(r, k) PROVE ReadingInv'
  <2>1. /\ place' = [place EXCEPT ![r] = k] /\ place[r] # 0
        /\ UNCHANGED <<listing, reader, shown, repeated>>
        /\ steady' = ApartFrom({q \in steady : place[q] < place[r]}, k)
        /\ unpushed' = {q \in unpushed \ {r} : place[q] < k}
    BY <1>10 DEF RowMoves, UnpushedBy
  <2>2. k \in Nat
    BY ListingAssumption
  <2>3. \A q \in steady' : /\ q \in steady /\ place[q] < place[r]
                           /\ place[q] # k /\ (Closing => place[q] < k)
    BY <1>2, <2>1, <2>2 DEF ApartFrom, UnpushedBy
  <2>4. \A q \in steady' : q # r
    BY <1>1, <2>3
  <2>5. \A q \in unpushed' : q \in unpushed /\ q # r /\ place[q] < k
    BY <2>1
  <2>6. ListingTypeOK /\ ReadingInv /\ k \in Places \cup {0}
    BY DEF ListingInv
  <2> QED
    BY <2>1, <2>3, <2>4, <2>5, <2>6, RowChangeKeepsReading
<1> QED
  BY <1>3, <1>4, <1>5, <1>6, <1>7, <1>8, <1>9, <1>10 DEF ListingNext

\* The types of a reading and of what is counted on: rows of the list, always.
THEOREM ListingTypeCorrectness == ListingSpec => []ListingTypeOK
<1>1. ListingInv /\ [ListingNext]_listingVars => ListingInv'
  BY ListingType, ReadingStep DEF ListingInv
<1> QED
  BY <1>1, ListingInitInv, PTL DEF ListingSpec, ListingInv

\* Whoever reads a list to its end, in pages of whatever size, has seen every row that
\* stayed at a place of its own while no row before it left, however many came: the
\* number of pages is rounded up from the count, and a page is where its number says.
\* And they have seen no row twice but those before which a row came.
THEOREM ReadingsShowRowsOnce == ListingSpec => []ListsAreReadOnce
<1>1. ListingInv /\ [ListingNext]_listingVars => ListingInv'
  BY ListingType, ReadingStep DEF ListingInv
<1>2. ListingInv => ListsAreReadOnce
  BY DEF ListingInv, ReadingInv, ListsAreReadOnce
<1> QED
  BY <1>1, <1>2, ListingInitInv, PTL DEF ListingSpec
-----------------------------------------------------------------------------
(***************************************************************************)
(* The objects of a video.                                                 *)
(***************************************************************************)

ClipRow == [status : {"none", "uploading", "ready", "deleted"}, report : StoredReport]

Bucket == [multipart : {"none", "open", "completed"}, video : BOOLEAN,
           html : Evaluation, pdf : Evaluation]

Verdict == [eval : Evaluation, status : {"none", "processing", "completed", "failed"}]

\* The steps of a handler, by what they write.
UploadStep(h) ==
  \/ OpenMultipart(h) \/ CreateVideo(h)
  \/ LoadForConfirm(h) \/ CompleteUpload(h) \/ MarkReady(h) \/ AnswerConfirm(h)

DeleteStep(h) == LoadForDelete(h) \/ DeleteObject(h) \/ DeleteVideoRow(h)

ReportStep(h) ==
  \/ LoadForReport(h) \/ BuildReportContext(h) \/ FailReport(h)
  \/ PutHTML(h) \/ PutPDF(h) \/ StoreReport(h)

LEMMA ReportTypes ==
  /\ NoReport \in StoredReport
  /\ FailedReport \in StoredReport
  /\ \A e \in Evaluation : ReadyReport(e) \in StoredReport
  /\ IdleHandler \in Handler
BY VideoAssetsAssumption
DEF NoReport, FailedReport, ReadyReport, StoredReport, Evaluation, IdleHandler, Handler,
    HandlerStep

LEMMA AssetsInitType == VideoAssetsInit => VideoAssetsTypeOK
BY ReportTypes, VideoAssetsAssumption
DEF VideoAssetsInit, AssetsRest, VideoAssetsTypeOK, Evaluation

\* The handlers stay well-typed when one of them goes on or ends.
LEMMA HandlerType ==
  ASSUME upload \in [Uploads -> Handler], NEW h \in Uploads,
         \/ \E step \in HandlerStep : GoesTo(h, step)
         \/ EndsRequest(h)
         \/ \E new \in Handler : upload' = [upload EXCEPT ![h] = new]
  PROVE  upload' \in [Uploads -> Handler]
<1>1. CASE \E step \in HandlerStep : GoesTo(h, step)
  BY <1>1 DEF GoesTo, Handler
<1>2. CASE EndsRequest(h)
  BY <1>2, ReportTypes DEF EndsRequest
<1>3. CASE \E new \in Handler : upload' = [upload EXCEPT ![h] = new]
  BY <1>3
<1> QED
  BY <1>1, <1>2, <1>3

LEMMA UploadStepType ==
  ASSUME VideoAssetsTypeOK, NEW h \in Uploads, UploadStep(h) \/ RequestFails(h)
  PROVE  VideoAssetsTypeOK'
<1>1. upload' \in [Uploads -> Handler]
  BY HandlerType
  DEF VideoAssetsTypeOK, UploadStep, OpenMultipart, CreateVideo, LoadForConfirm,
      CompleteUpload, MarkReady, AnswerConfirm, RequestFails, HandlerStep
<1>2. clipRow' \in ClipRow /\ bucket' \in Bucket
  BY DEF VideoAssetsTypeOK, UploadStep, OpenMultipart, CreateVideo, LoadForConfirm,
         CompleteUpload, MarkReady, AnswerConfirm, RequestFails, ClipRow, Bucket
<1>3. verdict' \in Verdict
  BY VideoAssetsAssumption
  DEF VideoAssetsTypeOK, UploadStep, OpenMultipart, CreateVideo, LoadForConfirm,
      CompleteUpload, MarkReady, AnswerConfirm, RequestFails, Verdict, Evaluation
<1>4. solo' \in BOOLEAN
  BY DEF VideoAssetsTypeOK, UploadStep, OpenMultipart, CreateVideo, LoadForConfirm,
         CompleteUpload, MarkReady, AnswerConfirm, RequestFails
<1> QED
  BY <1>1, <1>2, <1>3, <1>4 DEF VideoAssetsTypeOK, ClipRow, Bucket, Verdict

LEMMA DeleteStepType ==
  ASSUME VideoAssetsTypeOK, NEW h \in Uploads, DeleteStep(h)
  PROVE  VideoAssetsTypeOK'
<1>1. upload' \in [Uploads -> Handler]
  BY HandlerType
  DEF VideoAssetsTypeOK, DeleteStep, LoadForDelete, DeleteObject, DeleteVideoRow,
      HandlerStep
<1>2. clipRow' \in ClipRow /\ bucket' \in Bucket
  BY ReportTypes
  DEF VideoAssetsTypeOK, DeleteStep, LoadForDelete, DeleteObject, DeleteVideoRow,
      ClipRow, Bucket
<1> QED
  BY <1>1, <1>2
  DEF VideoAssetsTypeOK, DeleteStep, LoadForDelete, DeleteObject, DeleteVideoRow,
      ClipRow, Bucket

LEMMA ReportStepType ==
  ASSUME VideoAssetsTypeOK, NEW h \in Uploads, ReportStep(h)
  PROVE  VideoAssetsTypeOK'
<1>1. /\ upload \in [Uploads -> Handler] /\ upload[h] \in Handler
      /\ upload[h].eval \in Evaluation
      /\ verdict.eval \in Evaluation
      /\ clipRow.report \in StoredReport
  BY DEF VideoAssetsTypeOK, Handler
<1>2. upload' \in [Uploads -> Handler]
  <2>1. CASE LoadForReport(h)
    BY <1>1, <2>1 DEF LoadForReport, Handler, HandlerStep
  <2>2. CASE BuildReportContext(h)
    <3>1. /\ [upload[h] EXCEPT !.step = "notReady"] \in Handler
          /\ [upload[h] EXCEPT !.step = "rendering", !.eval = verdict.eval] \in Handler
      BY <1>1 DEF Handler, HandlerStep
    <3> QED
      BY <1>1, <2>2, <3>1, ReportTypes DEF BuildReportContext, GoesTo, EndsRequest
  <2> QED
    BY <1>1, <2>1, <2>2, HandlerType
    DEF ReportStep, FailReport, PutHTML, PutPDF, StoreReport, HandlerStep
<1>3. clipRow' \in ClipRow
  BY <1>1, ReportTypes
  DEF VideoAssetsTypeOK, ReportStep, LoadForReport, BuildReportContext, FailReport,
      PutHTML, PutPDF, StoreReport, WriteReport, ClipRow
<1>4. bucket' \in Bucket
  BY <1>1
  DEF VideoAssetsTypeOK, ReportStep, LoadForReport, BuildReportContext, FailReport,
      PutHTML, PutPDF, StoreReport, Bucket
<1> QED
  BY <1>2, <1>3, <1>4
  DEF VideoAssetsTypeOK, ReportStep, LoadForReport, BuildReportContext, FailReport,
      PutHTML, PutPDF, StoreReport, ClipRow, Bucket

LEMMA AssetsStepType == VideoAssetsTypeOK /\ [VideoAssetsNext]_assetsVars => VideoAssetsTypeOK'
<1> SUFFICES ASSUME VideoAssetsTypeOK, [VideoAssetsNext]_assetsVars
             PROVE  VideoAssetsTypeOK'
  OBVIOUS
<1>1. CASE RunAgain
  <2>1. verdict' \in Verdict
    BY <1>1, VideoAssetsAssumption DEF RunAgain, VideoAssetsTypeOK, Verdict, Evaluation
  <2> QED
    BY <1>1, <2>1 DEF RunAgain, VideoAssetsTypeOK, Verdict
<1>2. CASE VerdictArrives
  BY <1>2 DEF VerdictArrives, VideoAssetsTypeOK
<1>3. CASE UNCHANGED assetsVars
  BY <1>3 DEF assetsVars, VideoAssetsTypeOK
<1> QED
  BY <1>1, <1>2, <1>3, UploadStepType, DeleteStepType, ReportStepType
  DEF VideoAssetsNext, UploadStep, DeleteStep, ReportStep

\* The row, the objects and the handlers keep their types, whatever fails.
THEOREM AssetsTypeCorrectness == VideoAssetsSpec => []VideoAssetsTypeOK
<1>1. VideoAssetsInit => VideoAssetsTypeOK
  BY AssetsInitType
<1>2. VideoAssetsTypeOK /\ [VideoAssetsNext]_assetsVars => VideoAssetsTypeOK'
  BY AssetsStepType
<1> QED
  BY <1>1, <1>2, PTL DEF VideoAssetsSpec
-----------------------------------------------------------------------------
(***************************************************************************)
(* What the handlers know, in every interleaving.                          *)
(***************************************************************************)

Rendering == {"rendering", "htmlPut", "pdfPut"}

\* A handler past the completion has completed the upload; one that renders does so
\* for an evaluation there is, and what it has put stays.
Handled ==
  /\ clipRow.status = "ready" => bucket.multipart = "completed"
  /\ clipRow.report.status = "ready" =>
       /\ bucket.html # 0 /\ bucket.pdf # 0
       /\ clipRow.report.eval <= verdict.eval
  /\ verdict.status = "completed" => verdict.eval # 0
  /\ verdict.status = "processing" => verdict.eval # 0
  /\ \A h \in Uploads :
       /\ upload[h].step = "completed" => bucket.multipart = "completed"
       /\ upload[h].step \in Rendering =>
            upload[h].eval # 0 /\ upload[h].eval <= verdict.eval
       /\ upload[h].step \in {"htmlPut", "pdfPut"} => bucket.html # 0
       /\ upload[h].step = "pdfPut" => bucket.pdf # 0

\* One by one, a handler knows more: the row it has read is still there, the object it
\* has deleted is gone, and what it renders is newer than the report there is.
Alone ==
  solo =>
    /\ \A g, h \in Uploads :
         upload[g].step # "idle" /\ upload[h].step # "idle" => g = h
    /\ clipRow.status = "deleted" => ~ bucket.video
    /\ clipRow.report = ReadyReport(verdict.eval) =>
         bucket.html = verdict.eval /\ bucket.pdf = verdict.eval
    /\ \A h \in Uploads :
         /\ upload[h].step \in {"loaded", "completed"} => clipRow.status # "deleted"
         /\ upload[h].step = "objectGone" => ~ bucket.video
         /\ upload[h].step = "reporting" => upload[h].report = clipRow.report
         /\ upload[h].step \in Rendering /\ clipRow.report.status = "ready" =>
              clipRow.report.eval < upload[h].eval
         /\ upload[h].step \in {"htmlPut", "pdfPut"} => bucket.html = upload[h].eval
         /\ upload[h].step = "pdfPut" => bucket.pdf = upload[h].eval

AssetsInv == VideoAssetsTypeOK /\ Handled /\ Alone

LEMMA AssetsInvInit == VideoAssetsInit => AssetsInv
BY AssetsInitType
DEF VideoAssetsInit, AssetsRest, AssetsInv, Handled, Alone, IdleHandler, Rendering,
    NoReport, ReadyReport

\* The counts of evaluations are numbers.
LEMMA EvaluationsAreNumbers ==
  ASSUME VideoAssetsTypeOK, NEW h \in Uploads
  PROVE  /\ verdict.eval \in Nat /\ upload[h].eval \in Nat
         /\ clipRow.report.eval \in Nat
         /\ bucket.html \in Nat /\ bucket.pdf \in Nat
BY VideoAssetsAssumption DEF VideoAssetsTypeOK, Evaluation, Handler, StoredReport

LEMMA UploadStepHandled ==
  ASSUME AssetsInv, NEW h \in Uploads, UploadStep(h) \/ DeleteStep(h) \/ RequestFails(h)
  PROVE  Handled'
<1> USE DEF AssetsInv, Handled, VideoAssetsTypeOK, GoesTo, EndsRequest, IdleHandler,
            Rendering, Present
<1>1. CASE OpenMultipart(h)
  BY <1>1 DEF OpenMultipart
<1>2. CASE CreateVideo(h)
  BY <1>2 DEF CreateVideo
<1>3. CASE LoadForConfirm(h) \/ LoadForDelete(h)
  <2>1. /\ UNCHANGED <<clipRow, bucket, verdict>>
        /\ \E step \in {"loaded", "found"} : GoesTo(h, step)
    BY <1>3 DEF LoadForConfirm, LoadForDelete
  <2> QED
    BY <2>1
<1>4. CASE CompleteUpload(h)
  BY <1>4 DEF CompleteUpload
<1>5. CASE MarkReady(h)
  BY <1>5 DEF MarkReady
<1>6. CASE AnswerConfirm(h)
  <2>1. verdict'.eval # 0 \/ verdict' = verdict
    BY <1>6 DEF AnswerConfirm
  <2>2. \A n \in Nat : n <= verdict.eval => n <= verdict'.eval
    BY <1>6, EvaluationsAreNumbers DEF AnswerConfirm
  <2>3. \A g \in Uploads : upload[g].eval \in Nat
    BY EvaluationsAreNumbers
  <2> QED
    BY <1>6, <2>1, <2>2, <2>3, EvaluationsAreNumbers DEF AnswerConfirm
<1>7. CASE DeleteObject(h)
  BY <1>7 DEF DeleteObject
<1>8. CASE DeleteVideoRow(h)
  BY <1>8 DEF DeleteVideoRow, NoReport
<1>9. CASE RequestFails(h)
  BY <1>9 DEF RequestFails
<1> QED
  BY <1>1, <1>2, <1>3, <1>4, <1>5, <1>6, <1>7, <1>8, <1>9 DEF UploadStep, DeleteStep

\* What becomes of a request that builds the context of its report: it fails, it is
\* answered with the report there is, or it goes on to render a new one.
LEMMA ContextOutcomes ==
  ASSUME VideoAssetsTypeOK, NEW h \in Uploads, BuildReportContext(h)
  PROVE  /\ UNCHANGED <<clipRow, bucket, verdict, solo>>
         /\ upload[h].step = "reporting"
         /\ \A g \in Uploads : g # h => upload'[g] = upload[g]
         /\ \/ upload'[h].step \in {"notReady", "idle"}
            \/ /\ upload'[h].step = "rendering"
               /\ upload'[h].eval = verdict.eval
               /\ verdict.status = "completed"
               /\ ~ CanReuse(upload[h].report, verdict.eval)
<1> USE DEF BuildReportContext, VideoAssetsTypeOK, Handler
<1>1. CASE GoesTo(h, "notReady")
  BY <1>1 DEF GoesTo
<1>2. CASE EndsRequest(h)
  BY <1>2 DEF EndsRequest, IdleHandler
<1>3. CASE ~ (GoesTo(h, "notReady") \/ EndsRequest(h))
  <2>1. /\ verdict.status = "completed"
        /\ ~ CanReuse(upload[h].report, verdict.eval)
        /\ upload' = [upload EXCEPT ![h].step = "rendering", ![h].eval = verdict.eval]
    BY <1>3
  <2> QED
    BY <2>1
<1> QED
  BY <1>1, <1>2, <1>3

LEMMA ReportStepHandled ==
  ASSUME AssetsInv, NEW h \in Uploads, ReportStep(h)
  PROVE  Handled'
<1> USE DEF AssetsInv, Handled, VideoAssetsTypeOK, GoesTo, EndsRequest, IdleHandler,
            Rendering, Present
<1>1. CASE LoadForReport(h)
  BY <1>1 DEF LoadForReport
<1>2. CASE BuildReportContext(h)
  <2>1. verdict.eval <= verdict.eval
    BY EvaluationsAreNumbers
  <2> QED
    BY <1>2, <2>1, ContextOutcomes
<1>3. CASE FailReport(h)
  BY <1>3 DEF FailReport, WriteReport, FailedReport
<1>4. CASE PutHTML(h)
  BY <1>4 DEF PutHTML
<1>5. CASE PutPDF(h)
  BY <1>5 DEF PutPDF
<1>6. CASE StoreReport(h)
  BY <1>6 DEF StoreReport, WriteReport, ReadyReport
<1> QED
  BY <1>1, <1>2, <1>3, <1>4, <1>5, <1>6 DEF ReportStep

LEMMA VerdictHandled ==
  ASSUME AssetsInv, RunAgain \/ VerdictArrives \/ UNCHANGED assetsVars
  PROVE  Handled'
<1> USE DEF AssetsInv, Handled, Rendering
<1>1. CASE RunAgain
  <2>1. verdict.eval \in Nat /\ clipRow.report.eval \in Nat
        /\ \A h \in Uploads : upload[h].eval \in Nat
    BY VideoAssetsAssumption
    DEF VideoAssetsTypeOK, Evaluation, Handler, StoredReport
  <2>2. verdict' = [eval |-> verdict.eval + 1, status |-> "processing"]
        /\ UNCHANGED <<clipRow, bucket, upload>>
    BY <1>1 DEF RunAgain
  <2> QED
    BY <2>1, <2>2
<1>2. CASE VerdictArrives
  BY <1>2 DEF VerdictArrives, VideoAssetsTypeOK
<1>3. CASE UNCHANGED assetsVars
  BY <1>3 DEF assetsVars
<1> QED
  BY <1>1, <1>2, <1>3
-----------------------------------------------------------------------------
(***************************************************************************)
(* What they know one by one.                                              *)
(***************************************************************************)

\* One by one, a handler that goes on is the only one at work.
OthersRest(h) == \A g \in Uploads : g # h => upload[g].step = "idle"

LEMMA OnlyOneIsAtWork ==
  ASSUME AssetsInv, solo, NEW h \in Uploads,
         Arrives(h) \/ upload[h].step # "idle"
  PROVE  OthersRest(h)
BY DEF AssetsInv, Alone, Arrives, OthersRest

LEMMA UploadStepAlone ==
  ASSUME AssetsInv, NEW h \in Uploads, UploadStep(h) \/ DeleteStep(h) \/ RequestFails(h)
  PROVE  Alone'
<1> SUFFICES ASSUME solo'
             PROVE  Alone'
  BY DEF Alone
<1>0. solo /\ OthersRest(h)
  BY OnlyOneIsAtWork
  DEF UploadStep, OpenMultipart, CreateVideo, LoadForConfirm, CompleteUpload, MarkReady,
      AnswerConfirm, DeleteStep, LoadForDelete, DeleteObject, DeleteVideoRow, RequestFails
<1> USE <1>0 DEF AssetsInv, Alone, VideoAssetsTypeOK, GoesTo, EndsRequest, IdleHandler,
            Rendering, Present, OthersRest
<1>1. CASE OpenMultipart(h)
  BY <1>1 DEF OpenMultipart
<1>2. CASE CreateVideo(h)
  BY <1>2 DEF CreateVideo
<1>3. CASE LoadForConfirm(h)
  BY <1>3 DEF LoadForConfirm
<1>4. CASE CompleteUpload(h)
  BY <1>4 DEF CompleteUpload
<1>5. CASE MarkReady(h)
  BY <1>5 DEF MarkReady
<1>6. CASE AnswerConfirm(h)
  <2>1. \/ verdict'.eval = verdict.eval
        \/ verdict.eval = 0 /\ verdict'.eval = 1
    BY <1>6 DEF AnswerConfirm
  <2>2. verdict'.eval # verdict.eval => clipRow.report # ReadyReport(verdict'.eval)
    BY <2>1, EvaluationsAreNumbers DEF Handled, ReadyReport
  <2>3. /\ upload' = [upload EXCEPT ![h] = IdleHandler]
        /\ UNCHANGED <<clipRow, bucket, solo>>
    BY <1>6 DEF AnswerConfirm
  <2> QED
    BY <2>1, <2>2, <2>3
<1>7. CASE LoadForDelete(h)
  BY <1>7 DEF LoadForDelete
<1>8. CASE DeleteObject(h)
  BY <1>8 DEF DeleteObject
<1>9. CASE DeleteVideoRow(h)
  BY <1>9 DEF DeleteVideoRow, NoReport, ReadyReport
<1>10. CASE RequestFails(h)
  BY <1>10 DEF RequestFails
<1> QED
  BY <1>1, <1>2, <1>3, <1>4, <1>5, <1>6, <1>7, <1>8, <1>9, <1>10
  DEF UploadStep, DeleteStep

LEMMA ReportStepAlone ==
  ASSUME AssetsInv, NEW h \in Uploads, ReportStep(h)
  PROVE  Alone'
<1> SUFFICES ASSUME solo'
             PROVE  Alone'
  BY DEF Alone
<1>0. /\ solo /\ OthersRest(h)
      /\ verdict.eval \in Nat /\ upload[h].eval \in Nat /\ clipRow.report.eval \in Nat
  BY OnlyOneIsAtWork, EvaluationsAreNumbers
  DEF AssetsInv, ReportStep, LoadForReport, BuildReportContext, FailReport, PutHTML,
      PutPDF, StoreReport
<1> USE <1>0 DEF AssetsInv, Alone, VideoAssetsTypeOK, GoesTo, EndsRequest, IdleHandler,
            Rendering, Present, OthersRest
<1>1. CASE LoadForReport(h)
  BY <1>1 DEF LoadForReport
<1>2. CASE BuildReportContext(h)
  <2>1. CASE upload'[h].step \in {"notReady", "idle"}
    BY <1>2, <2>1, ContextOutcomes
  <2>2. CASE upload'[h].step \notin {"notReady", "idle"}
    <3>1. clipRow.report # ReadyReport(verdict.eval)
      BY <1>2, <2>2, ContextOutcomes DEF CanReuse
    <3>2. clipRow.report.status = "ready" => clipRow.report.eval # verdict.eval
      BY <3>1 DEF ReadyReport, StoredReport
    <3>3. clipRow.report.status = "ready" => clipRow.report.eval < verdict.eval
      BY <3>2 DEF Handled
    <3> QED
      BY <1>2, <2>2, <3>3, ContextOutcomes
  <2> QED
    BY <2>1, <2>2
<1>3. CASE FailReport(h)
  BY <1>3 DEF FailReport, WriteReport, FailedReport, ReadyReport
<1>4. CASE PutHTML(h) \/ PutPDF(h)
  <2>1. clipRow.report # ReadyReport(verdict.eval)
    BY <1>4 DEF PutHTML, PutPDF, ReadyReport, Handled
  <2>2. CASE PutHTML(h)
    BY <2>1, <2>2 DEF PutHTML
  <2>3. CASE PutPDF(h)
    BY <2>1, <2>3 DEF PutPDF
  <2> QED
    BY <1>4, <2>2, <2>3
<1>5. CASE StoreReport(h)
  BY <1>5 DEF StoreReport, WriteReport, ReadyReport
<1> QED
  BY <1>1, <1>2, <1>3, <1>4, <1>5 DEF ReportStep

LEMMA VerdictAlone ==
  ASSUME AssetsInv, RunAgain \/ VerdictArrives \/ UNCHANGED assetsVars
  PROVE  Alone'
<1> USE DEF AssetsInv, Alone, Rendering
<1>1. CASE RunAgain
  <2>1. verdict'.eval = verdict.eval + 1 /\ UNCHANGED <<clipRow, bucket, upload, solo>>
    BY <1>1 DEF RunAgain
  <2>2. clipRow.report # ReadyReport(verdict'.eval)
    BY <2>1, VideoAssetsAssumption
    DEF Handled, ReadyReport, VideoAssetsTypeOK, Evaluation, StoredReport
  <2> QED
    BY <2>1, <2>2
<1>2. CASE VerdictArrives
  BY <1>2 DEF VerdictArrives, VideoAssetsTypeOK
<1>3. CASE UNCHANGED assetsVars
  BY <1>3 DEF assetsVars
<1> QED
  BY <1>1, <1>2, <1>3

LEMMA AssetsInvStep == AssetsInv /\ [VideoAssetsNext]_assetsVars => AssetsInv'
<1> SUFFICES ASSUME AssetsInv, [VideoAssetsNext]_assetsVars
             PROVE  AssetsInv'
  OBVIOUS
<1>1. VideoAssetsTypeOK'
  BY AssetsStepType DEF AssetsInv
<1>2. CASE \E h \in Uploads : UploadStep(h) \/ DeleteStep(h) \/ RequestFails(h)
  BY <1>1, <1>2, UploadStepHandled, UploadStepAlone DEF AssetsInv
<1>3. CASE \E h \in Uploads : ReportStep(h)
  BY <1>1, <1>3, ReportStepHandled, ReportStepAlone DEF AssetsInv
<1>4. CASE RunAgain \/ VerdictArrives \/ UNCHANGED assetsVars
  BY <1>1, <1>4, VerdictHandled, VerdictAlone DEF AssetsInv
<1> QED
  BY <1>2, <1>3, <1>4 DEF VideoAssetsNext, UploadStep, DeleteStep, ReportStep

LEMMA AssetsInvariance == VideoAssetsSpec => []AssetsInv
<1>1. VideoAssetsInit => AssetsInv
  BY AssetsInvInit
<1>2. AssetsInv /\ [VideoAssetsNext]_assetsVars => AssetsInv'
  BY AssetsInvStep
<1> QED
  BY <1>1, <1>2, PTL DEF VideoAssetsSpec

\* A ready video has been uploaded and a ready report is stored, in every interleaving;
\* one by one, the report of the latest evaluation has the documents of it.
THEOREM ReadyIsInTheBucket == VideoAssetsSpec => []ReadyMeansStored
<1>1. AssetsInv => ReadyMeansStored
  BY DEF AssetsInv, Handled, Alone, ReadyMeansStored
<1> QED
  BY <1>1, AssetsInvariance, PTL

\* One by one, a deletion leaves no file behind, whatever failed before it.
THEOREM DeletionsLeaveNothing == VideoAssetsSpec => []DeletedVideosLeaveNoFile
<1>1. AssetsInv => DeletedVideosLeaveNoFile
  BY DEF AssetsInv, Alone, DeletedVideosLeaveNoFile
<1> QED
  BY <1>1, AssetsInvariance, PTL
=============================================================================
