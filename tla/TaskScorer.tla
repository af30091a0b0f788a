----------------------------- MODULE TaskScorer -----------------------------
(***************************************************************************)
(* The scorers of one task (internal/modules/taskscorer): their accounts   *)
(* as far as invitations open them, their relations with the task, the     *)
(* invitations sent to them, and the end of a reassignment of videos,      *)
(* which invites the new scorers and lets go of the old ones.              *)
(*                                                                         *)
(* Inviting and provisioning run in a transaction; all other handlers      *)
(* commit every statement by itself.  Updates name the row by its id and   *)
(* nothing else: what a handler read before is never compared.             *)
(***************************************************************************)
EXTENDS Naturals, FiniteSets

CONSTANTS
  Scorers,          \* persons, each with one email address
  NoScorer,
  Videos,           \* videos of the task nobody has started to review
  Calls,            \* handlers at work at the same time
  MaxInvitations,   \* bound: invitations ever created
  MaxPasswords      \* bound: temporary passwords ever made for a scorer

ASSUME TaskScorerAssumption ==
  /\ NoScorer \notin Scorers
  /\ MaxInvitations \in Nat /\ MaxPasswords \in Nat

VARIABLES
  relation,     \* status of the row of task_scorers of a scorer
  invitation,   \* the rows of task_scorer_invitations
  account,      \* the user of a scorer: metadata.credentialReady, password
  known,        \* the passwords a scorer has been told
  holder,       \* videos.scorer_id
  call,         \* what a handler has read and has still to do
  overlap       \* whether handlers overlap in this behaviour

scorerVars == <<relation, invitation, account, known, holder, call, overlap>>

RelationStatus == {"none", "pending", "accepted", "inactive"}

InvitationId == 1..MaxInvitations

InvitationStatus == {"none", "sent", "accepted", "cancelled", "expired"}

\* "responded": responded_at is set.
Invitation ==
  [scorer : Scorers \cup {NoScorer}, status : InvitationStatus,
   responded : BOOLEAN, read : BOOLEAN]

Password == 0..MaxPasswords

\* "undelivered": the user is there, and credentialReady is false.
AccountState == {"none", "undelivered", "ready"}

Account == [state : AccountState, password : Password]

Call ==
  [op : {"none", "provision", "invite", "notify", "resend", "accept", "reassign"},
   phase : {"idle", "account", "found", "joined", "rotated", "created",
            "mailing", "mailed", "marking", "loaded", "answering", "answered",
            "settling", "counted", "withdrawing", "withdrawn"},
   scorer      : Scorers \cup {NoScorer},
   credential  : AccountState,                       \* account read
   seen        : RelationStatus,                     \* relation read
   letter      : 0..MaxInvitations,                  \* invitation at hand
   seenLetter  : InvitationStatus,                   \* its status as read
   password    : Password,                           \* to be mailed; 0: none
   targets     : SUBSET Scorers,                     \* of a reassignment
   toNotify    : SUBSET Scorers,
   sources     : SUBSET Scorers]

Idle ==
  [op |-> "none", phase |-> "idle", scorer |-> NoScorer, credential |-> "none",
   seen |-> "none", letter |-> 0, seenLetter |-> "none", password |-> 0,
   targets |-> {}, toNotify |-> {}, sources |-> {}]

TaskScorerTypeOK ==
  /\ relation \in [Scorers -> RelationStatus]
  /\ invitation \in [InvitationId -> Invitation]
  /\ account \in [Scorers -> Account]
  /\ known \in [Scorers -> SUBSET Password]
  /\ holder \in [Videos -> Scorers \cup {NoScorer}]
  /\ call \in [Calls -> Call]
  /\ overlap \in BOOLEAN

NoInvitation ==
  [scorer |-> NoScorer, status |-> "none", responded |-> FALSE, read |-> FALSE]

\* Scorers in use know their password; an account may be there from an earlier
\* invitation whose mail failed.
TaskScorerInit ==
  /\ relation = [s \in Scorers |-> "none"]
  /\ invitation = [i \in InvitationId |-> NoInvitation]
  /\ account \in [Scorers -> [state : AccountState, password : {0}]]
  /\ known = [s \in Scorers |-> IF account[s].state = "ready" THEN {0} ELSE {}]
  /\ holder \in [Videos -> {s \in Scorers : account[s].state = "ready"}
                             \cup {NoScorer}]
  /\ call = [h \in Calls |-> Idle]
  /\ overlap \in BOOLEAN
-----------------------------------------------------------------------------
(***************************************************************************)
(* Rows and steps of handlers.                                             *)
(***************************************************************************)

MayStart(h) ==
  /\ call[h].phase = "idle"
  /\ overlap \/ \A g \in Calls : call[g].phase = "idle"

\* What a handler has read is not what is there any more.
Stale(h) ==
  /\ call[h].scorer # NoScorer
  /\ \/ call[h].seen # relation[call[h].scorer]
     \/ /\ call[h].letter # 0
        /\ call[h].seenLetter # invitation[call[h].letter].status

Reads(h, phase, updated) == call' = [call EXCEPT ![h] = [updated EXCEPT !.phase = phase]]

\* A handler ends; a reassignment goes on with the next scorer.
Finishes(h) ==
  call' = [call EXCEPT ![h] =
    IF @.op = "reassign"
    THEN [Idle EXCEPT !.op = "reassign", !.phase = "settling",
                      !.targets = call[h].targets,
                      !.toNotify = call[h].toNotify \ {call[h].scorer},
                      !.sources = IF call[h].toNotify = {}
                                  THEN call[h].sources \ {call[h].scorer}
                                  ELSE call[h].sources]
    ELSE Idle]

SetStatus(s, status) == relation' = [relation EXCEPT ![s] = status]

IsFree(i) == invitation[i].status = "none" /\ \A j \in 1..(i - 1) :
               invitation[j].status # "none"

\* CreateInvitation.
Sent(i, s) ==
  invitation' = [invitation EXCEPT ![i] =
                   [NoInvitation EXCEPT !.scorer = s, !.status = "sent"]]

\* findOrCreateTaskScorer: what it leaves of the relations, given the status
\* it has read.
Asked(s, seen) ==
  IF seen = "accepted" THEN relation ELSE [relation EXCEPT ![s] = "pending"]

\* The status a handler goes on with after it has asked.
Believed(seen) == IF seen = "accepted" THEN "accepted" ELSE "pending"

\* The unique index on task and scorer refuses a second row.
MayJoin(s, seen) == seen = "none" => relation[s] = "none"
-----------------------------------------------------------------------------
(***************************************************************************)
(* Provision and Invite: one transaction.                                  *)
(***************************************************************************)

\* FindByEmail, in the transaction.
FindOrCreateScorer(h, s) ==
  /\ MayStart(h)
  /\ \E op \in {"provision", "invite"} :
       Reads(h, "account", [Idle EXCEPT !.op = op, !.scorer = s,
                                        !.credential = account[s].state])
  /\ UNCHANGED <<relation, invitation, account, known, holder, overlap>>

\* FindTaskScorer, of Invite and of Notify.
FindTaskScorer(h) ==
  /\ call[h].phase = "account" /\ call[h].op # "provision"
  /\ Reads(h, "found", [call[h] EXCEPT !.seen = relation[call[h].scorer]])
  /\ UNCHANGED <<relation, invitation, account, known, holder, overlap>>

\* A password is made and mailed unless the account is in use already; the
\* second account that two first invitations can create is left out.
CredentialMailed(h) ==
  LET s == call[h].scorer IN
  IF call[h].credential = "ready" THEN UNCHANGED <<account, known>>
  ELSE /\ call[h].credential = "none" => account[s].state = "none"
       /\ account[s].password < MaxPasswords
       /\ account' = [account EXCEPT ![s] = [state |-> "ready",
                                             password |-> @.password + 1]]
       /\ known' = [known EXCEPT ![s] = @ \cup {account[s].password + 1}]

CommitProvision(h) ==
  /\ call[h].phase = "account" /\ call[h].op = "provision"
  /\ CredentialMailed(h)
  /\ Finishes(h)
  /\ UNCHANGED <<relation, invitation, holder, overlap>>

CommitInvite(h) ==
  LET s == call[h].scorer IN
  /\ call[h].phase = "found" /\ call[h].op = "invite"
  /\ MayJoin(s, call[h].seen)
  /\ CredentialMailed(h)
  /\ relation' = Asked(s, call[h].seen)
  /\ \E i \in InvitationId : IsFree(i) /\ Sent(i, s)
  /\ Finishes(h)
  /\ UNCHANGED <<holder, overlap>>
-----------------------------------------------------------------------------
(***************************************************************************)
(* Notify: an account in use, every statement committed by itself.         *)
(***************************************************************************)

FindExistingScorer(h, s) ==
  /\ MayStart(h)
  /\ account[s].state # "none"
  /\ Reads(h, "account", [Idle EXCEPT !.op = "notify", !.scorer = s])
  /\ UNCHANGED <<relation, invitation, account, known, holder, overlap>>

\* The write of findOrCreateTaskScorer.
JoinTask(h) ==
  LET s == call[h].scorer IN
  /\ call[h].phase = "found" /\ call[h].op \in {"notify", "reassign"}
  /\ MayJoin(s, call[h].seen)
  /\ relation' = Asked(s, call[h].seen)
  /\ Reads(h, "joined", [call[h] EXCEPT !.seen = Believed(@)])
  /\ UNCHANGED <<invitation, account, known, holder, overlap>>

CreateInvitation(h) ==
  /\ \/ call[h].phase = "joined"
     \/ call[h].phase = "found" /\ call[h].op = "resend" /\ call[h].credential = "ready"
     \/ call[h].phase = "rotated"
  /\ \E i \in InvitationId :
       /\ IsFree(i)
       /\ Sent(i, call[h].scorer)
       /\ Reads(h, IF call[h].op = "resend" THEN "created" ELSE "mailed",
                [call[h] EXCEPT !.letter = i, !.seenLetter = "sent"])
  /\ UNCHANGED <<relation, account, known, holder, overlap>>

\* updateInvitationInAppMetadata and updateInvitationMailMetadata write the whole
\* metadata from the copy made at the creation: a read mark set since is lost.
UpdateInvitationMetadata(h) ==
  /\ call[h].phase = "mailed"
  /\ invitation' = [invitation EXCEPT ![call[h].letter].read = FALSE]
  /\ IF call[h].password # 0
     THEN Reads(h, "marking", call[h])
     ELSE Finishes(h)
  /\ UNCHANGED <<relation, account, known, holder, overlap>>
-----------------------------------------------------------------------------
(***************************************************************************)
(* Resend: a new invitation to a scorer of the task.                       *)
(***************************************************************************)

LoadResend(h, s) ==
  /\ MayStart(h)
  /\ relation[s] \in {"pending", "accepted"}
  /\ Reads(h, "found", [Idle EXCEPT !.op = "resend", !.scorer = s,
                          !.seen = relation[s],
                          !.credential = account[s].state])
  /\ UNCHANGED <<relation, invitation, account, known, holder, overlap>>

\* rotateCredentialForPendingDelivery.
RotateCredential(h) ==
  LET s == call[h].scorer IN
  /\ call[h].phase = "found" /\ call[h].op = "resend"
  /\ call[h].credential = "undelivered"
  /\ account[s].password < MaxPasswords
  /\ account' = [account EXCEPT ![s] = [state |-> "undelivered",
                                        password |-> @.password + 1]]
  /\ Reads(h, "rotated", [call[h] EXCEPT !.password = account[s].password + 1])
  /\ UNCHANGED <<relation, invitation, known, holder, overlap>>

\* The relation is asked again on the status read at the start.
RefreshRelation(h) ==
  LET s == call[h].scorer IN
  /\ call[h].phase = "created"
  /\ relation' = Asked(s, call[h].seen)
  /\ Reads(h, IF call[h].password = 0 THEN "mailed" ELSE "mailing",
           [call[h] EXCEPT !.seen = Believed(@)])
  /\ UNCHANGED <<invitation, account, known, holder, overlap>>

\* Mutated: the password is marked as delivered although the mail failed.
SendInvitationEmailAnyway(h) ==
  /\ call[h].phase = "mailing"
  /\ \E delivered \in BOOLEAN :
       known' = IF delivered
                THEN [known EXCEPT ![call[h].scorer] = @ \cup {call[h].password}]
                ELSE known
  /\ Reads(h, "mailed", call[h])
  /\ UNCHANGED <<relation, invitation, account, holder, overlap>>

\* The mail arrives, or sending fails: then the credential stays undelivered.
SendInvitationEmail(h) ==
  /\ call[h].phase = "mailing"
  /\ \/ /\ known' = [known EXCEPT ![call[h].scorer] = @ \cup {call[h].password}]
        /\ Reads(h, "mailed", call[h])
     \/ /\ Reads(h, "mailed", [call[h] EXCEPT !.password = 0])
        /\ UNCHANGED known
  /\ UNCHANGED <<relation, invitation, account, holder, overlap>>

MarkCredentialDelivered(h) ==
  /\ call[h].phase = "marking"
  /\ account' = [account EXCEPT ![call[h].scorer].state = "ready"]
  /\ Finishes(h)
  /\ UNCHANGED <<relation, invitation, known, holder, overlap>>
-----------------------------------------------------------------------------
(***************************************************************************)
(* Removal, reading, answering.                                            *)
(***************************************************************************)

MayAct == overlap \/ \A g \in Calls : call[g].phase = "idle"

\* DeactivateTaskScorer, one statement; open invitations stay open.
Remove(s) ==
  /\ MayAct
  /\ relation[s] # "none"
  /\ SetStatus(s, "inactive")
  /\ UNCHANGED <<invitation, account, known, holder, call, overlap>>

MarkMineRead(i) ==
  /\ MayAct
  /\ invitation[i].status # "none"
  /\ invitation' = [invitation EXCEPT ![i].read = TRUE]
  /\ UNCHANGED <<relation, account, known, holder, call, overlap>>

\* Mutated: a cancelled invitation still opens.
LoadAnyInvitation(h, i) ==
  /\ MayStart(h)
  /\ invitation[i].status # "none"
  /\ Reads(h, "loaded", [Idle EXCEPT !.op = "accept", !.letter = i,
                           !.scorer = invitation[i].scorer,
                           !.seenLetter = invitation[i].status,
                           !.seen = relation[invitation[i].scorer]])
  /\ UNCHANGED <<relation, invitation, account, known, holder, overlap>>

\* AcceptMine and Accept find the invitation; a cancelled one is refused.
LoadInvitation(h, i) ==
  /\ invitation[i].status # "cancelled"
  /\ LoadAnyInvitation(h, i)

\* An invitation followed after expires_at is marked so, answered before or not.
RefuseExpired(h) ==
  /\ call[h].phase = "loaded"
  /\ invitation' = [invitation EXCEPT ![call[h].letter].status = "expired"]
  /\ Finishes(h)
  /\ UNCHANGED <<relation, account, known, holder, overlap>>

\* acceptInvitation reads the relation.  Without one, or with an inactive one, the
\* answer is an error; if either row is accepted, it is "accepted" at once.
FindRelation(h) ==
  LET status == relation[call[h].scorer] IN
  /\ call[h].phase = "loaded"
  /\ call[h].seenLetter # "expired"
  /\ IF \/ status \in {"none", "inactive", "accepted"}
        \/ call[h].seenLetter = "accepted"
     THEN Finishes(h)
     ELSE Reads(h, "answering", [call[h] EXCEPT !.seen = status])
  /\ UNCHANGED <<relation, invitation, account, known, holder, overlap>>

AnswerInvitation(h) ==
  /\ call[h].phase = "answering"
  /\ invitation' = [invitation EXCEPT ![call[h].letter].status = "accepted",
                                      ![call[h].letter].responded = TRUE,
                                      ![call[h].letter].read = TRUE]
  /\ Reads(h, "answered", [call[h] EXCEPT !.seenLetter = "accepted"])
  /\ UNCHANGED <<relation, account, known, holder, overlap>>

\* Mutated: the relation is accepted before the invitation is answered.
AcceptRelationFirst(h) ==
  /\ call[h].phase \in {"answering", "answered"}
  /\ SetStatus(call[h].scorer, "accepted")
  /\ Finishes(h)
  /\ UNCHANGED <<invitation, account, known, holder, overlap>>

AcceptRelation(h) ==
  /\ call[h].phase = "answered"
  /\ SetStatus(call[h].scorer, "accepted")
  /\ Finishes(h)
  /\ UNCHANGED <<invitation, account, known, holder, overlap>>
-----------------------------------------------------------------------------
(***************************************************************************)
(* ReassignPendingVideos (internal/modules/scoring): the assignments are   *)
(* stored, then the new scorers are notified, then the old ones let go.    *)
(***************************************************************************)

AssignScorers(h) ==
  /\ MayStart(h)
  /\ \E moved \in (SUBSET Videos) \ {{}},
        targets \in (SUBSET {s \in Scorers : account[s].state = "ready"}) \ {{}} :
       \E plan \in [moved -> targets] :
         /\ holder' = [v \in Videos |-> IF v \in moved THEN plan[v] ELSE holder[v]]
         /\ Reads(h, "settling",
                  [Idle EXCEPT !.op = "reassign", !.targets = targets,
                     !.toNotify = targets,
                     !.sources = {holder[v] : v \in moved}
                                   \ (targets \cup {NoScorer})])
  /\ UNCHANGED <<relation, invitation, account, known, overlap>>

\* Mutated: a scorer with a relation of any kind counts as notified.
EnsureNotificationOfStrangers(h, s) ==
  /\ call[h].phase = "settling" /\ s \in call[h].toNotify
  /\ IF relation[s] # "none"
     THEN call' = [call EXCEPT ![h].toNotify = @ \ {s}]
     ELSE Reads(h, "account", [call[h] EXCEPT !.scorer = s])
  /\ UNCHANGED <<relation, invitation, account, known, holder, overlap>>

\* EnsureNotificationIfNeeded: an accepted scorer is not asked again.
EnsureNotification(h, s) ==
  /\ call[h].phase = "settling" /\ s \in call[h].toNotify
  /\ IF relation[s] = "accepted"
     THEN call' = [call EXCEPT ![h].toNotify = @ \ {s}]
     ELSE Reads(h, "account", [call[h] EXCEPT !.scorer = s])
  /\ UNCHANGED <<relation, invitation, account, known, holder, overlap>>

\* Mutated: every source is let go, with or without videos.
CountRemainingAsNone(h, s) ==
  /\ call[h].phase = "settling" /\ call[h].toNotify = {}
  /\ s \in call[h].sources
  /\ Reads(h, "counted", [call[h] EXCEPT !.scorer = s])
  /\ UNCHANGED <<relation, invitation, account, known, holder, overlap>>

\* CountVideosByTaskAndScorer: who still holds videos stays.
CountRemaining(h, s) ==
  /\ call[h].phase = "settling" /\ call[h].toNotify = {}
  /\ s \in call[h].sources
  /\ IF \E v \in Videos : holder[v] = s
     THEN call' = [call EXCEPT ![h].sources = @ \ {s}]
     ELSE Reads(h, "counted", [call[h] EXCEPT !.scorer = s])
  /\ UNCHANGED <<relation, invitation, account, known, holder, overlap>>

\* ExpirePendingRelation: only a scorer who has not answered is let go.
FindPendingRelation(h) ==
  LET status == relation[call[h].scorer] IN
  /\ call[h].phase = "counted"
  /\ IF status = "pending"
     THEN Reads(h, "withdrawing", [call[h] EXCEPT !.seen = "pending"])
     ELSE Finishes(h)
  /\ UNCHANGED <<relation, invitation, account, known, holder, overlap>>

CancelSentInvitations(h) ==
  /\ call[h].phase = "withdrawing"
  /\ invitation' =
       [i \in InvitationId |->
          IF /\ invitation[i].scorer = call[h].scorer
             /\ invitation[i].status = "sent"
          THEN [invitation[i] EXCEPT !.status = "cancelled"] ELSE invitation[i]]
  /\ Reads(h, "withdrawn", call[h])
  /\ UNCHANGED <<relation, account, known, holder, overlap>>

ExpireRelation(h) ==
  /\ call[h].phase = "withdrawn"
  /\ SetStatus(call[h].scorer, "inactive")
  /\ Finishes(h)
  /\ UNCHANGED <<invitation, account, known, holder, overlap>>

\* The answer of the reassignment.
ReassignmentEnds(h) ==
  /\ call[h].phase = "settling"
  /\ call[h].toNotify = {} /\ call[h].sources = {}
  /\ call' = [call EXCEPT ![h] = Idle]
  /\ UNCHANGED <<relation, invitation, account, known, holder, overlap>>

\* An error, a rollback, a cancelled client or a crash, anywhere.
CallFails(h) ==
  /\ call[h].phase # "idle"
  /\ call' = [call EXCEPT ![h] = Idle]
  /\ UNCHANGED <<relation, invitation, account, known, holder, overlap>>

InvitationStep(h) ==
  \/ FindTaskScorer(h) \/ CommitProvision(h) \/ CommitInvite(h) \/ JoinTask(h)
  \/ CreateInvitation(h) \/ UpdateInvitationMetadata(h) \/ RotateCredential(h)
  \/ RefreshRelation(h) \/ SendInvitationEmail(h) \/ MarkCredentialDelivered(h)
  \/ \E s \in Scorers :
       FindOrCreateScorer(h, s) \/ FindExistingScorer(h, s) \/ LoadResend(h, s)

AnswerStep(h) ==
  \/ \E i \in InvitationId : LoadInvitation(h, i)
  \/ RefuseExpired(h) \/ FindRelation(h) \/ AnswerInvitation(h) \/ AcceptRelation(h)

ReassignStep(h) ==
  \/ AssignScorers(h) \/ FindPendingRelation(h) \/ CancelSentInvitations(h)
  \/ ExpireRelation(h) \/ ReassignmentEnds(h)
  \/ \E s \in Scorers : EnsureNotification(h, s) \/ CountRemaining(h, s)

TaskScorerNext ==
  \/ \E h \in Calls :
       InvitationStep(h) \/ AnswerStep(h) \/ ReassignStep(h) \/ CallFails(h)
  \/ \E s \in Scorers : Remove(s)
  \/ \E i \in InvitationId : MarkMineRead(i)

TaskScorerSpec == TaskScorerInit /\ [][TaskScorerNext]_scorerVars
-----------------------------------------------------------------------------
(***************************************************************************)
(* Properties.                                                             *)
(***************************************************************************)

\* Who takes part has answered an invitation (the design document, section
\* "评分员任务列表约束": nothing is shown before the scorer confirms).
AcceptedMeansAnswered ==
  \A s \in Scorers : relation[s] = "accepted" =>
    \E i \in InvitationId : invitation[i].scorer = s /\ invitation[i].responded

Promise == INSTANCE InvitationLifecycle WITH
  People <- Scorers, Letters <- InvitationId, Nobody <- NoScorer,
  standing <- relation,
  letter <- [i \in InvitationId |->
               [to |-> invitation[i].scorer, status |-> invitation[i].status,
                answered |-> invitation[i].responded]]

StaleStep ==
  overlap /\ \E h \in Calls : Stale(h) /\ call'[h] # call[h]

\* Relations and invitations go the promised way, but for the writes of
\* overlapping handlers that act on what is not so any more: those bring a
\* removed scorer back or undo an answer.
LifecycleUnlessStale ==
  Promise!Init /\ [][Promise!Next \/ StaleStep]_(Promise!lifecycleVars)

\* Without overlapping handlers, an account that counts as delivered is one
\* whose scorer has been told its password.
DeliveredPasswordsWork ==
  ~ overlap => \A s \in Scorers :
    account[s].state = "ready" => account[s].password \in known[s]

\* Without overlap, the scorers a reassignment gives videos to end up asked, by
\* an invitation they can answer, or taking part already.
ReassignmentInvitesItsTargets ==
  [][\A h \in Calls : ~ overlap /\ ReassignmentEnds(h) =>
       \A s \in call[h].targets :
         \/ relation[s] = "accepted"
         \/ /\ relation[s] = "pending"
            /\ \E i \in InvitationId :
                 invitation[i].scorer = s /\ invitation[i].status = "sent"]_scorerVars

\* Without overlap, a scorer is let go by a reassignment only if no video and no
\* open invitation of the task is left with them (the design document, "替换待确认
\* 评分员").
LetGoEmptyHanded ==
  [][\A h \in Calls : ~ overlap /\ ExpireRelation(h) =>
       /\ \A v \in Videos : holder[v] # call[h].scorer
       /\ \A i \in InvitationId : invitation[i].scorer = call[h].scorer =>
                                   invitation[i].status # "sent"]_scorerVars

\* Together: a reassignment leaves the scorers it gave videos to asked, and lets
\* go of nobody who has something left.
ReassignmentSettles == ReassignmentInvitesItsTargets /\ LetGoEmptyHanded
=============================================================================
