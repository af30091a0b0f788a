-------------------------- MODULE TaskScorerProofs --------------------------
(***************************************************************************)
(* Theorems of TaskScorer, for any scorers, videos, handlers and bounds.   *)
(***************************************************************************)
EXTENDS TaskScorer, TLAPS

Phase ==
  {"idle", "account", "found", "joined", "rotated", "created", "mailing", "mailed",
   "marking", "loaded", "answering", "answered", "settling", "counted",
   "withdrawing", "withdrawn"}

\* A handler at work on a scorer names the scorer.
Named(c) == c.phase \notin {"idle", "settling"} => c.scorer \in Scorers

\* What a handler believes of the relation in the steps that write it.
Believing(c) ==
  /\ c.phase \in {"account", "settling"} => c.op # "resend"
  /\ \/ c.phase \in {"joined", "rotated", "created"}
     \/ c.phase = "found" /\ c.op = "resend"
     => c.seen \in {"pending", "accepted"}
  /\ c.phase \in {"answering", "answered", "withdrawing", "withdrawn"} =>
       c.seen = "pending"

\* An invitation that is being answered is one sent to the scorer who answers.
Answering(c, letters) ==
  /\ c.phase \in {"loaded", "answering", "answered"} =>
       /\ c.letter \in InvitationId
       /\ letters[c.letter].status # "none"
       /\ letters[c.letter].scorer = c.scorer
       /\ c.seenLetter \notin {"none", "cancelled"}
  /\ c.phase = "answering" => c.seenLetter = "sent"
  /\ c.phase = "answered" => letters[c.letter].responded

HandlerOK(c, letters) == Named(c) /\ Believing(c) /\ Answering(c, letters)

LettersOK ==
  \A i \in InvitationId :
    /\ invitation[i].status # "none" => invitation[i].scorer \in Scorers
    /\ invitation[i].responded => invitation[i].status # "none"

ScorerInv ==
  /\ TaskScorerTypeOK
  /\ LettersOK
  /\ \A h \in Calls : HandlerOK(call[h], invitation)
  /\ AcceptedMeansAnswered

\* What steps do to invitations: a written one keeps its scorer and its answer.
Grows ==
  /\ invitation' \in [InvitationId -> Invitation]
  /\ \A i \in InvitationId :
       /\ invitation[i].status # "none" =>
            /\ invitation'[i].status # "none"
            /\ invitation'[i].scorer = invitation[i].scorer
       /\ invitation[i].responded => invitation'[i].responded
  /\ LettersOK'

\* What the step of a handler does to the handlers.
Moves(h) ==
  /\ call' \in [Calls -> Call]
  /\ \A g \in Calls : g # h => call'[g] = call[g]
  /\ HandlerOK(call'[h], invitation')

\* Nobody takes part by a step but with an answer.
RelationsOK ==
  /\ relation' \in [Scorers -> RelationStatus]
  /\ \A s \in Scorers : relation'[s] = "accepted" =>
       \/ relation[s] = "accepted"
       \/ \E i \in InvitationId : invitation[i].scorer = s /\ invitation[i].responded

RestOK ==
  /\ account' \in [Scorers -> Account]
  /\ known' \in [Scorers -> SUBSET Password]
  /\ holder' \in [Videos -> Scorers \cup {NoScorer}]
  /\ overlap' = overlap

StepOK(h) == Grows /\ Moves(h) /\ RelationsOK /\ RestOK

LEMMA IdleType == Idle \in Call
BY TaskScorerAssumption DEF Idle, Call, AccountState, RelationStatus,
   InvitationStatus, Password

LEMMA FinishesMoves ==
  ASSUME ScorerInv, NEW h \in Calls, Finishes(h)
  PROVE  Moves(h) /\ call'[h].phase \in {"idle", "settling"}
<1>1. call \in [Calls -> Call] /\ call[h] \in Call
  BY DEF ScorerInv, TaskScorerTypeOK
<1> DEFINE next ==
      [Idle EXCEPT !.op = "reassign", !.phase = "settling",
                   !.targets = call[h].targets,
                   !.toNotify = call[h].toNotify \ {call[h].scorer},
                   !.sources = IF call[h].toNotify = {}
                               THEN call[h].sources \ {call[h].scorer}
                               ELSE call[h].sources]
<1>2. next \in Call /\ next.phase = "settling" /\ next.op = "reassign"
  BY ZenonT(30), <1>1, IdleType DEF Call, Idle
<1>3. Idle.phase = "idle"
  BY DEF Idle
<1>4. call' = [call EXCEPT ![h] = IF call[h].op = "reassign" THEN next ELSE Idle]
  BY DEF Finishes
<1> HIDE DEF next
<1>5. /\ call' \in [Calls -> Call]
      /\ \A g \in Calls : g # h => call'[g] = call[g]
      /\ call'[h].phase \in {"idle", "settling"}
      /\ call'[h].phase = "settling" => call'[h].op = "reassign"
  BY <1>1, <1>2, <1>3, <1>4, IdleType
<1> QED
  BY <1>5 DEF Moves, HandlerOK, Named, Believing, Answering

LEMMA ReadsMoves ==
  ASSUME ScorerInv, NEW h \in Calls, NEW p \in Phase, NEW c \in Call, Reads(h, p, c),
         HandlerOK([c EXCEPT !.phase = p], invitation')
  PROVE  Moves(h) /\ call'[h] = [c EXCEPT !.phase = p]
<1>1. [c EXCEPT !.phase = p] \in Call
  BY DEF Call, Phase
<1>2. call' = [call EXCEPT ![h] = [c EXCEPT !.phase = p]]
  BY DEF Reads
<1> QED
  BY <1>1, <1>2 DEF Moves, ScorerInv, TaskScorerTypeOK

LEMMA SameLetters == ScorerInv /\ invitation' = invitation => Grows
BY DEF ScorerInv, TaskScorerTypeOK, Grows, LettersOK

LEMMA SameRelations == ScorerInv /\ relation' = relation => RelationsOK
BY DEF ScorerInv, TaskScorerTypeOK, RelationsOK

LEMMA AskedRelations ==
  ASSUME ScorerInv, NEW s, NEW seen, relation' = Asked(s, seen)
  PROVE  RelationsOK
BY DEF ScorerInv, TaskScorerTypeOK, RelationsOK, Asked, RelationStatus

LEMMA SentLetters ==
  ASSUME ScorerInv, NEW i \in InvitationId, NEW s \in Scorers, IsFree(i), Sent(i, s)
  PROVE  Grows
<1>1. [NoInvitation EXCEPT !.scorer = s, !.status = "sent"] \in Invitation
  BY DEF NoInvitation, Invitation, InvitationStatus
<1> QED
  BY <1>1
  DEF ScorerInv, TaskScorerTypeOK, LettersOK, Grows, IsFree, Sent, NoInvitation
-----------------------------------------------------------------------------
(***************************************************************************)
(* Every step keeps the invariant.                                         *)
(***************************************************************************)

LEMMA CredentialMailedRest ==
  ASSUME ScorerInv, NEW h \in Calls, CredentialMailed(h)
  PROVE  account' \in [Scorers -> Account] /\ known' \in [Scorers -> SUBSET Password]
<1>1. CASE call[h].credential = "ready"
  BY <1>1 DEF CredentialMailed, ScorerInv, TaskScorerTypeOK
<1>2. CASE call[h].credential # "ready"
  <2> DEFINE s == call[h].scorer
  <2>1. /\ account[s].password < MaxPasswords
        /\ account' = [account EXCEPT ![s] = [state |-> "ready",
                                              password |-> account[s].password + 1]]
        /\ known' = [known EXCEPT ![s] = known[s] \cup {account[s].password + 1}]
    BY <1>2 DEF CredentialMailed
  <2>2. s \in Scorers => account[s].password + 1 \in Password
    BY <2>1, TaskScorerAssumption DEF ScorerInv, TaskScorerTypeOK, Account, Password
  <2> HIDE DEF s
  <2> QED
    BY <2>1, <2>2 DEF ScorerInv, TaskScorerTypeOK, Account, AccountState
<1> QED
  BY <1>1, <1>2

LEMMA AccountStepOK ==
  ASSUME ScorerInv, NEW h \in Calls, NEW s \in Scorers,
         FindOrCreateScorer(h, s) \/ FindExistingScorer(h, s) \/ LoadResend(h, s)
  PROVE  StepOK(h)
<1>0. UNCHANGED <<relation, invitation, account, known, holder, overlap>>
  BY DEF FindOrCreateScorer, FindExistingScorer, LoadResend
<1>1. Grows /\ RelationsOK /\ RestOK
  BY <1>0, SameLetters, SameRelations DEF RestOK, ScorerInv, TaskScorerTypeOK
<1>2. account[s].state \in AccountState /\ relation[s] \in RelationStatus
  BY DEF ScorerInv, TaskScorerTypeOK, Account
<1>3. CASE FindOrCreateScorer(h, s)
  <2>1. PICK op \in {"provision", "invite"} :
          Reads(h, "account", [Idle EXCEPT !.op = op, !.scorer = s,
                                           !.credential = account[s].state])
    BY <1>3 DEF FindOrCreateScorer
  <2> DEFINE c == [Idle EXCEPT !.op = op, !.scorer = s, !.credential = account[s].state]
  <2>2. c \in Call /\ c.scorer = s /\ c.op # "resend"
    BY <1>2, IdleType DEF Call, Idle
  <2>3. HandlerOK([c EXCEPT !.phase = "account"], invitation')
    BY <2>2 DEF HandlerOK, Named, Believing, Answering, Call
  <2>4. Moves(h)
    BY <2>1, <2>2, <2>3, ReadsMoves DEF Phase
  <2> QED
    BY <1>1, <2>4 DEF StepOK
<1>4. CASE FindExistingScorer(h, s)
  <2> DEFINE c == [Idle EXCEPT !.op = "notify", !.scorer = s]
  <2>1. Reads(h, "account", c)
    BY <1>4 DEF FindExistingScorer
  <2>2. c \in Call /\ c.scorer = s /\ c.op # "resend"
    BY <1>2, IdleType DEF Call, Idle
  <2>3. HandlerOK([c EXCEPT !.phase = "account"], invitation')
    BY <2>2 DEF HandlerOK, Named, Believing, Answering, Call
  <2>4. Moves(h)
    BY <2>1, <2>2, <2>3, ReadsMoves DEF Phase
  <2> QED
    BY <1>1, <2>4 DEF StepOK
<1>5. CASE LoadResend(h, s)
  <2> DEFINE c == [Idle EXCEPT !.op = "resend", !.scorer = s, !.seen = relation[s],
                               !.credential = account[s].state]
  <2>1. Reads(h, "found", c) /\ relation[s] \in {"pending", "accepted"}
    BY <1>5 DEF LoadResend
  <2>2. c \in Call /\ c.scorer = s /\ c.seen = relation[s]
    BY <1>2, IdleType DEF Call, Idle
  <2>3. HandlerOK([c EXCEPT !.phase = "found"], invitation')
    BY <2>1, <2>2 DEF HandlerOK, Named, Believing, Answering, Call
  <2>4. Moves(h)
    BY <2>1, <2>2, <2>3, ReadsMoves DEF Phase
  <2> QED
    BY <1>1, <2>4 DEF StepOK
<1> QED
  BY <1>3, <1>4, <1>5


LEMMA CommitStepOK ==
  ASSUME ScorerInv, NEW h \in Calls, CommitProvision(h) \/ CommitInvite(h)
  PROVE  StepOK(h)
<1>1. Moves(h) /\ RestOK
  BY FinishesMoves, CredentialMailedRest
  DEF CommitProvision, CommitInvite, RestOK, ScorerInv, TaskScorerTypeOK
<1>2. CASE CommitProvision(h)
  BY <1>1, <1>2, SameLetters, SameRelations DEF CommitProvision, StepOK
<1>3. CASE CommitInvite(h)
  <2>1. call[h].scorer \in Scorers
    BY <1>3 DEF CommitInvite, ScorerInv, HandlerOK, Named
  <2>2. Grows
    BY <1>3, <2>1, SentLetters DEF CommitInvite
  <2>3. RelationsOK
    BY <1>3, AskedRelations DEF CommitInvite
  <2> QED
    BY <1>1, <2>2, <2>3 DEF StepOK
<1> QED
  BY <1>2, <1>3

LEMMA InviteReadOK ==
  ASSUME ScorerInv, NEW h \in Calls,
         FindTaskScorer(h) \/ JoinTask(h) \/ RefreshRelation(h)
  PROVE  StepOK(h)
<1>0. /\ UNCHANGED <<invitation, account, known, holder, overlap>>
      /\ call[h] \in Call /\ HandlerOK(call[h], invitation)
  BY DEF FindTaskScorer, JoinTask, RefreshRelation, ScorerInv, TaskScorerTypeOK
<1>1. Grows /\ RestOK
  BY <1>0, SameLetters DEF RestOK, ScorerInv, TaskScorerTypeOK
<1>2. call[h].phase \notin {"idle", "settling"} => call[h].scorer \in Scorers
  BY <1>0 DEF HandlerOK, Named
<1>3. CASE FindTaskScorer(h)
  <2> DEFINE c == [call[h] EXCEPT !.seen = relation[call[h].scorer]]
  <2>1. Reads(h, "found", c) /\ call[h].phase = "account" /\ relation' = relation
    BY <1>3 DEF FindTaskScorer
  <2>2. relation[call[h].scorer] \in RelationStatus
    BY <1>2, <2>1 DEF ScorerInv, TaskScorerTypeOK
  <2>3. c \in Call /\ c.scorer \in Scorers /\ c.op # "resend"
    BY <1>0, <1>2, <2>1, <2>2 DEF Call, HandlerOK, Believing
  <2>4. HandlerOK([c EXCEPT !.phase = "found"], invitation')
    BY <2>3 DEF HandlerOK, Named, Believing, Answering, Call
  <2>5. Moves(h)
    BY <2>1, <2>3, <2>4, ReadsMoves DEF Phase
  <2> QED
    BY <1>1, <2>1, <2>5, SameRelations DEF StepOK
<1>4. CASE JoinTask(h) \/ RefreshRelation(h)
  <2> DEFINE c == [call[h] EXCEPT !.seen = Believed(call[h].seen)]
  <2>1. PICK p \in {"joined", "mailed", "mailing"} : Reads(h, p, c)
    BY <1>4 DEF JoinTask, RefreshRelation
  <2>2. call[h].scorer \in Scorers /\ RelationsOK
    BY <1>2, <1>4, AskedRelations DEF JoinTask, RefreshRelation
  <2>3. Believed(call[h].seen) \in {"accepted", "pending"}
    BY DEF Believed
  <2>4. c \in Call /\ c.scorer \in Scorers /\ c.seen \in {"accepted", "pending"}
    BY <1>0, <2>2, <2>3 DEF Call, RelationStatus
  <2>5. HandlerOK([c EXCEPT !.phase = p], invitation')
    BY <2>4 DEF HandlerOK, Named, Believing, Answering, Call
  <2>6. Moves(h)
    <3> HIDE DEF c
    <3> QED
      BY <2>1, <2>4, <2>5, ReadsMoves DEF Phase
  <2> QED
    BY <1>1, <2>2, <2>6 DEF StepOK
<1> QED
  BY <1>3, <1>4

LEMMA CreateInvitationOK ==
  ASSUME ScorerInv, NEW h \in Calls, CreateInvitation(h)
  PROVE  StepOK(h)
<1>1. PICK i \in InvitationId :
        /\ IsFree(i) /\ Sent(i, call[h].scorer)
        /\ Reads(h, IF call[h].op = "resend" THEN "created" ELSE "mailed",
                 [call[h] EXCEPT !.letter = i, !.seenLetter = "sent"])
  BY DEF CreateInvitation
<1> DEFINE c == [call[h] EXCEPT !.letter = i, !.seenLetter = "sent"]
           p == IF call[h].op = "resend" THEN "created" ELSE "mailed"
<1>2. /\ call[h] \in Call /\ HandlerOK(call[h], invitation)
      /\ call[h].phase \in {"joined", "found", "rotated"}
      /\ call[h].phase = "found" => call[h].op = "resend"
  BY DEF CreateInvitation, ScorerInv, TaskScorerTypeOK
<1>3. call[h].scorer \in Scorers /\ call[h].seen \in {"pending", "accepted"}
  BY <1>2 DEF HandlerOK, Named, Believing
<1>4. i \in 0..MaxInvitations
  BY TaskScorerAssumption DEF InvitationId
<1>5. c \in Call /\ c.scorer \in Scorers /\ c.seen \in {"pending", "accepted"}
  BY <1>2, <1>3, <1>4 DEF Call, InvitationStatus
<1>6. p \in {"created", "mailed"} /\ Reads(h, p, c)
  BY <1>1
<1>7. HandlerOK([c EXCEPT !.phase = p], invitation')
  <2> HIDE DEF p, c
  <2> QED
    BY <1>5, <1>6 DEF HandlerOK, Named, Believing, Answering, Call
<1>8. Moves(h)
  <2> HIDE DEF p, c
  <2> QED
    BY <1>5, <1>6, <1>7, ReadsMoves DEF Phase
<1>9. Grows
  BY <1>1, <1>3, SentLetters
<1> QED
  BY <1>8, <1>9, SameRelations
  DEF CreateInvitation, StepOK, RestOK, ScorerInv, TaskScorerTypeOK

LEMMA RotateCredentialOK ==
  ASSUME ScorerInv, NEW h \in Calls, RotateCredential(h)
  PROVE  StepOK(h)
<1> DEFINE s == call[h].scorer
           c == [call[h] EXCEPT !.password = account[s].password + 1]
<1>1. /\ call[h] \in Call /\ HandlerOK(call[h], invitation)
      /\ call[h].phase = "found" /\ call[h].op = "resend"
      /\ account[s].password < MaxPasswords
      /\ account' = [account EXCEPT ![s] = [state |-> "undelivered",
                                            password |-> account[s].password + 1]]
      /\ Reads(h, "rotated", c)
      /\ UNCHANGED <<relation, invitation, known, holder, overlap>>
  BY DEF RotateCredential, ScorerInv, TaskScorerTypeOK
<1>2. s \in Scorers /\ call[h].seen \in {"pending", "accepted"}
  BY <1>1 DEF HandlerOK, Named, Believing
<1>3. account[s].password + 1 \in Password
  BY <1>1, <1>2, TaskScorerAssumption DEF ScorerInv, TaskScorerTypeOK, Account, Password
<1>4. c \in Call /\ c.scorer \in Scorers /\ c.seen \in {"pending", "accepted"}
  BY <1>1, <1>2, <1>3 DEF Call
<1>5. account' \in [Scorers -> Account]
  BY <1>1, <1>3 DEF ScorerInv, TaskScorerTypeOK, Account, AccountState
<1>6. HandlerOK([c EXCEPT !.phase = "rotated"], invitation')
  <2> HIDE DEF c
  <2> QED
    BY <1>4 DEF HandlerOK, Named, Believing, Answering, Call
<1>7. Moves(h)
  <2> HIDE DEF c
  <2> QED
    BY <1>1, <1>4, <1>6, ReadsMoves DEF Phase
<1> QED
  BY <1>1, <1>5, <1>7, SameLetters, SameRelations
  DEF StepOK, RestOK, ScorerInv, TaskScorerTypeOK

LEMMA SendInvitationEmailOK ==
  ASSUME ScorerInv, NEW h \in Calls, SendInvitationEmail(h)
  PROVE  StepOK(h)
<1>1. /\ call[h] \in Call /\ call[h].scorer \in Scorers
      /\ UNCHANGED <<relation, invitation, account, holder, overlap>>
  BY DEF SendInvitationEmail, ScorerInv, TaskScorerTypeOK, HandlerOK, Named
<1>2. PICK c \in {call[h], [call[h] EXCEPT !.password = 0]} : Reads(h, "mailed", c)
  BY DEF SendInvitationEmail
<1>3. c \in Call /\ c.scorer \in Scorers
  BY <1>1, TaskScorerAssumption DEF Call, Password
<1>4. HandlerOK([c EXCEPT !.phase = "mailed"], invitation')
  BY <1>3 DEF HandlerOK, Named, Believing, Answering, Call
<1>5. Moves(h)
  BY <1>2, <1>3, <1>4, ReadsMoves DEF Phase
<1>6. known' \in [Scorers -> SUBSET Password]
  <2>1. call[h].password \in Password
    BY <1>1 DEF Call
  <2>2. \/ known' = known
        \/ known' = [known EXCEPT ![call[h].scorer] =
                                    known[call[h].scorer] \cup {call[h].password}]
    BY DEF SendInvitationEmail
  <2> QED
    BY <1>1, <2>1, <2>2 DEF ScorerInv, TaskScorerTypeOK
<1> QED
  BY <1>1, <1>5, <1>6, SameLetters, SameRelations
  DEF StepOK, RestOK, ScorerInv, TaskScorerTypeOK

LEMMA ReadMarkGrows ==
  ASSUME ScorerInv, NEW i, NEW b \in BOOLEAN,
         invitation' = [invitation EXCEPT ![i].read = b]
  PROVE  Grows
<1>1. invitation \in [InvitationId -> Invitation]
  BY DEF ScorerInv, TaskScorerTypeOK
<1>2. \A j \in InvitationId :
        /\ invitation'[j] \in Invitation
        /\ invitation'[j].scorer = invitation[j].scorer
        /\ invitation'[j].status = invitation[j].status
        /\ invitation'[j].responded = invitation[j].responded
  BY <1>1 DEF Invitation
<1>3. invitation' \in [InvitationId -> Invitation]
  BY <1>1, <1>2
<1> QED
  BY <1>2, <1>3 DEF ScorerInv, LettersOK, Grows

LEMMA MarkStepOK ==
  ASSUME ScorerInv, NEW h \in Calls,
         UpdateInvitationMetadata(h) \/ MarkCredentialDelivered(h)
  PROVE  StepOK(h)
<1>1. CASE UpdateInvitationMetadata(h)
  <2>1. /\ call[h] \in Call /\ call[h].scorer \in Scorers
        /\ UNCHANGED <<relation, account, known, holder, overlap>>
    BY <1>1 DEF UpdateInvitationMetadata, ScorerInv, TaskScorerTypeOK, HandlerOK, Named
  <2>2. Grows
    <3>1. invitation' = [invitation EXCEPT ![call[h].letter].read = FALSE]
      BY <1>1 DEF UpdateInvitationMetadata
    <3> QED
      BY <3>1, ReadMarkGrows
  <2>3. Moves(h)
    <3>1. CASE Reads(h, "marking", call[h])
      <4>1. HandlerOK([call[h] EXCEPT !.phase = "marking"], invitation')
        BY <2>1 DEF HandlerOK, Named, Believing, Answering, Call
      <4> QED
        BY <2>1, <3>1, <4>1, ReadsMoves DEF Phase
    <3>2. CASE Finishes(h)
      BY <3>2, FinishesMoves
    <3> QED
      BY <1>1, <3>1, <3>2 DEF UpdateInvitationMetadata
  <2> QED
    BY <2>1, <2>2, <2>3, SameRelations DEF StepOK, RestOK, ScorerInv, TaskScorerTypeOK
<1>2. CASE MarkCredentialDelivered(h)
  <2>1. account' \in [Scorers -> Account]
    BY <1>2 DEF MarkCredentialDelivered, ScorerInv, TaskScorerTypeOK, Account,
                AccountState
  <2> QED
    BY <1>2, <2>1, FinishesMoves, SameLetters, SameRelations
    DEF MarkCredentialDelivered, StepOK, RestOK, ScorerInv, TaskScorerTypeOK
<1> QED
  BY <1>1, <1>2


LEMMA StatusGrows ==
  ASSUME ScorerInv, NEW i \in InvitationId, invitation[i].status # "none",
         NEW status \in InvitationStatus \ {"none"},
         invitation' = [invitation EXCEPT ![i].status = status]
  PROVE  Grows
<1>1. invitation \in [InvitationId -> Invitation]
  BY DEF ScorerInv, TaskScorerTypeOK
<1>2. \A j \in InvitationId :
        /\ invitation'[j] \in Invitation
        /\ invitation'[j].scorer = invitation[j].scorer
        /\ invitation'[j].status = IF j = i THEN status ELSE invitation[j].status
        /\ invitation'[j].responded = invitation[j].responded
  BY <1>1 DEF Invitation
<1>3. invitation' \in [InvitationId -> Invitation]
  BY <1>1, <1>2
<1> QED
  BY <1>2, <1>3 DEF ScorerInv, LettersOK, Grows

LEMMA LoadInvitationOK ==
  ASSUME ScorerInv, NEW h \in Calls, NEW i \in InvitationId, LoadInvitation(h, i)
  PROVE  StepOK(h)
<1> DEFINE c == [Idle EXCEPT !.op = "accept", !.letter = i,
                             !.scorer = invitation[i].scorer,
                             !.seenLetter = invitation[i].status,
                             !.seen = relation[invitation[i].scorer]]
<1>1. /\ Reads(h, "loaded", c)
      /\ invitation[i].status \notin {"none", "cancelled"}
      /\ UNCHANGED <<relation, invitation, account, known, holder, overlap>>
  BY DEF LoadInvitation, LoadAnyInvitation
<1>2. /\ invitation[i] \in Invitation /\ invitation[i].scorer \in Scorers
      /\ i \in 0..MaxInvitations
  BY <1>1, TaskScorerAssumption
  DEF ScorerInv, TaskScorerTypeOK, LettersOK, InvitationId
<1>3. relation[invitation[i].scorer] \in RelationStatus
  BY <1>2 DEF ScorerInv, TaskScorerTypeOK
<1>4. invitation[i].status \in InvitationStatus
  BY <1>2 DEF Invitation
<1>5. /\ c \in Call
      /\ c.scorer = invitation[i].scorer /\ c.letter = i
      /\ c.seenLetter = invitation[i].status
  BY <1>2, <1>3, <1>4, IdleType DEF Call, Idle
<1>6. HandlerOK([c EXCEPT !.phase = "loaded"], invitation')
  <2> HIDE DEF c
  <2> QED
    BY <1>1, <1>2, <1>5 DEF HandlerOK, Named, Believing, Answering, Call
<1>7. Moves(h)
  <2> HIDE DEF c
  <2> QED
    BY <1>1, <1>5, <1>6, ReadsMoves DEF Phase
<1> QED
  BY <1>1, <1>7, SameLetters, SameRelations
  DEF StepOK, RestOK, ScorerInv, TaskScorerTypeOK

LEMMA AnswerStepOK ==
  ASSUME ScorerInv, NEW h \in Calls, AnswerStep(h)
  PROVE  StepOK(h)
<1>1. /\ call[h] \in Call /\ HandlerOK(call[h], invitation)
      /\ relation \in [Scorers -> RelationStatus]
      /\ invitation \in [InvitationId -> Invitation]
  BY DEF ScorerInv, TaskScorerTypeOK
<1>2. CASE \E i \in InvitationId : LoadInvitation(h, i)
  BY <1>2, LoadInvitationOK
<1>3. CASE RefuseExpired(h)
  <2>1. Grows
    <3>1. /\ call[h].letter \in InvitationId
          /\ invitation[call[h].letter].status # "none"
          /\ invitation' = [invitation EXCEPT ![call[h].letter].status = "expired"]
      BY <1>1, <1>3 DEF RefuseExpired, HandlerOK, Answering
    <3>2. "expired" \in InvitationStatus \ {"none"}
      BY DEF InvitationStatus
    <3> QED
      BY <3>1, <3>2, StatusGrows
  <2> QED
    BY <1>3, <2>1, FinishesMoves, SameRelations
    DEF RefuseExpired, StepOK, RestOK, ScorerInv, TaskScorerTypeOK
<1>4. CASE FindRelation(h)
  <2> DEFINE status == relation[call[h].scorer]
             c == [call[h] EXCEPT !.seen = status]
  <2>1. /\ call[h].phase = "loaded" /\ call[h].seenLetter # "expired"
        /\ UNCHANGED <<relation, invitation, account, known, holder, overlap>>
    BY <1>4 DEF FindRelation
  <2>2. /\ call[h].scorer \in Scorers /\ status \in RelationStatus
        /\ call[h].seenLetter \in InvitationStatus \ {"none", "cancelled", "expired"}
    BY <1>1, <2>1 DEF HandlerOK, Named, Answering, Call
  <2>3. CASE Finishes(h)
    BY <2>1, <2>3, FinishesMoves, SameLetters, SameRelations
    DEF StepOK, RestOK, ScorerInv, TaskScorerTypeOK
  <2>4. CASE /\ ~ (\/ status \in {"none", "inactive", "accepted"}
                   \/ call[h].seenLetter = "accepted")
             /\ Reads(h, "answering", c)
    <3>1. status = "pending" /\ call[h].seenLetter = "sent"
      BY <2>2, <2>4 DEF RelationStatus, InvitationStatus
    <3>2. /\ c \in Call /\ c.scorer = call[h].scorer /\ c.letter = call[h].letter
          /\ c.seen = "pending" /\ c.seenLetter = "sent"
      BY <1>1, <3>1 DEF Call, RelationStatus
    <3>3. HandlerOK([c EXCEPT !.phase = "answering"], invitation')
      <4> HIDE DEF c
      <4> QED
        BY <1>1, <2>1, <2>2, <3>2 DEF HandlerOK, Named, Believing, Answering, Call
    <3>4. Moves(h)
      <4> HIDE DEF c
      <4> QED
        BY <2>4, <3>2, <3>3, ReadsMoves DEF Phase
    <3> QED
      BY <2>1, <3>4, SameLetters, SameRelations
      DEF StepOK, RestOK, ScorerInv, TaskScorerTypeOK
  <2> QED
    BY <1>4, <2>3, <2>4 DEF FindRelation
<1>5. CASE AnswerInvitation(h)
  <2> DEFINE l == call[h].letter
             c == [call[h] EXCEPT !.seenLetter = "accepted"]
  <2>1. /\ call[h].phase = "answering"
        /\ invitation' = [invitation EXCEPT ![l].status = "accepted",
                                            ![l].responded = TRUE, ![l].read = TRUE]
        /\ Reads(h, "answered", c)
        /\ UNCHANGED <<relation, account, known, holder, overlap>>
    BY <1>5 DEF AnswerInvitation
  <2>2. /\ call[h].scorer \in Scorers /\ l \in InvitationId
        /\ invitation[l].status # "none" /\ invitation[l].scorer = call[h].scorer
        /\ call[h].seen = "pending"
    BY <1>1, <2>1 DEF HandlerOK, Named, Believing, Answering
  <2>3. \A j \in InvitationId :
          /\ invitation'[j] \in Invitation
          /\ invitation'[j].scorer = invitation[j].scorer
          /\ j # l => invitation'[j] = invitation[j]
          /\ j = l => invitation'[j].status = "accepted" /\ invitation'[j].responded
    BY ZenonT(30), <1>1, <2>1 DEF Invitation, InvitationStatus
  <2>4. invitation' \in [InvitationId -> Invitation]
    BY <1>1, <2>1, <2>3
  <2>5. Grows
    BY <2>2, <2>3, <2>4 DEF Grows, LettersOK, ScorerInv
  <2>6. /\ c \in Call /\ c.scorer = call[h].scorer /\ c.letter = l
        /\ c.seen = "pending" /\ c.seenLetter = "accepted"
    BY <1>1, <2>2 DEF Call, InvitationStatus
  <2>7. HandlerOK([c EXCEPT !.phase = "answered"], invitation')
    <3> HIDE DEF c
    <3> QED
      BY <2>2, <2>3, <2>6 DEF HandlerOK, Named, Believing, Answering, Call
  <2>8. Moves(h)
    <3> HIDE DEF c
    <3> QED
      BY <2>1, <2>6, <2>7, ReadsMoves DEF Phase
  <2> QED
    BY <2>1, <2>5, <2>8, SameRelations
    DEF StepOK, RestOK, ScorerInv, TaskScorerTypeOK
<1>6. CASE AcceptRelation(h)
  <2>1. /\ call[h].scorer \in Scorers /\ call[h].letter \in InvitationId
        /\ invitation[call[h].letter].scorer = call[h].scorer
        /\ invitation[call[h].letter].responded
    BY <1>1, <1>6 DEF AcceptRelation, HandlerOK, Named, Answering
  <2>2. RelationsOK
    BY <1>1, <1>6, <2>1 DEF AcceptRelation, SetStatus, RelationsOK, RelationStatus
  <2> QED
    BY <1>6, <2>2, FinishesMoves, SameLetters
    DEF AcceptRelation, StepOK, RestOK, ScorerInv, TaskScorerTypeOK
<1> QED
  BY <1>2, <1>3, <1>4, <1>5, <1>6 DEF AnswerStep


LEMMA AssignScorersOK ==
  ASSUME ScorerInv, NEW h \in Calls, AssignScorers(h)
  PROVE  StepOK(h)
<1>1. PICK moved \in (SUBSET Videos) \ {{}},
           targets \in (SUBSET {s \in Scorers : account[s].state = "ready"}) \ {{}} :
        \E plan \in [moved -> targets] :
          /\ holder' = [v \in Videos |-> IF v \in moved THEN plan[v] ELSE holder[v]]
          /\ Reads(h, "settling",
                   [Idle EXCEPT !.op = "reassign", !.targets = targets,
                      !.toNotify = targets,
                      !.sources = {holder[v] : v \in moved}
                                    \ (targets \cup {NoScorer})])
  BY DEF AssignScorers
<1>2. PICK plan \in [moved -> targets] :
        /\ holder' = [v \in Videos |-> IF v \in moved THEN plan[v] ELSE holder[v]]
        /\ Reads(h, "settling",
                 [Idle EXCEPT !.op = "reassign", !.targets = targets,
                    !.toNotify = targets,
                    !.sources = {holder[v] : v \in moved}
                                  \ (targets \cup {NoScorer})])
  BY <1>1
<1> DEFINE left == {holder[v] : v \in moved} \ (targets \cup {NoScorer})
           c == [Idle EXCEPT !.op = "reassign", !.targets = targets,
                             !.toNotify = targets, !.sources = left]
<1>3. targets \in SUBSET Scorers /\ left \in SUBSET Scorers
  BY DEF ScorerInv, TaskScorerTypeOK
<1>4. holder' \in [Videos -> Scorers \cup {NoScorer}]
  BY <1>2, <1>3 DEF ScorerInv, TaskScorerTypeOK
<1>5. c \in Call /\ c.op = "reassign"
  <2> HIDE DEF left
  <2> QED
    BY <1>3, IdleType DEF Call, Idle
<1>6. Reads(h, "settling", c)
  BY <1>2
<1>7. Moves(h)
  <2> HIDE DEF c
  <2>1. HandlerOK([c EXCEPT !.phase = "settling"], invitation')
    BY <1>5 DEF HandlerOK, Named, Believing, Answering, Call
  <2> QED
    BY <1>5, <1>6, <2>1, ReadsMoves DEF Phase
<1> QED
  BY <1>4, <1>7, SameLetters, SameRelations
  DEF AssignScorers, StepOK, RestOK, ScorerInv, TaskScorerTypeOK

LEMMA SettleOK ==
  ASSUME ScorerInv, NEW h \in Calls, NEW s \in Scorers,
         EnsureNotification(h, s) \/ CountRemaining(h, s)
  PROVE  StepOK(h)
<1>1. /\ call[h] \in Call /\ HandlerOK(call[h], invitation)
      /\ call[h].phase = "settling"
      /\ UNCHANGED <<relation, invitation, account, known, holder, overlap>>
  BY DEF EnsureNotification, CountRemaining, ScorerInv, TaskScorerTypeOK
<1> DEFINE c == [call[h] EXCEPT !.scorer = s]
           asked == [call[h] EXCEPT !.toNotify = call[h].toNotify \ {s}]
           kept == [call[h] EXCEPT !.sources = call[h].sources \ {s}]
<1>2. \/ call' = [call EXCEPT ![h] = asked] \/ call' = [call EXCEPT ![h] = kept]
      \/ \E p \in {"account", "counted"} : Reads(h, p, c)
  BY DEF EnsureNotification, CountRemaining
<1>3. CASE call' = [call EXCEPT ![h] = asked] \/ call' = [call EXCEPT ![h] = kept]
  <2>1. /\ asked \in Call /\ asked.phase = "settling" /\ asked.op = call[h].op
        /\ kept \in Call /\ kept.phase = "settling" /\ kept.op = call[h].op
    BY <1>1 DEF Call
  <2> HIDE DEF asked, kept
  <2>2. /\ call' \in [Calls -> Call] /\ \A g \in Calls : g # h => call'[g] = call[g]
        /\ call'[h].phase = "settling" /\ call'[h].op = call[h].op
    BY <1>3, <2>1 DEF ScorerInv, TaskScorerTypeOK
  <2>3. Moves(h)
    BY <1>1, <2>2 DEF Moves, HandlerOK, Named, Believing, Answering
  <2> QED
    BY <1>1, <2>3, SameLetters, SameRelations
    DEF StepOK, RestOK, ScorerInv, TaskScorerTypeOK
<1>4. CASE \E p \in {"account", "counted"} : Reads(h, p, c)
  <2>1. PICK p \in {"account", "counted"} : Reads(h, p, c)
    BY <1>4
  <2>2. c \in Call /\ c.scorer = s /\ c.op # "resend"
    BY <1>1 DEF Call, HandlerOK, Believing
  <2> HIDE DEF c
  <2>3. HandlerOK([c EXCEPT !.phase = p], invitation')
    BY <2>2 DEF HandlerOK, Named, Believing, Answering, Call
  <2>4. Moves(h)
    BY <2>1, <2>2, <2>3, ReadsMoves DEF Phase
  <2> QED
    BY <1>1, <2>4, SameLetters, SameRelations
    DEF StepOK, RestOK, ScorerInv, TaskScorerTypeOK
<1> QED
  BY <1>2, <1>3, <1>4

LEMMA WithdrawOK ==
  ASSUME ScorerInv, NEW h \in Calls,
         FindPendingRelation(h) \/ CancelSentInvitations(h) \/ ExpireRelation(h)
  PROVE  StepOK(h)
<1>1. /\ call[h] \in Call /\ HandlerOK(call[h], invitation)
      /\ call[h].scorer \in Scorers
      /\ UNCHANGED <<account, known, holder, overlap>>
  BY DEF FindPendingRelation, CancelSentInvitations, ExpireRelation, ScorerInv,
         TaskScorerTypeOK, HandlerOK, Named
<1>2. RestOK
  BY <1>1 DEF RestOK, ScorerInv, TaskScorerTypeOK
<1>3. CASE FindPendingRelation(h)
  <2>1. \/ Finishes(h)
        \/ Reads(h, "withdrawing", [call[h] EXCEPT !.seen = "pending"])
    BY <1>3 DEF FindPendingRelation
  <2>2. Moves(h)
    <3> DEFINE c == [call[h] EXCEPT !.seen = "pending"]
    <3>1. c \in Call /\ c.scorer \in Scorers /\ c.seen = "pending"
      BY <1>1 DEF Call, RelationStatus
    <3>2. Finishes(h) \/ Reads(h, "withdrawing", c)
      BY <2>1
    <3> HIDE DEF c
    <3>3. HandlerOK([c EXCEPT !.phase = "withdrawing"], invitation')
      BY <3>1 DEF HandlerOK, Named, Believing, Answering, Call
    <3> QED
      BY <3>1, <3>2, <3>3, FinishesMoves, ReadsMoves DEF Phase
  <2> QED
    BY <1>2, <1>3, <2>2, SameLetters, SameRelations DEF FindPendingRelation, StepOK
<1>4. CASE CancelSentInvitations(h)
  <2>1. Grows
    BY <1>4 DEF CancelSentInvitations, Grows, LettersOK, ScorerInv, TaskScorerTypeOK,
                Invitation, InvitationStatus
  <2>2. Moves(h)
    <3>1. call[h].phase = "withdrawing" /\ Reads(h, "withdrawn", call[h])
      BY <1>4 DEF CancelSentInvitations
    <3>2. HandlerOK([call[h] EXCEPT !.phase = "withdrawn"], invitation')
      BY <1>1, <3>1 DEF HandlerOK, Named, Believing, Answering, Call
    <3> QED
      BY <1>1, <3>1, <3>2, ReadsMoves DEF Phase
  <2> QED
    BY <1>2, <1>4, <2>1, <2>2, SameRelations DEF CancelSentInvitations, StepOK
<1>5. CASE ExpireRelation(h)
  <2>1. RelationsOK
    BY <1>1, <1>5 DEF ExpireRelation, SetStatus, RelationsOK, RelationStatus,
                      ScorerInv, TaskScorerTypeOK
  <2> QED
    BY <1>2, <1>5, <2>1, FinishesMoves, SameLetters DEF ExpireRelation, StepOK
<1> QED
  BY <1>3, <1>4, <1>5

LEMMA EndsOK ==
  ASSUME ScorerInv, NEW h \in Calls, ReassignmentEnds(h) \/ CallFails(h)
  PROVE  StepOK(h)
<1>1. /\ call' = [call EXCEPT ![h] = Idle]
      /\ UNCHANGED <<relation, invitation, account, known, holder, overlap>>
  BY DEF ReassignmentEnds, CallFails
<1>2. Moves(h)
  <2>1. Idle.phase = "idle"
    BY DEF Idle
  <2> QED
    BY <1>1, <2>1, IdleType
    DEF Moves, HandlerOK, Named, Believing, Answering, ScorerInv, TaskScorerTypeOK
<1> QED
  BY <1>1, <1>2, SameLetters, SameRelations
  DEF StepOK, RestOK, ScorerInv, TaskScorerTypeOK

HandlerStep(h) == InvitationStep(h) \/ AnswerStep(h) \/ ReassignStep(h) \/ CallFails(h)

LEMMA HandlerStepOK ==
  ASSUME ScorerInv, NEW h \in Calls, HandlerStep(h)
  PROVE  StepOK(h)
<1>1. CASE InvitationStep(h)
  BY <1>1, AccountStepOK, CommitStepOK, InviteReadOK, CreateInvitationOK,
     RotateCredentialOK, SendInvitationEmailOK, MarkStepOK DEF InvitationStep
<1>2. CASE ReassignStep(h) \/ CallFails(h)
  BY <1>2, AssignScorersOK, SettleOK, WithdrawOK, EndsOK DEF ReassignStep
<1> QED
  BY <1>1, <1>2, AnswerStepOK DEF HandlerStep

\* A handler that does not move keeps what it knows of invitations.
LEMMA OthersOK ==
  ASSUME ScorerInv, Grows, NEW c \in Call, HandlerOK(c, invitation)
  PROVE  HandlerOK(c, invitation')
BY DEF HandlerOK, Named, Believing, Answering, Grows

LEMMA AnswersStay == ScorerInv /\ Grows /\ RelationsOK => AcceptedMeansAnswered'
<1> SUFFICES ASSUME ScorerInv, Grows, RelationsOK, NEW s \in Scorers,
                    relation'[s] = "accepted"
             PROVE  \E i \in InvitationId :
                      invitation'[i].scorer = s /\ invitation'[i].responded
  BY DEF AcceptedMeansAnswered
<1>1. PICK i \in InvitationId : invitation[i].scorer = s /\ invitation[i].responded
  BY DEF RelationsOK, ScorerInv, AcceptedMeansAnswered
<1> QED
  BY <1>1 DEF ScorerInv, LettersOK, Grows

LEMMA ScorerInvStep == ScorerInv /\ [TaskScorerNext]_scorerVars => ScorerInv'
<1> SUFFICES ASSUME ScorerInv, [TaskScorerNext]_scorerVars
             PROVE  ScorerInv'
  OBVIOUS
<1>1. ASSUME NEW h \in Calls, HandlerStep(h)
      PROVE  ScorerInv'
  <2>1. StepOK(h)
    BY <1>1, HandlerStepOK
  <2>2. \A g \in Calls : HandlerOK(call'[g], invitation')
    BY <2>1, OthersOK DEF StepOK, Moves, ScorerInv, TaskScorerTypeOK
  <2>3. TaskScorerTypeOK'
    BY <2>1 DEF StepOK, Moves, Grows, RelationsOK, RestOK, ScorerInv, TaskScorerTypeOK
  <2> QED
    BY <2>1, <2>2, <2>3, AnswersStay DEF ScorerInv, StepOK, Grows
<1>2. ASSUME Grows, RelationsOK, UNCHANGED <<account, known, holder, call, overlap>>
      PROVE  ScorerInv'
  <2>1. \A g \in Calls : HandlerOK(call'[g], invitation')
    BY <1>2, OthersOK DEF ScorerInv, TaskScorerTypeOK
  <2> QED
    BY <1>2, <2>1, AnswersStay DEF ScorerInv, TaskScorerTypeOK, Grows, RelationsOK
<1>3. CASE \E s \in Scorers : Remove(s)
  <2>1. RelationsOK
    BY <1>3 DEF Remove, SetStatus, RelationsOK, RelationStatus, ScorerInv,
                TaskScorerTypeOK
  <2> QED
    BY <1>2, <1>3, <2>1, SameLetters DEF Remove
<1>4. CASE \E i \in InvitationId : MarkMineRead(i)
  BY <1>2, <1>4, ReadMarkGrows, SameRelations DEF MarkMineRead
<1>5. CASE UNCHANGED scorerVars
  BY <1>2, <1>5, SameLetters, SameRelations DEF scorerVars
<1> QED
  BY <1>1, <1>3, <1>4, <1>5 DEF TaskScorerNext, HandlerStep

LEMMA ScorerInvInit == TaskScorerInit => ScorerInv
<1> SUFFICES ASSUME TaskScorerInit
             PROVE  ScorerInv
  OBVIOUS
<1>1. TaskScorerTypeOK
  <2>1. NoInvitation \in Invitation
    BY DEF NoInvitation, Invitation, InvitationStatus
  <2>2. account \in [Scorers -> Account] /\ known \in [Scorers -> SUBSET Password]
    BY TaskScorerAssumption DEF TaskScorerInit, Account, Password
  <2> QED
    BY <2>1, <2>2, IdleType DEF TaskScorerInit, TaskScorerTypeOK, RelationStatus
<1>2. \A h \in Calls : HandlerOK(call[h], invitation)
  BY DEF TaskScorerInit, HandlerOK, Named, Believing, Answering, Idle
<1> QED
  BY <1>1, <1>2
  DEF ScorerInv, TaskScorerInit, LettersOK, NoInvitation, AcceptedMeansAnswered

LEMMA ScorerInvariance == TaskScorerSpec => []ScorerInv
BY ScorerInvInit, ScorerInvStep, PTL DEF TaskScorerSpec

\* Rows and handlers keep their types.
THEOREM TaskScorerTypeCorrectness == TaskScorerSpec => []TaskScorerTypeOK
<1>1. ScorerInv => TaskScorerTypeOK
  BY DEF ScorerInv
<1> QED
  BY <1>1, ScorerInvariance, PTL

\* Whoever takes part in a task has answered an invitation sent to them, however
\* handlers overlap and fail.
THEOREM TakingPartIsAnswered == TaskScorerSpec => []AcceptedMeansAnswered
<1>1. ScorerInv => AcceptedMeansAnswered
  BY DEF ScorerInv
<1> QED
  BY <1>1, ScorerInvariance, PTL
-----------------------------------------------------------------------------
(***************************************************************************)
(* Relations and invitations follow InvitationLifecycle: a handler either  *)
(* acts on what is still so, and then takes a step of the life cycle, or   *)
(* it is stale, which needs another handler beside it.                     *)
(***************************************************************************)

\* What the handler has read is still so when it writes.
Fresh(h) ==
  /\ call[h].phase \in {"found", "joined", "rotated", "created", "answering",
                        "answered", "withdrawing", "withdrawn"} =>
       call[h].seen = relation[call[h].scorer]
  /\ call[h].phase \in {"loaded", "answering", "answered"} =>
       call[h].seenLetter = invitation[call[h].letter].status

FreshInv ==
  ~ overlap =>
    /\ \A g, h \in Calls :
         call[g].phase # "idle" /\ call[h].phase # "idle" => g = h
    /\ \A h \in Calls : Fresh(h)

Promised == Promise!Next \/ StaleStep \/ UNCHANGED Promise!lifecycleVars

Letters ==
  [i \in InvitationId |->
     [to |-> invitation[i].scorer, status |-> invitation[i].status,
      answered |-> invitation[i].responded]]

LEMMA StuttersOK ==
  ASSUME relation' = relation,
         \A i \in InvitationId :
           /\ invitation'[i].scorer = invitation[i].scorer
           /\ invitation'[i].status = invitation[i].status
           /\ invitation'[i].responded = invitation[i].responded
  PROVE  UNCHANGED Promise!lifecycleVars
BY DEF Promise!lifecycleVars

LEMMA ReadsPhase ==
  ASSUME ScorerInv, NEW h \in Calls, NEW p, NEW c \in Call, Reads(h, p, c)
  PROVE  /\ call'[h].phase = p
         /\ call'[h].scorer = c.scorer /\ call'[h].seen = c.seen
         /\ call'[h].letter = c.letter /\ call'[h].seenLetter = c.seenLetter
         /\ call'[h].op = c.op /\ call'[h].password = c.password
         /\ call'[h].targets = c.targets /\ call'[h].toNotify = c.toNotify
         /\ call'[h].sources = c.sources
BY DEF Reads, ScorerInv, TaskScorerTypeOK, Call

\* One by one, a handler that moves is alone.
LEMMA Alone ==
  ASSUME FreshInv, NEW h \in Calls, HandlerStep(h), ~ overlap, NEW g \in Calls, g # h
  PROVE  call[g].phase = "idle"
<1>1. CASE call[h].phase # "idle"
  BY <1>1 DEF FreshInv
<1>2. CASE MayStart(h)
  BY <1>2 DEF MayStart
<1> QED
  BY <1>1, <1>2
  DEF HandlerStep, InvitationStep, AnswerStep, ReassignStep, FindTaskScorer,
      CommitProvision, CommitInvite, JoinTask, CreateInvitation,
      UpdateInvitationMetadata, RotateCredential, RefreshRelation,
      SendInvitationEmail, MarkCredentialDelivered, FindOrCreateScorer,
      FindExistingScorer, LoadResend, LoadInvitation, LoadAnyInvitation,
      RefuseExpired, FindRelation, AnswerInvitation, AcceptRelation, AssignScorers,
      FindPendingRelation, CancelSentInvitations, ExpireRelation, ReassignmentEnds,
      EnsureNotification, CountRemaining, CallFails

\* Who writes either knows the relation or is stale.
LEMMA KnowsRelation ==
  ASSUME ScorerInv, FreshInv, NEW h \in Calls, call'[h].phase # call[h].phase,
         call[h].phase \in {"found", "joined", "rotated", "created", "answering",
                            "answered", "withdrawing", "withdrawn"}
  PROVE  StaleStep \/ call[h].seen = relation[call[h].scorer]
<1>1. call[h].scorer # NoScorer
  BY TaskScorerAssumption DEF ScorerInv, HandlerOK, Named
<1>2. CASE overlap /\ call[h].seen # relation[call[h].scorer]
  BY <1>1, <1>2 DEF StaleStep, Stale
<1>3. CASE ~ overlap
  BY <1>3 DEF FreshInv, Fresh
<1> QED
  BY <1>2, <1>3

LEMMA KnowsLetter ==
  ASSUME ScorerInv, FreshInv, NEW h \in Calls, call'[h].phase # call[h].phase,
         call[h].phase \in {"loaded", "answering", "answered"}
  PROVE  StaleStep \/ call[h].seenLetter = invitation[call[h].letter].status
<1>1. call[h].scorer # NoScorer /\ call[h].letter # 0
  BY TaskScorerAssumption DEF ScorerInv, HandlerOK, Named, Answering, InvitationId
<1>2. CASE overlap /\ call[h].seenLetter # invitation[call[h].letter].status
  BY <1>1, <1>2 DEF StaleStep, Stale
<1>3. CASE ~ overlap
  BY <1>3 DEF FreshInv, Fresh
<1> QED
  BY <1>2, <1>3

LEMMA SentWrites ==
  ASSUME ScorerInv, NEW i \in InvitationId, NEW s \in Scorers, IsFree(i), Sent(i, s)
  PROVE  Promise!WriteLetter(s)
<1>1. invitation \in [InvitationId -> Invitation]
  BY DEF ScorerInv, TaskScorerTypeOK
<1>2. /\ \A j \in InvitationId : j # i => invitation'[j] = invitation[j]
      /\ invitation'[i].scorer = s /\ invitation'[i].status = "sent"
      /\ invitation'[i].responded = FALSE
  BY <1>1 DEF Sent, NoInvitation
<1>3. Letters' = [Letters EXCEPT ![i] =
                    [to |-> s, status |-> "sent", answered |-> FALSE]]
  BY <1>2 DEF Letters
<1>4. invitation[i].status = "none"
  BY DEF IsFree
<1> QED
  BY <1>3, <1>4 DEF Letters, Promise!WriteLetter

LEMMA SendIsPromised ==
  ASSUME ScorerInv, NEW i \in InvitationId, NEW s \in Scorers, IsFree(i), Sent(i, s),
         relation[s] # "inactive", relation' = relation
  PROVE  Promise!Next
<1>1. Promise!Send(s)
  BY SentWrites DEF Promise!Send
<1> QED
  BY <1>1 DEF Promise!Next

\* Asking, with or without a letter, leaves an accepted scorer alone.
LEMMA AskedIsPromised ==
  ASSUME ScorerInv, NEW s \in Scorers, NEW seen,
         seen = relation[s], relation' = Asked(s, seen),
         \/ \E i \in InvitationId : IsFree(i) /\ Sent(i, s)
         \/ invitation' = invitation
  PROVE  Promise!Next \/ UNCHANGED Promise!lifecycleVars
<1>1. CASE invitation' = invitation
  <2>1. CASE seen = "accepted"
    BY <1>1, <2>1, StuttersOK DEF Asked
  <2>2. CASE seen # "accepted"
    <3>1. Promise!Ask(s)
      BY <1>1, <2>2 DEF Asked, Promise!Ask
    <3> QED
      BY <3>1 DEF Promise!Next
  <2> QED
    BY <2>1, <2>2
<1>2. CASE \E i \in InvitationId : IsFree(i) /\ Sent(i, s)
  <2>1. Promise!WriteLetter(s)
    BY <1>2, SentWrites
  <2>2. CASE seen = "accepted"
    <3>1. Promise!Send(s)
      BY <2>1, <2>2 DEF Asked, Promise!Send
    <3> QED
      BY <3>1 DEF Promise!Next
  <2>3. CASE seen # "accepted"
    <3>1. Promise!Ask(s)
      BY <2>1, <2>3 DEF Asked, Promise!Ask
    <3> QED
      BY <3>1 DEF Promise!Next
  <2> QED
    BY <2>2, <2>3
<1> QED
  BY <1>1, <1>2


FollowsAt(h) == Promised /\ (Fresh(h)' \/ overlap)

LEMMA ReadsOnlyFollow ==
  ASSUME ScorerInv, NEW h \in Calls, UNCHANGED <<relation, invitation>>,
         call'[h].phase \in {"idle", "settling", "account", "mailed", "marking",
                             "counted"}
  PROVE  FollowsAt(h)
BY StuttersOK DEF FollowsAt, Promised, Fresh

LEMMA InvitationReadsFollow ==
  ASSUME ScorerInv, FreshInv, NEW h \in Calls,
         \/ FindTaskScorer(h) \/ CommitProvision(h) \/ RotateCredential(h)
         \/ SendInvitationEmail(h) \/ MarkCredentialDelivered(h)
         \/ \E s \in Scorers :
              FindOrCreateScorer(h, s) \/ FindExistingScorer(h, s) \/ LoadResend(h, s)
  PROVE  FollowsAt(h)
<1>1. /\ UNCHANGED <<relation, invitation>> /\ call[h] \in Call
      /\ HandlerOK(call[h], invitation)
  BY DEF FindTaskScorer, CommitProvision, RotateCredential, SendInvitationEmail,
         MarkCredentialDelivered, FindOrCreateScorer, FindExistingScorer, LoadResend,
         ScorerInv, TaskScorerTypeOK
<1>2. CASE FindTaskScorer(h)
  <2> DEFINE c == [call[h] EXCEPT !.seen = relation[call[h].scorer]]
  <2>1. Reads(h, "found", c) /\ call[h].phase = "account"
    BY <1>2 DEF FindTaskScorer
  <2>2. relation[call[h].scorer] \in RelationStatus
    BY <1>1, <2>1 DEF HandlerOK, Named, ScorerInv, TaskScorerTypeOK
  <2>3. c \in Call /\ c.seen = relation[c.scorer]
    BY <1>1, <2>2 DEF Call
  <2> HIDE DEF c
  <2>4. /\ call'[h].phase = "found" /\ call'[h].seen = c.seen
        /\ call'[h].scorer = c.scorer
    BY <2>1, <2>3, ReadsPhase
  <2> QED
    BY <1>1, <2>3, <2>4, StuttersOK DEF FollowsAt, Promised, Fresh
<1>3. CASE CommitProvision(h) \/ MarkCredentialDelivered(h)
  BY <1>1, <1>3, FinishesMoves, ReadsOnlyFollow
  DEF CommitProvision, MarkCredentialDelivered
<1>4. CASE RotateCredential(h)
  <2> DEFINE c == [call[h] EXCEPT !.password = account[call[h].scorer].password + 1]
  <2>1. /\ Reads(h, "rotated", c) /\ call[h].phase = "found"
        /\ account[call[h].scorer].password < MaxPasswords
        /\ call[h].scorer \in Scorers
    BY <1>1, <1>4 DEF RotateCredential, HandlerOK, Named
  <2>2. account[call[h].scorer].password + 1 \in Password
    BY <2>1, TaskScorerAssumption DEF ScorerInv, TaskScorerTypeOK, Account, Password
  <2>3. c \in Call /\ c.seen = call[h].seen /\ c.scorer = call[h].scorer
    BY <1>1, <2>2 DEF Call
  <2> HIDE DEF c
  <2>4. /\ call'[h].phase = "rotated" /\ call'[h].seen = call[h].seen
        /\ call'[h].scorer = call[h].scorer
    BY <2>1, <2>3, ReadsPhase
  <2> QED
    BY <1>1, <2>1, <2>4, StuttersOK DEF FollowsAt, Promised, Fresh, FreshInv
<1>5. CASE SendInvitationEmail(h)
  <2>1. PICK c \in {call[h], [call[h] EXCEPT !.password = 0]} : Reads(h, "mailed", c)
    BY <1>5 DEF SendInvitationEmail
  <2>2. c \in Call
    BY <1>1, <2>1, TaskScorerAssumption DEF Call, Password
  <2> QED
    BY <1>1, <2>1, <2>2, ReadsPhase, ReadsOnlyFollow
<1>6. ASSUME NEW s \in Scorers, FindOrCreateScorer(h, s) \/ FindExistingScorer(h, s)
      PROVE  FollowsAt(h)
  <2>1. account[s].state \in AccountState
    BY DEF ScorerInv, TaskScorerTypeOK, Account
  <2>2. \E c \in Call : Reads(h, "account", c)
    <3>1. CASE FindOrCreateScorer(h, s)
      <4>1. PICK op \in {"provision", "invite"} :
              Reads(h, "account", [Idle EXCEPT !.op = op, !.scorer = s,
                                               !.credential = account[s].state])
        BY <3>1 DEF FindOrCreateScorer
      <4>2. [Idle EXCEPT !.op = op, !.scorer = s,
                         !.credential = account[s].state] \in Call
        BY <2>1, IdleType DEF Call
      <4> QED
        BY <4>1, <4>2
    <3>2. CASE FindExistingScorer(h, s)
      <4>1. [Idle EXCEPT !.op = "notify", !.scorer = s] \in Call
        BY IdleType DEF Call
      <4> QED
        BY <3>2, <4>1 DEF FindExistingScorer
    <3> QED
      BY <1>6, <3>1, <3>2
  <2> QED
    BY <1>1, <2>2, ReadsPhase, ReadsOnlyFollow
<1>7. ASSUME NEW s \in Scorers, LoadResend(h, s)
      PROVE  FollowsAt(h)
  <2> DEFINE c == [Idle EXCEPT !.op = "resend", !.scorer = s, !.seen = relation[s],
                               !.credential = account[s].state]
  <2>1. account[s].state \in AccountState /\ relation[s] \in RelationStatus
    BY DEF ScorerInv, TaskScorerTypeOK, Account
  <2>2. Reads(h, "found", c)
    BY <1>7 DEF LoadResend
  <2>3. c \in Call /\ c.seen = relation[c.scorer]
    BY <2>1, IdleType DEF Call, Idle
  <2> HIDE DEF c
  <2>4. /\ call'[h].phase = "found" /\ call'[h].seen = c.seen
        /\ call'[h].scorer = c.scorer
    BY <2>2, <2>3, ReadsPhase
  <2> QED
    BY <1>1, <2>3, <2>4, StuttersOK DEF FollowsAt, Promised, Fresh
<1> QED
  BY <1>2, <1>3, <1>4, <1>5, <1>6, <1>7

LEMMA InvitationWritesFollow ==
  ASSUME ScorerInv, FreshInv, NEW h \in Calls,
         \/ CommitInvite(h) \/ JoinTask(h) \/ RefreshRelation(h)
         \/ CreateInvitation(h) \/ UpdateInvitationMetadata(h)
  PROVE  FollowsAt(h)
<1>1. /\ call[h] \in Call /\ HandlerOK(call[h], invitation)
      /\ relation \in [Scorers -> RelationStatus]
  BY DEF ScorerInv, TaskScorerTypeOK
<1>2. CASE CommitInvite(h)
  <2>1. /\ call[h].phase = "found" /\ Finishes(h)
        /\ relation' = Asked(call[h].scorer, call[h].seen)
        /\ \E i \in InvitationId : IsFree(i) /\ Sent(i, call[h].scorer)
    BY <1>2 DEF CommitInvite
  <2>2. call[h].scorer \in Scorers /\ call'[h].phase \in {"idle", "settling"}
    BY <1>1, <2>1, FinishesMoves DEF HandlerOK, Named
  <2>3. StaleStep \/ call[h].seen = relation[call[h].scorer]
    BY <2>1, <2>2, KnowsRelation
  <2> QED
    BY <2>1, <2>2, <2>3, AskedIsPromised DEF FollowsAt, Promised, Fresh
<1>3. CASE JoinTask(h) \/ RefreshRelation(h)
  <2> DEFINE c == [call[h] EXCEPT !.seen = Believed(call[h].seen)]
  <2>1. /\ call[h].phase \in {"found", "created"}
        /\ relation' = Asked(call[h].scorer, call[h].seen)
        /\ invitation' = invitation
    BY <1>3 DEF JoinTask, RefreshRelation
  <2>2. PICK p \in {"joined", "mailed", "mailing"} : Reads(h, p, c)
    BY <1>3 DEF JoinTask, RefreshRelation
  <2>3. c \in Call /\ c.scorer = call[h].scorer /\ c.seen = Believed(call[h].seen)
    BY <1>1 DEF Call, RelationStatus, Believed
  <2> HIDE DEF c
  <2>4. /\ call'[h].phase = p /\ call'[h].seen = Believed(call[h].seen)
        /\ call'[h].scorer = call[h].scorer
    BY <2>2, <2>3, ReadsPhase
  <2>5. call[h].scorer \in Scorers
    BY <1>1, <2>1 DEF HandlerOK, Named
  <2>6. StaleStep \/ call[h].seen = relation[call[h].scorer]
    BY <2>1, <2>4, KnowsRelation
  <2>7. Promised
    BY <2>1, <2>5, <2>6, AskedIsPromised DEF Promised
  <2>8. Fresh(h)' \/ overlap
    <3>1. ~ overlap => call[h].seen = relation[call[h].scorer]
      BY <2>1 DEF FreshInv, Fresh
    <3> QED
      BY <1>1, <2>1, <2>4, <2>5, <3>1 DEF Fresh, Asked, Believed
  <2> QED
    BY <2>7, <2>8 DEF FollowsAt
<1>4. CASE CreateInvitation(h)
  <2>1. PICK i \in InvitationId :
          /\ IsFree(i) /\ Sent(i, call[h].scorer)
          /\ Reads(h, IF call[h].op = "resend" THEN "created" ELSE "mailed",
                   [call[h] EXCEPT !.letter = i, !.seenLetter = "sent"])
    BY <1>4 DEF CreateInvitation
  <2> DEFINE c == [call[h] EXCEPT !.letter = i, !.seenLetter = "sent"]
             p == IF call[h].op = "resend" THEN "created" ELSE "mailed"
  <2>2. /\ call[h].phase \in {"joined", "found", "rotated"}
        /\ call[h].phase = "found" => call[h].op = "resend"
        /\ relation' = relation
    BY <1>4 DEF CreateInvitation
  <2>3. call[h].scorer \in Scorers /\ call[h].seen \in {"pending", "accepted"}
    BY <1>1, <2>2 DEF HandlerOK, Named, Believing
  <2>4. i \in 0..MaxInvitations
    BY TaskScorerAssumption DEF InvitationId
  <2>5. c \in Call /\ c.scorer = call[h].scorer /\ c.seen = call[h].seen
    BY ZenonT(30), <1>1, <2>4 DEF Call, InvitationStatus
  <2>6. Reads(h, p, c) /\ p \in {"created", "mailed"}
    BY <2>1
  <2> HIDE DEF c, p
  <2>7. /\ call'[h].phase = p /\ call'[h].seen = call[h].seen
        /\ call'[h].scorer = call[h].scorer
    BY <2>5, <2>6, ReadsPhase
  <2>8. StaleStep \/ call[h].seen = relation[call[h].scorer]
    BY <2>2, <2>6, <2>7, KnowsRelation
  <2>9. Promised
    BY <2>1, <2>2, <2>3, <2>8, SendIsPromised DEF Promised
  <2> QED
    BY <2>2, <2>6, <2>7, <2>9 DEF FollowsAt, FreshInv, Fresh
<1>5. CASE UpdateInvitationMetadata(h)
  <2>1. /\ invitation' = [invitation EXCEPT ![call[h].letter].read = FALSE]
        /\ relation' = relation
        /\ Reads(h, "marking", call[h]) \/ Finishes(h)
    BY <1>5 DEF UpdateInvitationMetadata
  <2>2. call'[h].phase \in {"marking", "idle", "settling"}
    BY <1>1, <2>1, FinishesMoves, ReadsPhase
  <2>3. UNCHANGED Promise!lifecycleVars
    BY <2>1, StuttersOK DEF ScorerInv, TaskScorerTypeOK, Invitation
  <2> QED
    BY <2>2, <2>3 DEF FollowsAt, Promised, Fresh
<1> QED
  BY <1>2, <1>3, <1>4, <1>5


LEMMA LapseIsPromised ==
  ASSUME ScorerInv, NEW i \in InvitationId,
         invitation[i].status \notin {"none", "cancelled"},
         invitation' = [invitation EXCEPT ![i].status = "expired"],
         relation' = relation
  PROVE  Promise!Next
<1>1. invitation \in [InvitationId -> Invitation]
  BY DEF ScorerInv, TaskScorerTypeOK
<1>2. \A j \in InvitationId :
        /\ invitation'[j].scorer = invitation[j].scorer
        /\ invitation'[j].status = IF j = i THEN "expired" ELSE invitation[j].status
        /\ invitation'[j].responded = invitation[j].responded
  BY <1>1 DEF Invitation
<1>3. Letters' = [Letters EXCEPT ![i].status = "expired"]
  BY <1>2 DEF Letters
<1>4. invitation[i].status \in {"sent", "accepted", "expired"}
  BY <1>1 DEF Invitation, InvitationStatus
<1>5. Promise!Lapse(i)
  BY <1>3, <1>4 DEF Letters, Promise!Lapse
<1> QED
  BY <1>5 DEF Promise!Next

LEMMA AnswerIsPromised ==
  ASSUME ScorerInv, NEW i \in InvitationId, invitation[i].status = "sent",
         relation[invitation[i].scorer] = "pending",
         invitation' = [invitation EXCEPT ![i].status = "accepted",
                                          ![i].responded = TRUE, ![i].read = TRUE],
         relation' = relation
  PROVE  Promise!Next /\ invitation'[i].status = "accepted"
<1>1. invitation \in [InvitationId -> Invitation]
  BY DEF ScorerInv, TaskScorerTypeOK
<1>2. /\ \A j \in InvitationId : j # i => invitation'[j] = invitation[j]
      /\ invitation'[i].scorer = invitation[i].scorer
      /\ invitation'[i].status = "accepted" /\ invitation'[i].responded = TRUE
  BY <1>1 DEF Invitation
<1>3. Letters' = [Letters EXCEPT ![i] =
        [to |-> invitation[i].scorer, status |-> "accepted", answered |-> TRUE]]
  BY <1>2 DEF Letters
<1>4. Promise!Answer(i)
  BY <1>3 DEF Letters, Promise!Answer
<1> QED
  BY <1>2, <1>4 DEF Promise!Next

LEMMA JoinIsPromised ==
  ASSUME ScorerInv, NEW s \in Scorers, relation[s] = "pending",
         NEW i \in InvitationId, invitation[i].scorer = s, invitation[i].responded,
         SetStatus(s, "accepted"), invitation' = invitation
  PROVE  Promise!Next
<1>1. Promise!Join(s)
  BY DEF SetStatus, Promise!Join
<1> QED
  BY <1>1 DEF Promise!Next

LEMMA LeaveIsPromised ==
  ASSUME ScorerInv, NEW s \in Scorers, relation[s] # "none",
         SetStatus(s, "inactive"), invitation' = invitation
  PROVE  Promise!Next
<1>1. Promise!Leave(s)
  BY DEF SetStatus, Promise!Leave
<1> QED
  BY <1>1 DEF Promise!Next

LEMMA WithdrawIsPromised ==
  ASSUME ScorerInv, NEW s \in Scorers, relation[s] = "pending",
         invitation' =
           [i \in InvitationId |->
              IF invitation[i].scorer = s /\ invitation[i].status = "sent"
              THEN [invitation[i] EXCEPT !.status = "cancelled"] ELSE invitation[i]],
         relation' = relation
  PROVE  Promise!Next
<1>1. \A i \in InvitationId :
        IF invitation[i].scorer = s /\ invitation[i].status = "sent"
        THEN /\ invitation'[i].scorer = invitation[i].scorer
             /\ invitation'[i].status = "cancelled"
             /\ invitation'[i].responded = invitation[i].responded
        ELSE invitation'[i] = invitation[i]
  BY DEF ScorerInv, TaskScorerTypeOK, Invitation
<1>2. Letters' = [i \in InvitationId |->
                    IF Letters[i].to = s /\ Letters[i].status = "sent"
                    THEN [Letters[i] EXCEPT !.status = "cancelled"] ELSE Letters[i]]
  BY <1>1 DEF Letters
<1>3. Promise!Withdraw(s)
  BY <1>2 DEF Letters, Promise!Withdraw
<1> QED
  BY <1>3 DEF Promise!Next

LEMMA AnswersFollow ==
  ASSUME ScorerInv, FreshInv, NEW h \in Calls, AnswerStep(h)
  PROVE  FollowsAt(h)
<1>1. /\ call[h] \in Call /\ HandlerOK(call[h], invitation)
      /\ call[h].phase \in {"loaded", "answering", "answered"} =>
           /\ call[h].letter \in InvitationId /\ call[h].scorer \in Scorers
           /\ invitation[call[h].letter].scorer = call[h].scorer
           /\ call[h].seenLetter \notin {"none", "cancelled"}
  BY DEF ScorerInv, TaskScorerTypeOK, HandlerOK, Answering, Named
<1>2. ASSUME NEW i \in InvitationId, LoadInvitation(h, i)
      PROVE  FollowsAt(h)
  <2> DEFINE c == [Idle EXCEPT !.op = "accept", !.letter = i,
                               !.scorer = invitation[i].scorer,
                               !.seenLetter = invitation[i].status,
                               !.seen = relation[invitation[i].scorer]]
  <2>1. /\ Reads(h, "loaded", c) /\ invitation[i].status # "none"
        /\ UNCHANGED <<relation, invitation>>
    BY <1>2 DEF LoadInvitation, LoadAnyInvitation
  <2>2. /\ invitation[i] \in Invitation /\ invitation[i].scorer \in Scorers
        /\ i \in 0..MaxInvitations
    BY <2>1, TaskScorerAssumption
    DEF ScorerInv, TaskScorerTypeOK, LettersOK, InvitationId
  <2>3. relation[invitation[i].scorer] \in RelationStatus
    BY <2>2 DEF ScorerInv, TaskScorerTypeOK
  <2>4. invitation[i].status \in InvitationStatus
    BY <2>2 DEF Invitation
  <2>5. c \in Call /\ c.letter = i /\ c.seenLetter = invitation[i].status
    BY <2>2, <2>3, <2>4, IdleType DEF Call, Idle
  <2> HIDE DEF c
  <2> QED
    BY <2>1, <2>5, ReadsPhase, StuttersOK DEF FollowsAt, Promised, Fresh
<1>3. CASE RefuseExpired(h)
  <2>1. /\ call[h].phase = "loaded" /\ Finishes(h) /\ relation' = relation
        /\ invitation' = [invitation EXCEPT ![call[h].letter].status = "expired"]
    BY <1>3 DEF RefuseExpired
  <2>2. call'[h].phase \in {"idle", "settling"}
    BY <2>1, FinishesMoves
  <2>3. StaleStep \/ call[h].seenLetter = invitation[call[h].letter].status
    BY <2>1, <2>2, KnowsLetter
  <2>4. Promised
    BY <1>1, <2>1, <2>3, LapseIsPromised DEF Promised
  <2> QED
    BY <2>2, <2>4 DEF FollowsAt, Fresh
<1>4. CASE FindRelation(h)
  <2> DEFINE c == [call[h] EXCEPT !.seen = relation[call[h].scorer]]
  <2>1. /\ call[h].phase = "loaded" /\ UNCHANGED <<relation, invitation>>
        /\ Finishes(h) \/ Reads(h, "answering", c)
    BY <1>4 DEF FindRelation
  <2>2. CASE Finishes(h)
    BY <2>1, <2>2, FinishesMoves, ReadsOnlyFollow
  <2>3. CASE Reads(h, "answering", c)
    <3>1. relation[call[h].scorer] \in RelationStatus
      BY <1>1, <2>1 DEF ScorerInv, TaskScorerTypeOK
    <3>2. /\ c \in Call /\ c.scorer = call[h].scorer /\ c.letter = call[h].letter
          /\ c.seen = relation[call[h].scorer] /\ c.seenLetter = call[h].seenLetter
      BY <1>1, <3>1 DEF Call
    <3> HIDE DEF c
    <3> QED
      BY <2>1, <2>3, <3>2, ReadsPhase, StuttersOK DEF FollowsAt, Promised, Fresh, FreshInv
  <2> QED
    BY <2>1, <2>2, <2>3
<1>5. CASE AnswerInvitation(h)
  <2> DEFINE c == [call[h] EXCEPT !.seenLetter = "accepted"]
             i == call[h].letter
  <2>1. /\ call[h].phase = "answering" /\ relation' = relation
        /\ invitation' = [invitation EXCEPT ![i].status = "accepted",
                                            ![i].responded = TRUE, ![i].read = TRUE]
        /\ Reads(h, "answered", c)
    BY <1>5 DEF AnswerInvitation
  <2>2. call[h].seen = "pending" /\ call[h].seenLetter = "sent"
    BY <1>1, <2>1 DEF HandlerOK, Believing, Answering
  <2>3. /\ c \in Call /\ c.scorer = call[h].scorer /\ c.letter = call[h].letter
        /\ c.seen = call[h].seen /\ c.seenLetter = "accepted"
    BY <1>1 DEF Call, InvitationStatus
  <2> HIDE DEF c
  <2>4. /\ call'[h].phase = "answered" /\ call'[h].seenLetter = "accepted"
        /\ call'[h].scorer = call[h].scorer /\ call'[h].letter = i
        /\ call'[h].seen = call[h].seen
    BY <2>1, <2>3, ReadsPhase
  <2>5. /\ StaleStep \/ call[h].seen = relation[call[h].scorer]
        /\ StaleStep \/ call[h].seenLetter = invitation[i].status
    BY <2>1, <2>4, KnowsRelation, KnowsLetter
  <2>6. Promised
    BY <1>1, <2>1, <2>2, <2>5, AnswerIsPromised DEF Promised
  <2>7. invitation'[i].status = "accepted"
    BY <1>1, <2>1 DEF ScorerInv, TaskScorerTypeOK, Invitation
  <2> QED
    BY <2>1, <2>4, <2>6, <2>7 DEF FollowsAt, FreshInv, Fresh
<1>6. CASE AcceptRelation(h)
  <2>1. /\ call[h].phase = "answered" /\ SetStatus(call[h].scorer, "accepted")
        /\ Finishes(h) /\ invitation' = invitation
    BY <1>6 DEF AcceptRelation
  <2>2. call'[h].phase \in {"idle", "settling"}
    BY <2>1, FinishesMoves
  <2>3. StaleStep \/ call[h].seen = relation[call[h].scorer]
    BY <2>1, <2>2, KnowsRelation
  <2>4. call[h].seen = "pending" /\ invitation[call[h].letter].responded
    BY <1>1, <2>1 DEF HandlerOK, Believing, Answering
  <2>5. Promised
    BY <1>1, <2>1, <2>3, <2>4, JoinIsPromised DEF Promised
  <2> QED
    BY <2>2, <2>5 DEF FollowsAt, Fresh
<1> QED
  BY <1>2, <1>3, <1>4, <1>5, <1>6 DEF AnswerStep


LEMMA ReassignmentsFollow ==
  ASSUME ScorerInv, FreshInv, NEW h \in Calls, ReassignStep(h) \/ CallFails(h)
  PROVE  FollowsAt(h)
<1>1. /\ call[h] \in Call /\ HandlerOK(call[h], invitation)
      /\ call[h].phase \in {"counted", "withdrawing", "withdrawn"} =>
           call[h].scorer \in Scorers
  BY DEF ScorerInv, TaskScorerTypeOK, HandlerOK, Named
<1>2. CASE ReassignmentEnds(h) \/ CallFails(h)
  <2>1. call'[h].phase = "idle" /\ UNCHANGED <<relation, invitation>>
    BY <1>2 DEF ReassignmentEnds, CallFails, Idle, ScorerInv, TaskScorerTypeOK
  <2> QED
    BY <2>1, ReadsOnlyFollow
<1>3. CASE AssignScorers(h)
  <2>1. UNCHANGED <<relation, invitation>>
    BY <1>3 DEF AssignScorers
  <2>2. call'[h].phase = "settling"
    BY <1>3 DEF AssignScorers, Reads, Idle, ScorerInv, TaskScorerTypeOK
  <2> QED
    BY <2>1, <2>2, ReadsOnlyFollow
<1>4. CASE \E s \in Scorers : EnsureNotification(h, s) \/ CountRemaining(h, s)
  <2>1. UNCHANGED <<relation, invitation>> /\ call[h].phase = "settling"
    BY <1>4 DEF EnsureNotification, CountRemaining
  <2>2. PICK s \in Scorers :
          \/ call' = [call EXCEPT ![h].toNotify = call[h].toNotify \ {s}]
          \/ call' = [call EXCEPT ![h].sources = call[h].sources \ {s}]
          \/ \E p \in {"account", "counted"} : Reads(h, p, [call[h] EXCEPT !.scorer = s])
    BY <1>4 DEF EnsureNotification, CountRemaining
  <2>3. [call[h] EXCEPT !.scorer = s] \in Call
    BY <1>1 DEF Call
  <2>4. CASE \E p \in {"account", "counted"} : Reads(h, p, [call[h] EXCEPT !.scorer = s])
    BY <2>1, <2>3, <2>4, ReadsPhase, ReadsOnlyFollow
  <2>5. CASE \/ call' = [call EXCEPT ![h].toNotify = call[h].toNotify \ {s}]
             \/ call' = [call EXCEPT ![h].sources = call[h].sources \ {s}]
    <3>1. call'[h].phase = "settling"
      BY <1>1, <2>1, <2>5 DEF ScorerInv, TaskScorerTypeOK, Call
    <3> QED
      BY <2>1, <3>1, ReadsOnlyFollow
  <2> QED
    BY <2>2, <2>4, <2>5
<1>5. CASE FindPendingRelation(h)
  <2> DEFINE c == [call[h] EXCEPT !.seen = "pending"]
  <2>1. /\ call[h].phase = "counted" /\ UNCHANGED <<relation, invitation>>
        /\ \/ relation[call[h].scorer] = "pending" /\ Reads(h, "withdrawing", c)
           \/ Finishes(h)
    BY <1>5 DEF FindPendingRelation
  <2>2. CASE Finishes(h)
    BY <2>1, <2>2, FinishesMoves, ReadsOnlyFollow
  <2>3. CASE relation[call[h].scorer] = "pending" /\ Reads(h, "withdrawing", c)
    <3>1. c \in Call /\ c.scorer = call[h].scorer /\ c.seen = "pending"
      BY <1>1 DEF Call, RelationStatus
    <3> HIDE DEF c
    <3> QED
      BY <2>1, <2>3, <3>1, ReadsPhase, StuttersOK DEF FollowsAt, Promised, Fresh
  <2> QED
    BY <2>1, <2>2, <2>3
<1>6. CASE CancelSentInvitations(h)
  <2>1. /\ call[h].phase = "withdrawing" /\ relation' = relation
        /\ invitation' =
             [i \in InvitationId |->
                IF /\ invitation[i].scorer = call[h].scorer
                   /\ invitation[i].status = "sent"
                THEN [invitation[i] EXCEPT !.status = "cancelled"] ELSE invitation[i]]
        /\ Reads(h, "withdrawn", call[h])
    BY <1>6 DEF CancelSentInvitations
  <2>2. /\ call'[h].phase = "withdrawn" /\ call'[h].seen = call[h].seen
        /\ call'[h].scorer = call[h].scorer
    BY <1>1, <2>1, ReadsPhase
  <2>3. StaleStep \/ call[h].seen = relation[call[h].scorer]
    BY <2>1, <2>2, KnowsRelation
  <2>4. call[h].seen = "pending"
    BY <1>1, <2>1 DEF HandlerOK, Believing
  <2>5. Promised
    BY <1>1, <2>1, <2>3, <2>4, WithdrawIsPromised DEF Promised
  <2> QED
    BY <2>1, <2>2, <2>5 DEF FollowsAt, FreshInv, Fresh
<1>7. CASE ExpireRelation(h)
  <2>1. /\ call[h].phase = "withdrawn" /\ SetStatus(call[h].scorer, "inactive")
        /\ Finishes(h) /\ invitation' = invitation
    BY <1>7 DEF ExpireRelation
  <2>2. call'[h].phase \in {"idle", "settling"}
    BY <2>1, FinishesMoves
  <2>3. StaleStep \/ call[h].seen = relation[call[h].scorer]
    BY <2>1, <2>2, KnowsRelation
  <2>4. call[h].seen = "pending"
    BY <1>1, <2>1 DEF HandlerOK, Believing
  <2>5. Promised
    BY <1>1, <2>1, <2>3, <2>4, LeaveIsPromised DEF Promised
  <2> QED
    BY <2>2, <2>5 DEF FollowsAt, Fresh
<1> QED
  BY <1>2, <1>3, <1>4, <1>5, <1>6, <1>7 DEF ReassignStep

LEMMA HandlersFollow ==
  ASSUME ScorerInv, FreshInv, NEW h \in Calls, HandlerStep(h)
  PROVE  Promised /\ FreshInv'
<1>1. FollowsAt(h)
  BY InvitationReadsFollow, InvitationWritesFollow, AnswersFollow, ReassignmentsFollow
  DEF HandlerStep, InvitationStep
<1>2. overlap' = overlap /\ \A g \in Calls : g # h => call'[g] = call[g]
  BY HandlerStepOK DEF StepOK, Moves, RestOK
<1>3. ASSUME ~ overlap
      PROVE  FreshInv'
  <2>1. \A g \in Calls : g # h => call'[g].phase = "idle"
    BY <1>2, <1>3, Alone
  <2> QED
    BY <1>1, <1>3, <2>1 DEF FollowsAt, FreshInv, Fresh
<1> QED
  BY <1>1, <1>2, <1>3 DEF FollowsAt, FreshInv

LEMMA StepFollows ==
  ASSUME ScorerInv, FreshInv, [TaskScorerNext]_scorerVars
  PROVE  Promised /\ FreshInv'
<1>1. CASE \E h \in Calls : HandlerStep(h)
  BY <1>1, HandlersFollow
<1>2. ASSUME NEW s \in Scorers, Remove(s)
      PROVE  Promised /\ FreshInv'
  <2>1. Promise!Next
    BY <1>2, LeaveIsPromised DEF Remove
  <2>2. UNCHANGED <<call, overlap>> /\ (~ overlap => \A g \in Calls : call[g].phase = "idle")
    BY <1>2 DEF Remove, MayAct
  <2> QED
    BY <2>1, <2>2 DEF Promised, FreshInv, Fresh
<1>3. ASSUME NEW i \in InvitationId, MarkMineRead(i)
      PROVE  Promised /\ FreshInv'
  <2>1. UNCHANGED Promise!lifecycleVars
    BY <1>3, StuttersOK DEF MarkMineRead, ScorerInv, TaskScorerTypeOK, Invitation
  <2>2. UNCHANGED <<call, overlap>> /\ (~ overlap => \A g \in Calls : call[g].phase = "idle")
    BY <1>3 DEF MarkMineRead, MayAct
  <2> QED
    BY <2>1, <2>2 DEF Promised, FreshInv, Fresh
<1>4. CASE UNCHANGED scorerVars
  BY <1>4, StuttersOK DEF scorerVars, Promised, FreshInv, Fresh
<1> QED
  BY <1>1, <1>2, <1>3, <1>4 DEF TaskScorerNext, HandlerStep

\* Relations and invitations follow InvitationLifecycle, but for the steps of a handler
\* that overlaps with another and acts on what it has made stale.
THEOREM RelationsFollowLifecycle == TaskScorerSpec => LifecycleUnlessStale
<1>1. TaskScorerInit => Promise!Init /\ FreshInv
  BY DEF TaskScorerInit, Promise!Init, NoInvitation, FreshInv, Fresh, Idle
<1>2. ScorerInv /\ FreshInv /\ [TaskScorerNext]_scorerVars
        => FreshInv' /\ [Promise!Next \/ StaleStep]_(Promise!lifecycleVars)
  BY StepFollows DEF Promised
<1> QED
  BY <1>1, <1>2, ScorerInvariance, PTL DEF TaskScorerSpec, LifecycleUnlessStale
-----------------------------------------------------------------------------
(***************************************************************************)
(* Passwords, one handler at a time.                                       *)
(***************************************************************************)

LEMMA FinishesFields ==
  ASSUME ScorerInv, NEW h \in Calls, Finishes(h)
  PROVE  \/ call[h].op # "reassign" /\ call'[h].phase = "idle"
            /\ call'[h].password = 0
         \/ /\ call[h].op = "reassign" /\ call'[h].op = "reassign"
            /\ call'[h].phase = "settling" /\ call'[h].password = 0
            /\ call'[h].targets = call[h].targets
            /\ call'[h].toNotify = call[h].toNotify \ {call[h].scorer}
            /\ call'[h].sources = IF call[h].toNotify = {}
                                  THEN call[h].sources \ {call[h].scorer}
                                  ELSE call[h].sources
<1>1. call \in [Calls -> Call]
  BY DEF ScorerInv, TaskScorerTypeOK
<1> QED
  BY <1>1 DEF Finishes, Idle

\* The password a resend has made is the current one, and told when its mail was sent.
PasswordAtHand(h) ==
  LET c == call[h] IN
  /\ c.phase \notin {"rotated", "created", "mailing", "mailed", "marking"} =>
       c.password = 0
  /\ c.phase \in {"rotated", "created"} => c.op = "resend"
  /\ c.password # 0 =>
       /\ account[c.scorer].password = c.password
       /\ c.phase \in {"mailed", "marking"} => c.password \in known[c.scorer]
  /\ c.phase = "marking" => c.password # 0

PasswordsInv == ~ overlap => \A h \in Calls : PasswordAtHand(h)

LEMMA PasswordsStay ==
  ASSUME DeliveredPasswordsWork, NEW h \in Calls, UNCHANGED <<account, known, overlap>>,
         call'[h].password = 0,
         call'[h].phase \notin {"rotated", "created", "marking"}
  PROVE  PasswordAtHand(h)' /\ DeliveredPasswordsWork'
BY DEF PasswordAtHand, DeliveredPasswordsWork

\* What a handler keeps when it reads a status or turns to a scorer.
LEMMA SeenKeeps ==
  ASSUME NEW c \in Call, NEW seen \in RelationStatus
  PROVE  LET d == [c EXCEPT !.seen = seen] IN
         /\ d \in Call /\ d.seen = seen
         /\ d.op = c.op /\ d.scorer = c.scorer /\ d.password = c.password
         /\ d.targets = c.targets /\ d.toNotify = c.toNotify /\ d.sources = c.sources
BY DEF Call

LEMMA TurningKeeps ==
  ASSUME NEW c \in Call, NEW s \in Scorers
  PROVE  LET d == [c EXCEPT !.scorer = s] IN
         /\ d \in Call /\ d.scorer = s
         /\ d.op = c.op /\ d.password = c.password
         /\ d.targets = c.targets /\ d.toNotify = c.toNotify /\ d.sources = c.sources
BY DEF Call

LEMMA AnsweredKeeps ==
  ASSUME NEW c \in Call
  PROVE  LET d == [c EXCEPT !.seenLetter = "accepted"] IN
         d \in Call /\ d.op = c.op /\ d.password = c.password
BY DEF Call, InvitationStatus

LEMMA AssignScorersStarts ==
  ASSUME ScorerInv, NEW h \in Calls, AssignScorers(h)
  PROVE  \E targets \in SUBSET Scorers, sources \in SUBSET (Scorers \cup {NoScorer}) :
           /\ Reads(h, "settling", [Idle EXCEPT !.op = "reassign", !.targets = targets,
                                     !.toNotify = targets, !.sources = sources])
           /\ targets \cap sources = {}
<1>1. PICK moved \in (SUBSET Videos) \ {{}},
           targets \in (SUBSET {s \in Scorers : account[s].state = "ready"}) \ {{}} :
        Reads(h, "settling",
              [Idle EXCEPT !.op = "reassign", !.targets = targets, !.toNotify = targets,
                 !.sources = {holder[v] : v \in moved} \ (targets \cup {NoScorer})])
  BY DEF AssignScorers
<1> DEFINE left == {holder[v] : v \in moved} \ (targets \cup {NoScorer})
<1>2. /\ targets \in SUBSET Scorers /\ left \in SUBSET (Scorers \cup {NoScorer})
      /\ targets \cap left = {}
  BY DEF ScorerInv, TaskScorerTypeOK
<1> QED
  BY <1>1, <1>2

\* Handlers that start.
LEMMA StartsClean ==
  ASSUME ScorerInv, NEW h \in Calls,
         \/ \E i \in InvitationId : LoadInvitation(h, i)
         \/ AssignScorers(h)
         \/ \E s \in Scorers :
              FindOrCreateScorer(h, s) \/ FindExistingScorer(h, s) \/ LoadResend(h, s)
  PROVE  /\ call'[h].password = 0
         /\ call'[h].phase \in {"loaded", "settling", "account", "found"}
         /\ call'[h].op = "reassign" \/ call'[h].phase = "settling" => AssignScorers(h)
<1>1. call \in [Calls -> Call]
  BY DEF ScorerInv, TaskScorerTypeOK
<1>2. ASSUME NEW i \in InvitationId, LoadInvitation(h, i)
      PROVE  /\ call'[h].password = 0 /\ call'[h].phase = "loaded"
             /\ call'[h].op = "accept"
  BY <1>1, <1>2 DEF LoadInvitation, LoadAnyInvitation, Reads, Idle
<1>3. ASSUME AssignScorers(h)
      PROVE  call'[h].password = 0 /\ call'[h].phase = "settling"
  <2>1. PICK targets \in SUBSET Scorers, sources \in SUBSET (Scorers \cup {NoScorer}) :
          Reads(h, "settling", [Idle EXCEPT !.op = "reassign", !.targets = targets,
                                  !.toNotify = targets, !.sources = sources])
    BY <1>3, AssignScorersStarts
  <2> QED
    BY <1>1, <2>1 DEF Reads, Idle
<1>4. ASSUME NEW s \in Scorers, FindOrCreateScorer(h, s)
      PROVE  /\ call'[h].password = 0 /\ call'[h].phase = "account"
             /\ call'[h].op \in {"provision", "invite"}
  BY ZenonT(30), <1>1, <1>4 DEF FindOrCreateScorer, Reads, Idle
<1>5. ASSUME NEW s \in Scorers, FindExistingScorer(h, s)
      PROVE  /\ call'[h].password = 0 /\ call'[h].phase = "account"
             /\ call'[h].op = "notify"
  BY <1>1, <1>5 DEF FindExistingScorer, Reads, Idle
<1>6. ASSUME NEW s \in Scorers, LoadResend(h, s)
      PROVE  /\ call'[h].password = 0 /\ call'[h].phase = "found"
             /\ call'[h].op = "resend"
  BY <1>1, <1>6 DEF LoadResend, Reads, Idle
<1> QED
  BY <1>2, <1>3, <1>4, <1>5, <1>6

Clean(h) ==
  /\ call'[h].password = 0
  /\ call'[h].phase \notin {"rotated", "created", "marking"}

\* Steps with no password at hand, before and after.
LEMMA OtherStepsClean ==
  ASSUME ScorerInv, NEW h \in Calls, PasswordAtHand(h),
         \/ AnswerStep(h) \/ ReassignStep(h) \/ CallFails(h)
         \/ FindTaskScorer(h) \/ JoinTask(h)
         \/ \E s \in Scorers :
              FindOrCreateScorer(h, s) \/ FindExistingScorer(h, s) \/ LoadResend(h, s)
  PROVE  Clean(h) /\ UNCHANGED <<account, known, overlap>>
<1>1. /\ call \in [Calls -> Call] /\ call[h] \in Call
      /\ call[h].phase \notin {"idle", "settling"} => call[h].scorer \in Scorers
      /\ \A s \in Scorers : relation[s] \in RelationStatus
  BY DEF ScorerInv, TaskScorerTypeOK, HandlerOK, Named
<1> SUFFICES Clean(h)
  BY DEF AnswerStep, ReassignStep, CallFails, FindTaskScorer, JoinTask,
         FindOrCreateScorer, FindExistingScorer, LoadResend, LoadInvitation,
         LoadAnyInvitation, RefuseExpired, FindRelation, AnswerInvitation,
         AcceptRelation, AssignScorers, FindPendingRelation, CancelSentInvitations,
         ExpireRelation, ReassignmentEnds, EnsureNotification, CountRemaining
<1>2. call[h].phase \in {"account", "found", "loaded", "answering", "answered",
                         "settling", "counted", "withdrawing", "withdrawn"} =>
        call[h].password = 0
  BY DEF PasswordAtHand
<1>3. ASSUME Finishes(h)
      PROVE  Clean(h)
  BY <1>3, FinishesFields DEF Clean
<1>4. ASSUME NEW p \in Phase \ {"rotated", "created", "marking"}, NEW c \in Call,
             c.password = 0, Reads(h, p, c)
      PROVE  Clean(h)
  BY <1>4, ReadsPhase DEF Clean
<1>5. ASSUME NEW p \in Phase \ {"rotated", "created", "marking"},
             NEW seen \in RelationStatus, call[h].password = 0,
             Reads(h, p, [call[h] EXCEPT !.seen = seen])
      PROVE  Clean(h)
  BY <1>1, <1>4, <1>5, SeenKeeps
<1>6. CASE FindTaskScorer(h)
  <2>1. /\ call[h].phase = "account"
        /\ Reads(h, "found", [call[h] EXCEPT !.seen = relation[call[h].scorer]])
    BY <1>6 DEF FindTaskScorer
  <2> QED
    BY <1>1, <1>2, <1>5, <2>1 DEF Phase
<1>7. CASE JoinTask(h)
  <2>1. /\ call[h].phase = "found"
        /\ Reads(h, "joined", [call[h] EXCEPT !.seen = Believed(call[h].seen)])
    BY <1>7 DEF JoinTask
  <2>2. Believed(call[h].seen) \in RelationStatus
    BY DEF Believed, RelationStatus
  <2> QED
    BY <1>1, <1>2, <1>5, <2>1, <2>2 DEF Phase
<1>8. CASE AnswerStep(h)
  <2>1. CASE \E i \in InvitationId : LoadInvitation(h, i)
    BY <2>1, StartsClean DEF Clean
  <2>2. CASE RefuseExpired(h) \/ AcceptRelation(h)
    BY <1>3, <2>2 DEF RefuseExpired, AcceptRelation
  <2>3. CASE FindRelation(h)
    <3>1. /\ call[h].phase = "loaded"
          /\ \/ Finishes(h)
             \/ Reads(h, "answering", [call[h] EXCEPT !.seen = relation[call[h].scorer]])
      BY <2>3 DEF FindRelation
    <3> QED
      BY <1>1, <1>2, <1>3, <1>5, <3>1 DEF Phase
  <2>4. CASE AnswerInvitation(h)
    <3>1. /\ call[h].phase = "answering"
          /\ Reads(h, "answered", [call[h] EXCEPT !.seenLetter = "accepted"])
      BY <2>4 DEF AnswerInvitation
    <3> QED
      BY <1>1, <1>2, <1>4, <3>1, AnsweredKeeps DEF Phase
  <2> QED
    BY <1>8, <2>1, <2>2, <2>3, <2>4 DEF AnswerStep
<1>9. CASE ReassignStep(h) \/ CallFails(h)
  <2>1. CASE AssignScorers(h)
    BY <2>1, StartsClean DEF Clean
  <2>2. CASE ReassignmentEnds(h) \/ CallFails(h)
    BY <1>1, <2>2 DEF ReassignmentEnds, CallFails, Idle, Clean
  <2>3. CASE FindPendingRelation(h)
    <3>1. /\ call[h].phase = "counted"
          /\ \/ Finishes(h)
             \/ Reads(h, "withdrawing", [call[h] EXCEPT !.seen = "pending"])
      BY <2>3 DEF FindPendingRelation
    <3> QED
      BY <1>2, <1>3, <1>5, <3>1 DEF Phase, RelationStatus
  <2>4. CASE CancelSentInvitations(h)
    BY <1>1, <1>2, <1>4, <2>4 DEF CancelSentInvitations, Phase
  <2>5. CASE ExpireRelation(h)
    BY <1>3, <2>5 DEF ExpireRelation
  <2>6. ASSUME NEW s \in Scorers, EnsureNotification(h, s) \/ CountRemaining(h, s)
        PROVE  Clean(h)
    <3>1. call[h].password = 0 /\ call[h].phase = "settling"
      BY <1>2, <2>6 DEF EnsureNotification, CountRemaining
    <3>2. CASE \E p \in {"account", "counted"} :
                 Reads(h, p, [call[h] EXCEPT !.scorer = s])
      BY <1>1, <1>4, <3>1, <3>2, TurningKeeps DEF Phase
    <3>3. CASE \/ call' = [call EXCEPT ![h].toNotify = call[h].toNotify \ {s}]
               \/ call' = [call EXCEPT ![h].sources = call[h].sources \ {s}]
      BY <1>1, <3>1, <3>3 DEF Call, Clean
    <3> QED
      BY <2>6, <3>2, <3>3 DEF EnsureNotification, CountRemaining
  <2> QED
    BY <1>9, <2>1, <2>2, <2>3, <2>4, <2>5, <2>6 DEF ReassignStep
<1>10. CASE \E s \in Scorers :
              FindOrCreateScorer(h, s) \/ FindExistingScorer(h, s) \/ LoadResend(h, s)
  BY <1>10, StartsClean DEF Clean
<1> QED
  BY <1>6, <1>7, <1>8, <1>9, <1>10

LEMMA CommitPasswords ==
  ASSUME ScorerInv, DeliveredPasswordsWork, NEW h \in Calls, PasswordAtHand(h),
         CommitProvision(h) \/ CommitInvite(h)
  PROVE  PasswordAtHand(h)' /\ DeliveredPasswordsWork'
<1>1. Finishes(h) /\ CredentialMailed(h) /\ overlap' = overlap
  BY DEF CommitProvision, CommitInvite
<1>2. call'[h].phase \in {"idle", "settling"} /\ call'[h].password = 0
  BY <1>1, FinishesFields
<1>3. CASE call[h].credential = "ready"
  BY <1>1, <1>2, <1>3, PasswordsStay DEF CredentialMailed
<1>4. CASE call[h].credential # "ready"
  <2> DEFINE s == call[h].scorer
  <2>1. /\ account' = [account EXCEPT ![s] = [state |-> "ready",
                                              password |-> account[s].password + 1]]
        /\ known' = [known EXCEPT ![s] = known[s] \cup {account[s].password + 1}]
    BY <1>1, <1>4 DEF CredentialMailed
  <2>2. DeliveredPasswordsWork'
    BY <1>1, <2>1 DEF DeliveredPasswordsWork, ScorerInv, TaskScorerTypeOK
  <2> QED
    BY <1>2, <2>2 DEF PasswordAtHand
<1> QED
  BY <1>3, <1>4

LEMMA ResendPasswords ==
  ASSUME ScorerInv, DeliveredPasswordsWork, ~ overlap, NEW h \in Calls,
         PasswordAtHand(h),
         \/ RotateCredential(h) \/ CreateInvitation(h) \/ RefreshRelation(h)
         \/ SendInvitationEmail(h) \/ UpdateInvitationMetadata(h)
         \/ MarkCredentialDelivered(h)
  PROVE  PasswordAtHand(h)' /\ DeliveredPasswordsWork'
<1>1. /\ call \in [Calls -> Call] /\ call[h] \in Call /\ overlap' = overlap
      /\ account \in [Scorers -> Account] /\ known \in [Scorers -> SUBSET Password]
      /\ call[h].scorer \in Scorers
  BY DEF ScorerInv, TaskScorerTypeOK, HandlerOK, Named, RotateCredential,
         CreateInvitation, RefreshRelation, SendInvitationEmail,
         UpdateInvitationMetadata, MarkCredentialDelivered
<1>2. CASE RotateCredential(h)
  <2> DEFINE s == call[h].scorer
             c == [call[h] EXCEPT !.password = account[s].password + 1]
  <2>1. /\ call[h].op = "resend" /\ account[s].password < MaxPasswords
        /\ account' = [account EXCEPT ![s] = [state |-> "undelivered",
                                              password |-> account[s].password + 1]]
        /\ Reads(h, "rotated", c) /\ known' = known
    BY <1>2 DEF RotateCredential
  <2>2. account[s].password + 1 \in Password
    BY <1>1, <2>1, TaskScorerAssumption DEF Account, Password
  <2>3. /\ c \in Call /\ c.scorer = s /\ c.op = "resend"
        /\ c.password = account[s].password + 1
    BY <1>1, <2>1, <2>2 DEF Call
  <2> HIDE DEF c
  <2>4. /\ call'[h].phase = "rotated" /\ call'[h].scorer = s
        /\ call'[h].op = "resend" /\ call'[h].password = account[s].password + 1
    BY <2>1, <2>3, ReadsPhase
  <2>5. DeliveredPasswordsWork'
    BY <1>1, <2>1 DEF DeliveredPasswordsWork
  <2> QED
    BY <1>1, <2>1, <2>4, <2>5 DEF PasswordAtHand
<1>3. CASE CreateInvitation(h)
  <2>1. PICK i \in InvitationId :
          Reads(h, IF call[h].op = "resend" THEN "created" ELSE "mailed",
                [call[h] EXCEPT !.letter = i, !.seenLetter = "sent"])
    BY <1>3 DEF CreateInvitation
  <2> DEFINE c == [call[h] EXCEPT !.letter = i, !.seenLetter = "sent"]
             p == IF call[h].op = "resend" THEN "created" ELSE "mailed"
  <2>2. i \in 0..MaxInvitations
    BY TaskScorerAssumption DEF InvitationId
  <2>3. /\ c \in Call /\ c.scorer = call[h].scorer /\ c.op = call[h].op
        /\ c.password = call[h].password
    BY <1>1, <2>2 DEF Call, InvitationStatus
  <2>4. /\ Reads(h, p, c) /\ p \in {"created", "mailed"}
        /\ p = "created" => call[h].op = "resend"
        /\ p = "mailed" => call[h].phase # "rotated" /\ call[h].op # "resend"
    BY <1>3, <2>1 DEF PasswordAtHand
  <2> HIDE DEF c, p
  <2>5. /\ call'[h].phase = p /\ call'[h].scorer = call[h].scorer
        /\ call'[h].op = call[h].op /\ call'[h].password = call[h].password
    BY <2>3, <2>4, ReadsPhase
  <2>6. /\ call[h].phase \in {"joined", "found", "rotated"}
        /\ UNCHANGED <<account, known>>
    BY <1>3 DEF CreateInvitation
  <2>7. DeliveredPasswordsWork'
    BY <1>1, <2>6 DEF DeliveredPasswordsWork
  <2> QED
    BY <2>4, <2>5, <2>6, <2>7 DEF PasswordAtHand
<1>4. CASE RefreshRelation(h)
  <2> DEFINE c == [call[h] EXCEPT !.seen = Believed(call[h].seen)]
             p == IF call[h].password = 0 THEN "mailed" ELSE "mailing"
  <2>1. /\ call[h].phase = "created" /\ Reads(h, p, c)
        /\ UNCHANGED <<account, known>>
    BY <1>4 DEF RefreshRelation
  <2>2. /\ c \in Call /\ c.scorer = call[h].scorer /\ c.op = call[h].op
        /\ c.password = call[h].password
    BY <1>1 DEF Call, RelationStatus, Believed
  <2> HIDE DEF c
  <2>3. /\ call'[h].phase = p /\ call'[h].scorer = call[h].scorer
        /\ call'[h].op = call[h].op /\ call'[h].password = call[h].password
    BY <2>1, <2>2, ReadsPhase
  <2>4. DeliveredPasswordsWork'
    BY <1>1, <2>1 DEF DeliveredPasswordsWork
  <2> QED
    BY <2>1, <2>3, <2>4 DEF PasswordAtHand
<1>5. CASE SendInvitationEmail(h)
  <2> DEFINE lost == [call[h] EXCEPT !.password = 0]
  <2>1. /\ call[h].phase = "mailing" /\ account' = account
        /\ \/ /\ known' = [known EXCEPT ![call[h].scorer] =
                                         known[call[h].scorer] \cup {call[h].password}]
              /\ Reads(h, "mailed", call[h])
           \/ Reads(h, "mailed", lost) /\ known' = known
    BY <1>5 DEF SendInvitationEmail
  <2>2. lost \in Call /\ lost.password = 0
    BY <1>1, TaskScorerAssumption DEF Call, Password
  <2> HIDE DEF lost
  <2>3. DeliveredPasswordsWork'
    BY <1>1, <2>1 DEF DeliveredPasswordsWork
  <2>4. CASE Reads(h, "mailed", lost)
    <3>1. call'[h].phase = "mailed" /\ call'[h].password = 0
      BY <2>2, <2>4, ReadsPhase
    <3> QED
      BY <2>3, <3>1 DEF PasswordAtHand
  <2>5. CASE /\ Reads(h, "mailed", call[h])
             /\ known' = [known EXCEPT ![call[h].scorer] =
                                         known[call[h].scorer] \cup {call[h].password}]
    <3>1. /\ call'[h].phase = "mailed" /\ call'[h].password = call[h].password
          /\ call'[h].scorer = call[h].scorer
      BY <1>1, <2>5, ReadsPhase
    <3> QED
      BY <1>1, <2>1, <2>3, <2>5, <3>1 DEF PasswordAtHand
  <2> QED
    BY <2>1, <2>4, <2>5
<1>6. CASE UpdateInvitationMetadata(h)
  <2>1. /\ call[h].phase = "mailed" /\ UNCHANGED <<account, known>>
        /\ \/ call[h].password # 0 /\ Reads(h, "marking", call[h])
           \/ Finishes(h)
    BY <1>6 DEF UpdateInvitationMetadata
  <2>2. CASE Finishes(h)
    <3>1. call'[h].phase \in {"idle", "settling"} /\ call'[h].password = 0
      BY <2>2, FinishesFields
    <3> QED
      BY <1>1, <2>1, <3>1, PasswordsStay
  <2>3. CASE call[h].password # 0 /\ Reads(h, "marking", call[h])
    <3>1. /\ call'[h].phase = "marking" /\ call'[h].password = call[h].password
          /\ call'[h].scorer = call[h].scorer
      BY <1>1, <2>3, ReadsPhase
    <3>2. DeliveredPasswordsWork'
      BY <1>1, <2>1 DEF DeliveredPasswordsWork
    <3> QED
      BY <2>1, <2>3, <3>1, <3>2 DEF PasswordAtHand
  <2> QED
    BY <2>1, <2>2, <2>3
<1>7. CASE MarkCredentialDelivered(h)
  <2>1. /\ call[h].phase = "marking" /\ Finishes(h) /\ known' = known
        /\ account' = [account EXCEPT ![call[h].scorer].state = "ready"]
    BY <1>7 DEF MarkCredentialDelivered
  <2>2. /\ account[call[h].scorer].password \in known[call[h].scorer]
    BY <2>1 DEF PasswordAtHand
  <2>3. \A s \in Scorers :
          /\ account'[s].password = account[s].password
          /\ s # call[h].scorer => account'[s] = account[s]
    BY <1>1, <2>1 DEF Account
  <2>4. DeliveredPasswordsWork'
    BY <1>1, <2>1, <2>2, <2>3 DEF DeliveredPasswordsWork
  <2>5. call'[h].phase \in {"idle", "settling"} /\ call'[h].password = 0
    BY <2>1, FinishesFields
  <2> QED
    BY <2>4, <2>5 DEF PasswordAtHand
<1> QED
  BY <1>2, <1>3, <1>4, <1>5, <1>6, <1>7

LEMMA PasswordsStep ==
  ASSUME ScorerInv, FreshInv, PasswordsInv, DeliveredPasswordsWork,
         [TaskScorerNext]_scorerVars
  PROVE  PasswordsInv' /\ DeliveredPasswordsWork'
<1>1. ASSUME NEW h \in Calls, HandlerStep(h)
      PROVE  PasswordsInv' /\ DeliveredPasswordsWork'
  <2>1. overlap' = overlap /\ \A g \in Calls : g # h => call'[g] = call[g]
    BY <1>1, HandlerStepOK DEF StepOK, Moves, RestOK
  <2>2. CASE overlap
    BY <2>1, <2>2 DEF PasswordsInv, DeliveredPasswordsWork
  <2>3. CASE ~ overlap
    <3>1. PasswordAtHand(h)' /\ DeliveredPasswordsWork'
      BY <1>1, <2>3, OtherStepsClean, PasswordsStay, CommitPasswords, ResendPasswords
      DEF PasswordsInv, HandlerStep, InvitationStep, Clean
    <3>2. \A g \in Calls : g # h =>
            call'[g].phase = "idle" /\ call'[g].password = 0
      BY <1>1, <2>1, <2>3, Alone DEF PasswordsInv, PasswordAtHand
    <3>3. \A g \in Calls : PasswordAtHand(g)'
      BY <3>1, <3>2 DEF PasswordAtHand
    <3> QED
      BY <3>1, <3>3 DEF PasswordsInv
  <2> QED
    BY <2>2, <2>3
<1>2. CASE UNCHANGED <<account, known, call, overlap>>
  BY <1>2 DEF PasswordsInv, PasswordAtHand, DeliveredPasswordsWork
<1> QED
  BY <1>1, <1>2 DEF TaskScorerNext, HandlerStep, Remove, MarkMineRead, scorerVars

\* One handler at a time, an account counts as delivered only when its scorer has been
\* told the password it has.
THEOREM DeliveredMeansKnown == TaskScorerSpec => []DeliveredPasswordsWork
<1>1. TaskScorerInit => PasswordsInv /\ DeliveredPasswordsWork /\ FreshInv
  BY DEF TaskScorerInit, PasswordsInv, PasswordAtHand, DeliveredPasswordsWork, Idle,
         FreshInv, Fresh
<1>2. ScorerInv /\ FreshInv /\ PasswordsInv /\ DeliveredPasswordsWork
        /\ [TaskScorerNext]_scorerVars
        => FreshInv' /\ PasswordsInv' /\ DeliveredPasswordsWork'
  BY PasswordsStep, StepFollows
<1> QED
  BY <1>1, <1>2, ScorerInvariance, PTL DEF TaskScorerSpec
-----------------------------------------------------------------------------
(***************************************************************************)
(* Reassignments, one handler at a time.                                   *)
(***************************************************************************)

\* A scorer of the task who takes part or can.
Settled(s) ==
  \/ relation[s] = "accepted"
  \/ /\ relation[s] = "pending"
     /\ \E i \in InvitationId : invitation[i].scorer = s /\ invitation[i].status = "sent"

\* Who has been notified is settled and stays so; who is let go holds nothing.
ReassignAt(h) ==
  LET c == call[h] IN
  /\ c.phase \in {"settling", "counted", "withdrawing", "withdrawn"} => c.op = "reassign"
  /\ c.phase # "idle" /\ c.op = "reassign" =>
       /\ c.phase \in {"settling", "account", "found", "joined", "mailed", "counted",
                       "withdrawing", "withdrawn"}
       /\ c.password = 0
       /\ c.targets \cap c.sources = {}
       /\ \A s \in c.targets \ c.toNotify : Settled(s)
       /\ c.phase \in {"account", "found", "joined", "mailed"} => c.scorer \in c.toNotify
       /\ c.phase = "joined" => relation[c.scorer] \in {"pending", "accepted"}
       /\ c.phase = "mailed" => Settled(c.scorer)
       /\ c.phase \in {"counted", "withdrawing", "withdrawn"} =>
            /\ c.toNotify = {} /\ c.scorer \notin c.targets
            /\ \A v \in Videos : holder[v] # c.scorer
       /\ c.phase = "withdrawn" =>
            \A i \in InvitationId : invitation[i].scorer = c.scorer =>
                                     invitation[i].status # "sent"

ReassignInv == ~ overlap => \A h \in Calls : ReassignAt(h)

\* Steps of handlers that are not of a reassignment.
LEMMA NotOfReassignment ==
  ASSUME ScorerInv, NEW h \in Calls,
         \/ call'[h].phase = "idle"
         \/ /\ call'[h].op # "reassign"
            /\ call'[h].phase \notin {"settling", "counted", "withdrawing", "withdrawn"}
  PROVE  ReassignAt(h)'
BY DEF ReassignAt

LEMMA OtherFinishes ==
  ASSUME ScorerInv, NEW h \in Calls, Finishes(h), call[h].op # "reassign"
  PROVE  ReassignAt(h)'
BY FinishesFields, NotOfReassignment

LEMMA OtherReads ==
  ASSUME ScorerInv, NEW h \in Calls, call[h].op # "reassign",
         NEW p \in Phase \ {"settling", "counted", "withdrawing", "withdrawn"},
         NEW c \in Call, Reads(h, p, c), c.op = call[h].op
  PROVE  ReassignAt(h)'
BY ReadsPhase, NotOfReassignment

LEMMA StartsReassign ==
  ASSUME ScorerInv, NEW h \in Calls,
         \/ \E i \in InvitationId : LoadInvitation(h, i)
         \/ AssignScorers(h)
         \/ \E s \in Scorers :
              FindOrCreateScorer(h, s) \/ FindExistingScorer(h, s) \/ LoadResend(h, s)
  PROVE  ReassignAt(h)'
<1>1. CASE AssignScorers(h)
  <2>1. PICK targets \in SUBSET Scorers, sources \in SUBSET (Scorers \cup {NoScorer}) :
          /\ Reads(h, "settling", [Idle EXCEPT !.op = "reassign", !.targets = targets,
                                    !.toNotify = targets, !.sources = sources])
          /\ targets \cap sources = {}
    BY <1>1, AssignScorersStarts
  <2>2. call \in [Calls -> Call]
    BY DEF ScorerInv, TaskScorerTypeOK
  <2>3. /\ call'[h].phase = "settling" /\ call'[h].op = "reassign"
        /\ call'[h].targets = targets /\ call'[h].toNotify = targets
        /\ call'[h].sources = sources /\ call'[h].password = 0
    BY <2>1, <2>2 DEF Reads, Idle
  <2> QED
    BY <2>1, <2>3 DEF ReassignAt
<1>2. CASE ~ AssignScorers(h)
  BY <1>2, StartsClean, NotOfReassignment
<1> QED
  BY <1>1, <1>2

\* The notification of a scorer, of a reassignment or not.
LEMMA NotifyReassign ==
  ASSUME ScorerInv, ~ overlap, NEW h \in Calls, ReassignAt(h), Fresh(h),
         \/ FindTaskScorer(h) \/ JoinTask(h) \/ CreateInvitation(h)
         \/ UpdateInvitationMetadata(h)
  PROVE  ReassignAt(h)'
<1>1. /\ call[h] \in Call /\ HandlerOK(call[h], invitation)
      /\ call[h].phase \in {"account", "found", "joined", "rotated", "mailed"}
      /\ call[h].scorer \in Scorers
      /\ UNCHANGED holder
  BY DEF ScorerInv, TaskScorerTypeOK, HandlerOK, Named, FindTaskScorer, JoinTask,
         CreateInvitation, UpdateInvitationMetadata
<1>2. relation \in [Scorers -> RelationStatus]
  BY DEF ScorerInv, TaskScorerTypeOK
<1>3. CASE FindTaskScorer(h)
  <2>1. /\ Reads(h, "found", [call[h] EXCEPT !.seen = relation[call[h].scorer]])
        /\ call[h].phase = "account" /\ UNCHANGED <<relation, invitation>>
    BY <1>3 DEF FindTaskScorer
  <2> DEFINE c == [call[h] EXCEPT !.seen = relation[call[h].scorer]]
  <2>2. /\ c \in Call /\ c.op = call[h].op /\ c.scorer = call[h].scorer
        /\ c.password = call[h].password /\ c.targets = call[h].targets
        /\ c.toNotify = call[h].toNotify /\ c.sources = call[h].sources
    BY <1>1, <1>2, SeenKeeps
  <2>3. Reads(h, "found", c)
    BY <2>1
  <2> HIDE DEF c
  <2>4. CASE call[h].op # "reassign"
    BY <2>2, <2>3, <2>4, OtherReads DEF Phase
  <2>5. CASE call[h].op = "reassign"
    BY <2>1, <2>2, <2>3, <2>5, ReadsPhase DEF ReassignAt, Settled
  <2> QED
    BY <2>4, <2>5
<1>4. CASE JoinTask(h)
  <2> DEFINE c == [call[h] EXCEPT !.seen = Believed(call[h].seen)]
  <2>1. /\ Reads(h, "joined", c) /\ call[h].phase = "found"
        /\ relation' = Asked(call[h].scorer, call[h].seen) /\ invitation' = invitation
    BY <1>4 DEF JoinTask
  <2>2. Believed(call[h].seen) \in RelationStatus
    BY DEF Believed, RelationStatus
  <2>3. /\ c \in Call /\ c.op = call[h].op /\ c.scorer = call[h].scorer
        /\ c.password = call[h].password /\ c.targets = call[h].targets
        /\ c.toNotify = call[h].toNotify /\ c.sources = call[h].sources
    BY <1>1, <2>2, SeenKeeps
  <2> HIDE DEF c
  <2>4. CASE call[h].op # "reassign"
    BY <2>1, <2>3, <2>4, OtherReads DEF Phase
  <2>5. CASE call[h].op = "reassign"
    <3>1. call[h].seen = relation[call[h].scorer]
      BY <2>1 DEF Fresh
    <3>2. /\ relation'[call[h].scorer] \in {"pending", "accepted"}
          /\ \A s \in Scorers : s # call[h].scorer => relation'[s] = relation[s]
      BY <1>1, <1>2, <2>1, <3>1 DEF Asked
    <3>3. /\ call'[h].phase = "joined" /\ call'[h].op = "reassign"
          /\ call'[h].scorer = call[h].scorer /\ call'[h].password = call[h].password
          /\ call'[h].targets = call[h].targets /\ call'[h].sources = call[h].sources
          /\ call'[h].toNotify = call[h].toNotify
      BY <2>1, <2>3, <2>5, ReadsPhase
    <3>4. call[h].targets \in SUBSET Scorers /\ call[h].scorer \in call[h].toNotify
      BY <1>1, <2>1, <2>5 DEF Call, ReassignAt
    <3> QED
      BY <2>1, <2>5, <3>2, <3>3, <3>4 DEF ReassignAt, Settled
  <2> QED
    BY <2>4, <2>5
<1>5. CASE CreateInvitation(h)
  <2>1. PICK i \in InvitationId :
          /\ IsFree(i) /\ Sent(i, call[h].scorer)
          /\ Reads(h, IF call[h].op = "resend" THEN "created" ELSE "mailed",
                   [call[h] EXCEPT !.letter = i, !.seenLetter = "sent"])
    BY <1>5 DEF CreateInvitation
  <2> DEFINE c == [call[h] EXCEPT !.letter = i, !.seenLetter = "sent"]
             p == IF call[h].op = "resend" THEN "created" ELSE "mailed"
  <2>2. i \in 0..MaxInvitations
    BY TaskScorerAssumption DEF InvitationId
  <2>3. /\ c \in Call /\ c.op = call[h].op /\ c.scorer = call[h].scorer
        /\ c.password = call[h].password /\ c.targets = call[h].targets
        /\ c.toNotify = call[h].toNotify /\ c.sources = call[h].sources
    BY <1>1, <2>2 DEF Call, InvitationStatus
  <2>4. /\ Reads(h, p, c) /\ p \in {"created", "mailed"}
        /\ call[h].op = "reassign" => p = "mailed"
        /\ relation' = relation
    BY <1>5, <2>1 DEF CreateInvitation
  <2> HIDE DEF c, p
  <2>5. CASE call[h].op # "reassign"
    BY <2>3, <2>4, <2>5, OtherReads DEF Phase
  <2>6. CASE call[h].op = "reassign"
    <3>1. call[h].phase = "joined"
      BY <1>5, <2>6 DEF CreateInvitation, ReassignAt
    <3>2. /\ invitation'[i].scorer = call[h].scorer /\ invitation'[i].status = "sent"
          /\ \A j \in InvitationId : invitation[j].status = "sent" =>
               invitation'[j] = invitation[j]
      BY <2>1 DEF IsFree, Sent, NoInvitation, ScorerInv, TaskScorerTypeOK
    <3>3. relation[call[h].scorer] \in {"pending", "accepted"}
      BY <2>6, <3>1 DEF ReassignAt
    <3>4. /\ call'[h].phase = "mailed" /\ call'[h].op = "reassign"
          /\ call'[h].scorer = call[h].scorer /\ call'[h].password = call[h].password
          /\ call'[h].targets = call[h].targets /\ call'[h].sources = call[h].sources
          /\ call'[h].toNotify = call[h].toNotify
      BY <2>3, <2>4, <2>6, ReadsPhase
    <3>5. \A s : Settled(s) => Settled(s)'
      BY <2>4, <3>2 DEF Settled
    <3>6. Settled(call[h].scorer)'
      BY <2>4, <3>2, <3>3, <3>4 DEF Settled
    <3> QED
      BY <2>6, <3>1, <3>4, <3>5, <3>6 DEF ReassignAt, Settled
  <2> QED
    BY <2>5, <2>6
<1>6. CASE UpdateInvitationMetadata(h)
  <2>1. /\ call[h].phase = "mailed" /\ relation' = relation
        /\ invitation' = [invitation EXCEPT ![call[h].letter].read = FALSE]
        /\ \/ call[h].password # 0 /\ Reads(h, "marking", call[h])
           \/ Finishes(h)
    BY <1>6 DEF UpdateInvitationMetadata
  <2>2. CASE call[h].op # "reassign"
    BY <1>1, <2>1, <2>2, OtherReads, OtherFinishes DEF Phase
  <2>3. CASE call[h].op = "reassign"
    <3>1. \A i \in InvitationId : /\ invitation'[i].scorer = invitation[i].scorer
                                  /\ invitation'[i].status = invitation[i].status
      BY <2>1 DEF ScorerInv, TaskScorerTypeOK, Invitation
    <3>2. \A s : Settled(s) => Settled(s)'
      BY <2>1, <3>1 DEF Settled
    <3>3. /\ call[h].password = 0 /\ call[h].targets \cap call[h].sources = {}
          /\ call[h].scorer \in call[h].toNotify
          /\ \A s \in call[h].targets \ call[h].toNotify : Settled(s)
          /\ Settled(call[h].scorer)
      BY <2>1, <2>3 DEF ReassignAt
    <3>4. /\ call'[h].op = "reassign" /\ call'[h].phase = "settling"
          /\ call'[h].password = 0 /\ call'[h].targets = call[h].targets
          /\ call'[h].toNotify = call[h].toNotify \ {call[h].scorer}
          /\ call'[h].sources = call[h].sources
      BY <2>1, <2>3, <3>3, FinishesFields
    <3>5. \A s \in call'[h].targets \ call'[h].toNotify : Settled(s)
      BY <3>3, <3>4
    <3>6. \A s \in call'[h].targets \ call'[h].toNotify : Settled(s)'
      BY <3>2, <3>5
    <3> QED
      BY <3>3, <3>4, <3>6 DEF ReassignAt
  <2> QED
    BY <2>2, <2>3
<1> QED
  BY <1>3, <1>4, <1>5, <1>6

LEMMA SettleReassign ==
  ASSUME ScorerInv, NEW h \in Calls, ReassignAt(h), NEW s \in Scorers,
         EnsureNotification(h, s) \/ CountRemaining(h, s)
  PROVE  ReassignAt(h)'
<1>1. /\ call \in [Calls -> Call] /\ call[h] \in Call /\ call[h].phase = "settling"
      /\ UNCHANGED <<relation, invitation, account, known, holder, overlap>>
  BY DEF EnsureNotification, CountRemaining, ScorerInv, TaskScorerTypeOK
<1>2. /\ call[h].op = "reassign" /\ call[h].password = 0
      /\ call[h].targets \cap call[h].sources = {}
      /\ \A t \in call[h].targets \ call[h].toNotify : Settled(t)
  BY <1>1 DEF ReassignAt
<1>3. \A t : Settled(t)' <=> Settled(t)
  BY <1>1 DEF Settled
<1>4. CASE EnsureNotification(h, s)
  <2>1. /\ s \in call[h].toNotify
        /\ \/ /\ relation[s] = "accepted"
              /\ call' = [call EXCEPT ![h].toNotify = call[h].toNotify \ {s}]
           \/ Reads(h, "account", [call[h] EXCEPT !.scorer = s])
    BY <1>4 DEF EnsureNotification
  <2>2. CASE Reads(h, "account", [call[h] EXCEPT !.scorer = s])
    <3> DEFINE c == [call[h] EXCEPT !.scorer = s]
    <3>0. /\ c \in Call /\ c.scorer = s /\ c.op = "reassign" /\ c.password = 0
          /\ c.targets = call[h].targets /\ c.sources = call[h].sources
          /\ c.toNotify = call[h].toNotify
      BY <1>1, <1>2, TurningKeeps
    <3>3. Reads(h, "account", c)
      BY <2>2
    <3> HIDE DEF c
    <3>1. /\ call'[h].phase = "account" /\ call'[h].op = "reassign"
          /\ call'[h].scorer = s /\ call'[h].password = 0
          /\ call'[h].targets = call[h].targets /\ call'[h].sources = call[h].sources
          /\ call'[h].toNotify = call[h].toNotify
      BY <3>0, <3>3, ReadsPhase
    <3> QED
      BY <1>2, <1>3, <2>1, <3>1 DEF ReassignAt
  <2>3. CASE /\ relation[s] = "accepted"
             /\ call' = [call EXCEPT ![h].toNotify = call[h].toNotify \ {s}]
    <3>1. /\ call'[h].phase = "settling" /\ call'[h].op = "reassign"
          /\ call'[h].password = 0
          /\ call'[h].targets = call[h].targets /\ call'[h].sources = call[h].sources
          /\ call'[h].toNotify = call[h].toNotify \ {s}
      BY <1>1, <1>2, <2>3 DEF Call
    <3>2. Settled(s)
      BY <2>3 DEF Settled
    <3> QED
      BY <1>2, <1>3, <3>1, <3>2 DEF ReassignAt
  <2> QED
    BY <2>1, <2>2, <2>3
<1>5. CASE CountRemaining(h, s)
  <2>1. /\ s \in call[h].sources /\ call[h].toNotify = {}
        /\ \/ call' = [call EXCEPT ![h].sources = call[h].sources \ {s}]
           \/ /\ \A v \in Videos : holder[v] # s
              /\ Reads(h, "counted", [call[h] EXCEPT !.scorer = s])
    BY <1>5 DEF CountRemaining
  <2>2. CASE /\ \A v \in Videos : holder[v] # s
             /\ Reads(h, "counted", [call[h] EXCEPT !.scorer = s])
    <3> DEFINE c == [call[h] EXCEPT !.scorer = s]
    <3>0. /\ c \in Call /\ c.scorer = s /\ c.op = "reassign" /\ c.password = 0
          /\ c.targets = call[h].targets /\ c.sources = call[h].sources
          /\ c.toNotify = call[h].toNotify
      BY <1>1, <1>2, TurningKeeps
    <3>3. Reads(h, "counted", c)
      BY <2>2
    <3> HIDE DEF c
    <3>1. /\ call'[h].phase = "counted" /\ call'[h].op = "reassign"
          /\ call'[h].scorer = s /\ call'[h].password = 0
          /\ call'[h].targets = call[h].targets /\ call'[h].sources = call[h].sources
          /\ call'[h].toNotify = call[h].toNotify
      BY <3>0, <3>3, ReadsPhase
    <3> QED
      BY <1>1, <1>2, <1>3, <2>1, <2>2, <3>1 DEF ReassignAt
  <2>3. CASE call' = [call EXCEPT ![h].sources = call[h].sources \ {s}]
    <3>1. /\ call'[h].phase = "settling" /\ call'[h].op = "reassign"
          /\ call'[h].password = 0
          /\ call'[h].targets = call[h].targets
          /\ call'[h].sources = call[h].sources \ {s}
          /\ call'[h].toNotify = call[h].toNotify
      BY <1>1, <1>2, <2>3 DEF Call
    <3> QED
      BY <1>2, <1>3, <3>1 DEF ReassignAt
  <2> QED
    BY <2>1, <2>2, <2>3
<1> QED
  BY <1>4, <1>5

LEMMA WithdrawReassign ==
  ASSUME ScorerInv, NEW h \in Calls, ReassignAt(h),
         FindPendingRelation(h) \/ CancelSentInvitations(h) \/ ExpireRelation(h)
  PROVE  ReassignAt(h)'
<1>1. /\ call[h] \in Call /\ holder' = holder
      /\ call[h].phase \in {"counted", "withdrawing", "withdrawn"}
      /\ call[h].scorer \in Scorers
      /\ call[h].targets \in SUBSET Scorers
  BY DEF FindPendingRelation, CancelSentInvitations, ExpireRelation, ScorerInv,
         TaskScorerTypeOK, HandlerOK, Named, Call
<1>2. /\ call[h].op = "reassign" /\ call[h].password = 0
      /\ call[h].targets \cap call[h].sources = {}
      /\ \A t \in call[h].targets : Settled(t)
      /\ call[h].toNotify = {} /\ call[h].scorer \notin call[h].targets
      /\ \A v \in Videos : holder[v] # call[h].scorer
  BY <1>1 DEF ReassignAt
<1>3. ASSUME Finishes(h), \A t \in call[h].targets : Settled(t)'
      PROVE  ReassignAt(h)'
  <2>1. /\ call'[h].op = "reassign" /\ call'[h].phase = "settling"
        /\ call'[h].password = 0 /\ call'[h].targets = call[h].targets
        /\ call'[h].sources = call[h].sources \ {call[h].scorer}
    BY <1>2, <1>3, FinishesFields
  <2> QED
    BY <1>2, <1>3, <2>1 DEF ReassignAt
<1>4. CASE FindPendingRelation(h)
  <2>1. UNCHANGED <<relation, invitation>> /\ call[h].phase = "counted"
    BY <1>4 DEF FindPendingRelation
  <2>2. \A t : Settled(t)' <=> Settled(t)
    BY <2>1 DEF Settled
  <2>3. CASE Finishes(h)
    BY <1>2, <1>3, <2>2, <2>3
  <2>4. CASE Reads(h, "withdrawing", [call[h] EXCEPT !.seen = "pending"])
    <3> DEFINE c == [call[h] EXCEPT !.seen = "pending"]
    <3>0. "pending" \in RelationStatus
      BY DEF RelationStatus
    <3>1. /\ c \in Call /\ c.scorer = call[h].scorer /\ c.op = "reassign"
          /\ c.password = 0 /\ c.targets = call[h].targets
          /\ c.sources = call[h].sources /\ c.toNotify = {}
      BY <1>1, <1>2, <3>0, SeenKeeps
    <3>2. Reads(h, "withdrawing", c)
      BY <2>4
    <3> HIDE DEF c
    <3>3. /\ call'[h].phase = "withdrawing" /\ call'[h].op = "reassign"
          /\ call'[h].scorer = call[h].scorer /\ call'[h].password = 0
          /\ call'[h].targets = call[h].targets /\ call'[h].sources = call[h].sources
          /\ call'[h].toNotify = {}
      BY <3>1, <3>2, ReadsPhase
    <3> QED
      BY <1>1, <1>2, <2>2, <3>3 DEF ReassignAt
  <2> QED
    BY <1>4, <2>3, <2>4 DEF FindPendingRelation
<1>5. CASE CancelSentInvitations(h)
  <2>1. /\ relation' = relation /\ Reads(h, "withdrawn", call[h])
        /\ \A i \in InvitationId :
             invitation'[i] = IF /\ invitation[i].scorer = call[h].scorer
                                 /\ invitation[i].status = "sent"
                              THEN [invitation[i] EXCEPT !.status = "cancelled"]
                              ELSE invitation[i]
    BY <1>5 DEF CancelSentInvitations
  <2>2. /\ call'[h].phase = "withdrawn" /\ call'[h].op = "reassign"
        /\ call'[h].scorer = call[h].scorer /\ call'[h].password = 0
        /\ call'[h].targets = call[h].targets /\ call'[h].sources = call[h].sources
        /\ call'[h].toNotify = {}
    BY <1>1, <1>2, <2>1, ReadsPhase
  <2>3. \A i \in InvitationId :
          /\ invitation'[i].scorer = invitation[i].scorer
          /\ invitation[i].scorer = call[h].scorer => invitation'[i].status # "sent"
          /\ invitation[i].scorer # call[h].scorer =>
               invitation'[i].status = invitation[i].status
    BY <2>1 DEF ScorerInv, TaskScorerTypeOK, Invitation
  <2>4. \A t \in call[h].targets : Settled(t)'
    BY <1>2, <2>1, <2>3 DEF Settled
  <2> QED
    BY <1>1, <1>2, <2>2, <2>3, <2>4 DEF ReassignAt
<1>6. CASE ExpireRelation(h)
  <2>1. /\ relation' = [relation EXCEPT ![call[h].scorer] = "inactive"]
        /\ invitation' = invitation /\ Finishes(h)
    BY <1>6 DEF ExpireRelation, SetStatus
  <2>2. \A t \in call[h].targets : Settled(t)'
    BY <1>1, <1>2, <2>1 DEF Settled, ScorerInv, TaskScorerTypeOK
  <2> QED
    BY <1>3, <2>1, <2>2
<1> QED
  BY <1>4, <1>5, <1>6


LEMMA OtherStepsReassign ==
  ASSUME ScorerInv, NEW h \in Calls, ReassignAt(h),
         \/ CommitProvision(h) \/ CommitInvite(h) \/ RotateCredential(h)
         \/ RefreshRelation(h) \/ SendInvitationEmail(h) \/ MarkCredentialDelivered(h)
         \/ RefuseExpired(h) \/ FindRelation(h) \/ AnswerInvitation(h)
         \/ AcceptRelation(h) \/ ReassignmentEnds(h) \/ CallFails(h)
  PROVE  ReassignAt(h)'
<1>1. /\ call \in [Calls -> Call] /\ call[h] \in Call
      /\ call[h].phase \notin {"idle", "settling"} => call[h].scorer \in Scorers
      /\ relation \in [Scorers -> RelationStatus] /\ account \in [Scorers -> Account]
  BY DEF ScorerInv, TaskScorerTypeOK, HandlerOK, Named
<1>2. CASE ReassignmentEnds(h) \/ CallFails(h)
  <2>1. call'[h].phase = "idle"
    BY <1>1, <1>2 DEF ReassignmentEnds, CallFails, Idle
  <2> QED
    BY <2>1, NotOfReassignment
<1>3. CASE \/ CommitProvision(h) \/ CommitInvite(h) \/ MarkCredentialDelivered(h)
           \/ RefuseExpired(h) \/ AcceptRelation(h)
  BY <1>3, OtherFinishes
  DEF CommitProvision, CommitInvite, MarkCredentialDelivered, RefuseExpired,
      AcceptRelation, ReassignAt
<1>4. CASE RotateCredential(h)
  <2> DEFINE c == [call[h] EXCEPT !.password = account[call[h].scorer].password + 1]
  <2>1. /\ Reads(h, "rotated", c) /\ call[h].op = "resend" /\ call[h].phase = "found"
        /\ account[call[h].scorer].password < MaxPasswords
    BY <1>4 DEF RotateCredential
  <2>2. account[call[h].scorer].password + 1 \in Password
    BY <1>1, <2>1, TaskScorerAssumption DEF Account, Password
  <2>3. c \in Call /\ c.op = call[h].op
    BY <1>1, <2>2 DEF Call
  <2> HIDE DEF c
  <2> QED
    BY <2>1, <2>3, OtherReads DEF Phase
<1>5. CASE RefreshRelation(h)
  <2> DEFINE c == [call[h] EXCEPT !.seen = Believed(call[h].seen)]
  <2>1. call[h].phase = "created" /\ call[h].op # "reassign"
    BY <1>5 DEF RefreshRelation, ReassignAt
  <2>2. Believed(call[h].seen) \in RelationStatus
    BY DEF Believed, RelationStatus
  <2>3. c \in Call /\ c.op = call[h].op
    BY <1>1, <2>2, SeenKeeps
  <2>4. \E p \in {"mailed", "mailing"} : Reads(h, p, c)
    BY <1>5 DEF RefreshRelation
  <2> HIDE DEF c
  <2> QED
    BY <2>1, <2>3, <2>4, OtherReads DEF Phase
<1>6. CASE SendInvitationEmail(h)
  <2> DEFINE lost == [call[h] EXCEPT !.password = 0]
  <2>1. call[h].op # "reassign"
    BY <1>6 DEF SendInvitationEmail, ReassignAt
  <2>2. lost \in Call /\ lost.op = call[h].op
    BY <1>1, TaskScorerAssumption DEF Call, Password
  <2>3. Reads(h, "mailed", call[h]) \/ Reads(h, "mailed", lost)
    BY <1>6 DEF SendInvitationEmail
  <2> HIDE DEF lost
  <2> QED
    BY <1>1, <2>1, <2>2, <2>3, OtherReads DEF Phase
<1>7. CASE FindRelation(h)
  <2> DEFINE c == [call[h] EXCEPT !.seen = relation[call[h].scorer]]
  <2>1. call[h].phase = "loaded" /\ call[h].op # "reassign"
    BY <1>7 DEF FindRelation, ReassignAt
  <2>2. c \in Call /\ c.op = call[h].op
    BY <1>1, <2>1, SeenKeeps
  <2>3. Finishes(h) \/ Reads(h, "answering", c)
    BY <1>7 DEF FindRelation
  <2> HIDE DEF c
  <2> QED
    BY <2>1, <2>2, <2>3, OtherReads, OtherFinishes DEF Phase
<1>8. CASE AnswerInvitation(h)
  <2> DEFINE c == [call[h] EXCEPT !.seenLetter = "accepted"]
  <2>1. call[h].op # "reassign" /\ Reads(h, "answered", c)
    BY <1>8 DEF AnswerInvitation, ReassignAt
  <2>2. c \in Call /\ c.op = call[h].op
    BY <1>1, AnsweredKeeps
  <2> HIDE DEF c
  <2> QED
    BY <2>1, <2>2, OtherReads DEF Phase
<1> QED
  BY <1>2, <1>3, <1>4, <1>5, <1>6, <1>7, <1>8

LEMMA ReassignStepKeeps ==
  ASSUME ScorerInv, FreshInv, ReassignInv, [TaskScorerNext]_scorerVars
  PROVE  ReassignInv'
<1>1. ASSUME NEW h \in Calls, HandlerStep(h)
      PROVE  ReassignInv'
  <2>1. overlap' = overlap /\ \A g \in Calls : g # h => call'[g] = call[g]
    BY <1>1, HandlerStepOK DEF StepOK, Moves, RestOK
  <2>2. CASE overlap
    BY <2>1, <2>2 DEF ReassignInv
  <2>3. CASE ~ overlap
    <3>1. ReassignAt(h) /\ Fresh(h)
      BY <2>3 DEF ReassignInv, FreshInv
    <3>2. ReassignAt(h)'
      BY <1>1, <2>3, <3>1, StartsReassign, NotifyReassign, SettleReassign,
         WithdrawReassign, OtherStepsReassign
      DEF HandlerStep, InvitationStep, AnswerStep, ReassignStep
    <3>3. \A g \in Calls : g # h => call'[g].phase = "idle"
      BY <1>1, <2>1, <2>3, Alone
    <3>4. \A g \in Calls : ReassignAt(g)'
      BY <3>2, <3>3 DEF ReassignAt
    <3> QED
      BY <3>4 DEF ReassignInv
  <2> QED
    BY <2>2, <2>3
<1>2. CASE \/ \E s \in Scorers : Remove(s)
           \/ \E i \in InvitationId : MarkMineRead(i)
  <2>1. /\ UNCHANGED <<call, overlap>>
        /\ ~ overlap => \A h \in Calls : call[h].phase = "idle"
    BY <1>2 DEF Remove, MarkMineRead, MayAct
  <2> QED
    BY <2>1 DEF ReassignInv, ReassignAt
<1>3. CASE UNCHANGED scorerVars
  BY <1>3 DEF scorerVars, ReassignInv, ReassignAt, Settled
<1> QED
  BY <1>1, <1>2, <1>3 DEF TaskScorerNext, HandlerStep

LEMMA ReassignInvariance == TaskScorerSpec => []ReassignInv
<1>1. TaskScorerInit => ReassignInv /\ FreshInv
  BY DEF TaskScorerInit, ReassignInv, ReassignAt, Idle, FreshInv, Fresh
<1>2. ScorerInv /\ FreshInv /\ ReassignInv /\ [TaskScorerNext]_scorerVars
        => FreshInv' /\ ReassignInv'
  BY ReassignStepKeeps, StepFollows
<1> QED
  BY <1>1, <1>2, ScorerInvariance, PTL DEF TaskScorerSpec

\* One handler at a time, a reassignment that comes to its end leaves every new scorer
\* taking part, or asked by an invitation that is open.
LEMMA TargetsAreInvited == TaskScorerSpec => ReassignmentInvitesItsTargets
<1>1. ReassignInv /\ [TaskScorerNext]_scorerVars
        => [\A h \in Calls : ~ overlap /\ ReassignmentEnds(h) =>
              \A s \in call[h].targets :
                \/ relation[s] = "accepted"
                \/ /\ relation[s] = "pending"
                   /\ \E i \in InvitationId :
                        invitation[i].scorer = s /\ invitation[i].status = "sent"]_scorerVars
  BY DEF ReassignInv, ReassignAt, Settled, ReassignmentEnds
<1> QED
  BY <1>1, ReassignInvariance, PTL DEF TaskScorerSpec, ReassignmentInvitesItsTargets

\* One handler at a time, a scorer is let go only without videos and open invitations.
LEMMA LetGoWithNothing == TaskScorerSpec => LetGoEmptyHanded
<1>1. ReassignInv /\ [TaskScorerNext]_scorerVars
        => [\A h \in Calls : ~ overlap /\ ExpireRelation(h) =>
              /\ \A v \in Videos : holder[v] # call[h].scorer
              /\ \A i \in InvitationId : invitation[i].scorer = call[h].scorer =>
                                          invitation[i].status # "sent"]_scorerVars
  BY DEF ReassignInv, ReassignAt, ExpireRelation
<1> QED
  BY <1>1, ReassignInvariance, PTL DEF TaskScorerSpec, LetGoEmptyHanded

\* Together: a reassignment settles with its new scorers and with those before them.
THEOREM ReassignmentsSettle == TaskScorerSpec => ReassignmentSettles
BY TargetsAreInvited, LetGoWithNothing DEF ReassignmentSettles
=============================================================================
