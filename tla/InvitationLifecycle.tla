-------------------------- MODULE InvitationLifecycle --------------------------
(***************************************************************************)
(* What the scorers of a task are promised: a scorer is asked, answers one *)
(* of the invitations sent to them, and takes part until the teacher takes *)
(* them out; who is out comes back by being asked again.  The relation and *)
(* the invitation are separate rows, so an answer shows in the invitation  *)
(* before it shows in the relation.                                        *)
(***************************************************************************)
CONSTANTS
  People,     \* scorers
  Letters,    \* invitations
  Nobody      \* the addressee of a letter not written yet

VARIABLES
  standing,   \* status of the relation of a scorer with the task
  letter      \* an invitation: its addressee, its status, whether answered

lifecycleVars == <<standing, letter>>

Init ==
  /\ standing = [s \in People |-> "none"]
  /\ letter = [i \in Letters |->
                 [to |-> Nobody, status |-> "none", answered |-> FALSE]]

WriteLetter(s) ==
  \E i \in Letters :
    /\ letter[i].status = "none"
    /\ letter' = [letter EXCEPT ![i] =
                     [to |-> s, status |-> "sent", answered |-> FALSE]]

\* A scorer who has not accepted is asked (again).
Ask(s) ==
  /\ standing[s] # "accepted"
  /\ standing' = [standing EXCEPT ![s] = "pending"]
  /\ WriteLetter(s) \/ UNCHANGED letter

Send(s) ==
  /\ standing[s] # "inactive"
  /\ WriteLetter(s)
  /\ UNCHANGED standing

\* Only a letter that is open is answered, and only while its scorer is asked.
Answer(i) ==
  /\ letter[i].status = "sent"
  /\ standing[letter[i].to] = "pending"
  /\ letter' = [letter EXCEPT ![i] =
                   [to |-> letter[i].to, status |-> "accepted", answered |-> TRUE]]
  /\ UNCHANGED standing

Join(s) ==
  /\ standing[s] = "pending"
  /\ \E i \in Letters : letter[i].to = s /\ letter[i].answered
  /\ standing' = [standing EXCEPT ![s] = "accepted"]
  /\ UNCHANGED letter

Leave(s) ==
  /\ standing[s] # "none"
  /\ standing' = [standing EXCEPT ![s] = "inactive"]
  /\ UNCHANGED letter

\* The open letters of a scorer who is asked are taken back.
Withdraw(s) ==
  /\ standing[s] = "pending"
  /\ letter' = [i \in Letters |->
                  IF letter[i].to = s /\ letter[i].status = "sent"
                  THEN [letter[i] EXCEPT !.status = "cancelled"] ELSE letter[i]]
  /\ UNCHANGED standing

\* A letter that is followed too late, answered before or not.
Lapse(i) ==
  /\ letter[i].status \in {"sent", "accepted", "expired"}
  /\ letter' = [letter EXCEPT ![i].status = "expired"]
  /\ UNCHANGED standing

Next ==
  \/ \E s \in People : Ask(s) \/ Send(s) \/ Join(s) \/ Leave(s) \/ Withdraw(s)
  \/ \E i \in Letters : Answer(i) \/ Lapse(i)

Lifecycle == Init /\ [][Next]_lifecycleVars
=============================================================================
