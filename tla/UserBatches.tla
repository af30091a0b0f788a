------------------------------ MODULE UserBatches ------------------------------
(***************************************************************************)
(* The creation of many users in one request (BatchCreate of               *)
(* internal/modules/user).  The rows are taken one after the other, each   *)
(* in statements and a transaction of its own: a row that is refused is    *)
(* noted and the next one taken, any other error ends the request, which   *)
(* says nothing of the rows that went before.                              *)
(*                                                                         *)
(* The database keeps a username once (a unique index); it goes with its   *)
(* user.                                                                   *)
(***************************************************************************)
EXTENDS Naturals, FiniteSets

CONSTANTS
  Usernames,
  Importers,     \* requests at the same time
  MaxItems,      \* bound: rows of a request
  Requests       \* requests made: how many rows, and what is in them

\* "invalid" stands for all that isBatchCreateRecoverableError names but a taken
\* name; "unhashable" for a password bcrypt refuses, which it does not name.
Item == [username : Usernames, kind : {"good", "invalid", "unhashable"}]

Position == 1 .. MaxItems

ASSUME UserBatchesAssumption ==
  /\ MaxItems \in Nat \ {0}
  /\ Requests # {}
  /\ Requests \subseteq [total : Position, item : [Position -> Item]]

VARIABLES
  taken,    \* usernames in the table
  batch     \* the requests

batchVars == <<taken, batch>>

\* success and errors are those of the answer; inserted, the rows whose user was
\* stored, is known to nobody but the database.
Batch ==
  [phase    : {"none", "row", "looked_up", "stored", "answered", "aborted"},
   request  : Requests,
   row      : 1 .. (MaxItems + 1),
   success  : Nat,
   errors   : SUBSET Position,
   inserted : SUBSET Position]

Fresh(request) == [phase |-> "row", request |-> request, row |-> 1, success |-> 0,
                   errors |-> {}, inserted |-> {}]
-----------------------------------------------------------------------------
ItemOf(b) == batch[b].request.item[batch[b].row]

\* Mutated: a row is compared with the next one only.
DuplicateOfNext(request, i) ==
  i + 1 <= request.total /\ request.item[i + 1].username = request.item[i].username

\* findDuplicateBatchCreateUsernames: the first of them counts as well.
Duplicate(request, i) ==
  \E j \in 1 .. request.total : j # i /\ request.item[j].username = request.item[i].username

\* Rows are left: the loop goes on.
AtRow(b) == batch[b].phase = "row" /\ batch[b].row <= batch[b].request.total

\* Mutated: the error is that of the row after.
ItemFailsOneOff(b) ==
  batch' = [batch EXCEPT ![b].phase = "row", ![b].row = @ + 1,
                         ![b].errors = @ \cup {batch[b].row + 1}]

\* The row is refused, with an error of its own.
ItemFails(b) ==
  batch' = [batch EXCEPT ![b].phase = "row", ![b].row = @ + 1,
                         ![b].errors = @ \cup {batch[b].row}]

\* Any other error, which BatchCreate returns; a nil dereference ends the same way.
BatchFails(b) == batch' = [batch EXCEPT ![b].phase = "aborted"]

BatchesRest ==
  /\ taken = {}
  /\ batch = [b \in Importers |->
                [Fresh(CHOOSE request \in Requests : TRUE) EXCEPT !.phase = "none"]]

BatchesInit == BatchesRest
-----------------------------------------------------------------------------
(***************************************************************************)
(* BatchCreate and createOne.                                              *)
(***************************************************************************)

\* Without rows there is nothing to do but to say so.
BatchCreate(b) ==
  /\ batch[b].phase = "none"
  /\ \E request \in Requests : batch' = [batch EXCEPT ![b] = Fresh(request)]
  /\ UNCHANGED taken

\* Refused before any statement that looks for users.
RefuseItem(b) ==
  /\ AtRow(b)
  /\ \/ Duplicate(batch[b].request, batch[b].row)
     \/ ItemOf(b).kind = "invalid"
  /\ ItemFails(b)
  /\ UNCHANGED taken

\* FindByUsername, and the hash of the password.
LookUpUsername(b) ==
  /\ AtRow(b)
  /\ ~ Duplicate(batch[b].request, batch[b].row)
  /\ ItemOf(b).kind # "invalid"
  /\ IF ItemOf(b).username \in taken THEN ItemFails(b)
     ELSE IF ItemOf(b).kind = "unhashable" THEN BatchFails(b)
     ELSE batch' = [batch EXCEPT ![b].phase = "looked_up"]
  /\ UNCHANGED taken

\* The transaction of Create; the index refuses a name taken meanwhile, with an
\* error that is not ErrUsernameTaken.
StoreUser(b) ==
  /\ batch[b].phase = "looked_up"
  /\ IF ItemOf(b).username \in taken
     THEN BatchFails(b) /\ UNCHANGED taken
     ELSE /\ taken' = taken \cup {ItemOf(b).username}
          /\ batch' = [batch EXCEPT ![b].phase = "stored",
                                    ![b].inserted = @ \cup {batch[b].row}]

\* Mutated: a user that is not found afterwards is an error of the row.
ReadBackOrRefuse(b) ==
  /\ batch[b].phase = "stored"
  /\ IF ItemOf(b).username \in taken
     THEN batch' = [batch EXCEPT ![b].phase = "row", ![b].row = @ + 1,
                                 ![b].success = @ + 1]
     ELSE ItemFails(b)
  /\ UNCHANGED taken

\* FindByID and the permissions: a user deleted by now is nil, and dereferenced.
\* A user deleted and made again meanwhile has another id.
ReadBack(b) ==
  /\ batch[b].phase = "stored"
  /\ \/ /\ ItemOf(b).username \in taken
        /\ batch' = [batch EXCEPT ![b].phase = "row", ![b].row = @ + 1,
                                  ![b].success = @ + 1]
     \/ BatchFails(b)
  /\ UNCHANGED taken

AnswerBatch(b) ==
  /\ batch[b].phase = "row" /\ batch[b].row > batch[b].request.total
  /\ batch' = [batch EXCEPT ![b].phase = "answered"]
  /\ UNCHANGED taken

\* A statement fails, or the caller goes away.
StatementFails(b) ==
  /\ batch[b].phase \in {"row", "looked_up", "stored"}
  /\ BatchFails(b)
  /\ UNCHANGED taken

\* Create of a single user, and Delete, by others.
OthersCreate(u) == u \notin taken /\ taken' = taken \cup {u} /\ UNCHANGED batch

OthersDelete(u) == u \in taken /\ taken' = taken \ {u} /\ UNCHANGED batch

BatchesNext ==
  \/ \E b \in Importers :
       \/ BatchCreate(b) \/ RefuseItem(b) \/ LookUpUsername(b) \/ StoreUser(b)
       \/ ReadBack(b) \/ AnswerBatch(b) \/ StatementFails(b)
  \/ \E u \in Usernames : OthersCreate(u) \/ OthersDelete(u)

BatchesSpec == BatchesInit /\ [][BatchesNext]_batchVars
-----------------------------------------------------------------------------
(***************************************************************************)
(* Properties.                                                             *)
(***************************************************************************)

BatchesTypeOK == taken \subseteq Usernames /\ batch \in [Importers -> Batch]

\* An answer tells of every row what became of it: those it does not list as
\* errors are the ones whose user this request stored, and it counts them.
AnswersMatchTheTable ==
  \A b \in Importers : batch[b].phase = "answered" =>
    /\ batch[b].errors = (1 .. batch[b].request.total) \ batch[b].inserted
    /\ batch[b].success = Cardinality(batch[b].inserted)

\* No request stores a user twice, whatever is deleted while it runs.
NoUserTwice ==
  \A b \in Importers : \A i, j \in batch[b].inserted :
    i # j => batch[b].request.item[i].username # batch[b].request.item[j].username

\* Together: a batch stores each user once and says of every row what became of
\* it, whatever other requests do to the table between its statements.
BatchesKeepTheirWord == AnswersMatchTheTable /\ NoUserTwice
=============================================================================
