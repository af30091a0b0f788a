-------------------------------- MODULE Listing --------------------------------
(***************************************************************************)
(* The paged lists: projects, rubrics, tasks, videos, users, the videos    *)
(* assigned to a scorer and the scoreboard of a task.  All are read alike: *)
(* a request counts the rows of its query, then fetches OFFSET (page - 1) x *)
(* size LIMIT size in the query's order, in two statements outside a       *)
(* transaction, and answers with the page and the number of pages.         *)
(*                                                                         *)
(* A client reads a list page by page, until the last answer says that     *)
(* there are no more (the client is external); rows come, go and move      *)
(* between its requests, and between the two statements of one.            *)
(***************************************************************************)
EXTENDS Integers, FiniteSets

CONSTANTS
  Entries,       \* rows that may be in a list
  Places,        \* what a query orders by: smaller comes first
  Sizes,         \* page sizes asked for
  DefaultSize    \* 20

ASSUME ListingAssumption ==
  /\ IsFiniteSet(Entries)
  /\ Places \subseteq Nat \ {0}
  /\ Sizes \subseteq Int
  /\ DefaultSize \in Nat \ {0}

VARIABLES
  listing,    \* the list that is read: what may happen to its rows
  place,      \* where a row is in the order, 0: not in the list
  reader,     \* the client: its page size, pages it has read, last count
  shown,      \* rows on the pages read so far
  repeated,   \* rows on more than one of them
  steady,     \* rows that stayed where they were, nothing before them left
  unpushed    \* rows that stayed where they were, nothing before them came

listingVars == <<listing, place, reader, shown, repeated, steady, unpushed>>
-----------------------------------------------------------------------------
(***************************************************************************)
(* The lists.  "comes", "goes" and "moves" are the changes their rows      *)
(* meet; whole: the client asks for all rows at once.                      *)
(***************************************************************************)
ListOf(changes, whole) == [changes |-> changes, whole |-> whole]

\* Newest first; a project is deleted, or leaves by a filter of the query.
ListProjects == ListOf({"comes", "goes"}, FALSE)

ListRubrics == ListOf({"comes", "goes"}, FALSE)

\* No operation takes a task away.
ListTasks == ListOf({"comes"}, FALSE)

ListVideos == ListOf({"comes", "goes"}, FALSE)

ListUsers == ListOf({"comes", "goes"}, FALSE)

\* Ordered by assigned_at: a video comes with its assignment, goes when it is
\* taken from the scorer, and moves when it is assigned again.
ListAssignedVideos == ListOf({"comes", "goes", "moves"}, FALSE)

\* Ordered by a column of the caller's choice: a video comes when it is ready,
\* moves with its score, and several may share a place.
ListScoreboard(scope) == ListOf({"comes", "goes", "moves"}, scope = "all")

Lists == {ListProjects, ListRubrics, ListTasks, ListVideos, ListUsers,
          ListAssignedVideos, ListScoreboard("page"), ListScoreboard("all")}

\* PageSize <= 0, which a size that is no number is read as, is the default.
PageSize(asked) == IF asked <= 0 THEN DefaultSize ELSE asked

\* Mutated: the quotient is not rounded up.
TotalPagesRoundedDown(total, size) == total \div size

\* math.Ceil(total / size); the scoreboard says 1 for 0, which ends a reading
\* just so.
TotalPages(total, size) == (total + size - 1) \div size

\* Mutated: the pages overlap by a row.
OffsetShort(page, size) == IF page = 0 THEN 0 ELSE page * size - 1

\* (Page - 1) * PageSize, with page - 1 pages read before.
Offset(page, size) == page * size
-----------------------------------------------------------------------------
Listed == {r \in Entries : place[r] # 0}

Ahead(r) == {q \in Listed : place[q] < place[r]}

\* No other row shares its place: the order of the query puts it at one
\* position alone.
Distinct(r) == r \in Listed /\ \A q \in Listed : q # r => place[q] # place[r]

\* The orders in which a query may return the rows: equal ones in any order.
Arrangements ==
  {pos \in [Listed -> 0 .. (Cardinality(Listed) - 1)] :
     \A q, r \in Listed : /\ q # r => pos[q] # pos[r]
                          /\ place[q] < place[r] => pos[q] < pos[r]}

\* The answer to the request under way is the last one the client waits for.
LastPage ==
  \/ listing.whole
  \/ reader.pages + 1 >= TotalPages(reader.total, reader.size)

ListingRest ==
  /\ listing = ListTasks
  /\ place = [r \in Entries |-> 0]
  /\ reader = [phase |-> "idle", size |-> DefaultSize, pages |-> 0, total |-> 0]
  /\ shown = {} /\ repeated = {} /\ steady = {} /\ unpushed = {}

ListingInit ==
  /\ listing \in Lists
  /\ place \in [Entries -> Places \cup {0}]
  /\ \E asked \in Sizes :
       reader = [phase |-> "idle", size |-> PageSize(asked), pages |-> 0, total |-> 0]
  /\ shown = {} /\ repeated = {} /\ steady = {} /\ unpushed = {}
-----------------------------------------------------------------------------
(***************************************************************************)
(* The client's requests.                                                  *)
(***************************************************************************)

\* The first statement; a reading begins with the one for the first page.
CountRows ==
  /\ reader.phase = "idle"
  /\ reader' = [reader EXCEPT !.phase = "counted", !.total = Cardinality(Listed)]
  /\ IF reader.pages = 0
     THEN /\ steady' = {r \in Listed : Distinct(r)}
          /\ unpushed' = {r \in Listed : Distinct(r)}
     ELSE UNCHANGED <<steady, unpushed>>
  /\ UNCHANGED <<listing, place, shown, repeated>>

Shows(rows) ==
  /\ shown' = shown \cup rows
  /\ repeated' = repeated \cup (rows \cap shown)
  /\ reader' = [reader EXCEPT !.phase = IF LastPage THEN "done" ELSE "idle",
                              !.pages = @ + 1]
  /\ UNCHANGED <<listing, place, steady, unpushed>>

\* The second statement, and the answer.
FetchPage ==
  LET from == Offset(reader.pages, reader.size)
  IN  /\ reader.phase = "counted"
      /\ ~ listing.whole
      /\ \E pos \in Arrangements :
           Shows({r \in Listed : from <= pos[r] /\ pos[r] < from + reader.size})

\* scope = all: without OFFSET and LIMIT.
FetchAll ==
  /\ reader.phase = "counted"
  /\ listing.whole
  /\ Shows(Listed)

\* An error, a lost answer; the client asks for the page again.
RequestBreaksOff ==
  /\ reader.phase = "counted"
  /\ reader' = [reader EXCEPT !.phase = "idle"]
  /\ UNCHANGED <<listing, place, shown, repeated, steady, unpushed>>
-----------------------------------------------------------------------------
(***************************************************************************)
(* The rows, changed by requests of other clients.                         *)
(***************************************************************************)

\* The count is made and no further page will be read: who is pushed off the
\* last page now is not looked for on the next.
Closing == reader.phase = "counted" /\ ~ listing.whole /\ LastPage

\* The rows of S that a row coming to k leaves alone.
UnpushedBy(S, k) == {q \in S : place[q] < k}

ApartFrom(S, k) == IF Closing THEN UnpushedBy(S, k) ELSE {q \in S : place[q] # k}

RowComes(r, k) ==
  /\ "comes" \in listing.changes
  /\ place[r] = 0
  /\ place' = [place EXCEPT ![r] = k]
  /\ steady' = ApartFrom(steady, k)
  /\ unpushed' = UnpushedBy(unpushed, k)
  /\ UNCHANGED <<listing, reader, shown, repeated>>

RowGoes(r) ==
  /\ "goes" \in listing.changes
  /\ place[r] # 0
  /\ place' = [place EXCEPT ![r] = 0]
  /\ steady' = UnpushedBy(steady, place[r])
  /\ unpushed' = unpushed \ {r}
  /\ UNCHANGED <<listing, reader, shown, repeated>>

RowMoves(r, k) ==
  /\ "moves" \in listing.changes
  /\ place[r] # 0
  /\ place' = [place EXCEPT ![r] = k]
  /\ steady' = ApartFrom(UnpushedBy(steady, place[r]), k)
  /\ unpushed' = UnpushedBy(unpushed \ {r}, k)
  /\ UNCHANGED <<listing, reader, shown, repeated>>

ListingNext ==
  \/ CountRows \/ FetchPage \/ FetchAll \/ RequestBreaksOff
  \/ \E r \in Entries : \/ RowGoes(r)
                        \/ \E k \in Places : RowComes(r, k) \/ RowMoves(r, k)

ListingSpec == ListingInit /\ [][ListingNext]_listingVars
-----------------------------------------------------------------------------
(***************************************************************************)
(* Properties.                                                             *)
(***************************************************************************)

ListingTypeOK ==
  /\ listing \in Lists
  /\ place \in [Entries -> Places \cup {0}]
  /\ reader \in [phase : {"idle", "counted", "done"}, size : Nat \ {0},
                 pages : Nat, total : Nat]
  /\ shown \subseteq Entries /\ repeated \subseteq shown
  /\ steady \subseteq Listed /\ unpushed \subseteq Listed

\* A client that has read a list to its end has seen every row that was there
\* all the time at a place of its own, however many rows came, unless one
\* before it went, or came between the count and the rows of the last page.
NothingIsMissed == reader.phase = "done" => steady \subseteq shown

\* And it has seen no such row twice unless one before it came.
NothingIsRepeated == repeated \cap unpushed = {}

\* Together: a list that is read page by page, each page a request of its own
\* and each request two statements, shows every row once, but for those that
\* other rows pushed over the edge of a page.
ListsAreReadOnce == NothingIsMissed /\ NothingIsRepeated
=============================================================================
