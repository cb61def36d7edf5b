----------------------------- MODULE Pagination ------------------------------
(***************************************************************************)
(* The three lists, read page by page beside commands: list_initiatives of *)
(* an organization, list_updates and list_projects of an initiative.  A    *)
(* page is one statement; the caller carries a cursor from one page to the *)
(* next, and nothing holds the rows still in between.                      *)
(*                                                                         *)
(* The key of a row is what its list is ordered by: row_seq, which an      *)
(* INSERT draws from a sequence before it commits, or a position.  list    *)
(* says which list a behaviour is about.  steady is a history variable:    *)
(* the rows that have been in the list, at one key, since its reading      *)
(* began; log is another: the rows in the order of their commits.          *)
(***************************************************************************)
EXTENDS Integers, Sequences, FiniteSets, FiniteSetsExt

CONSTANTS
  None,
  Rows,         \* initiatives, updates or projects, by id
  Limits,       \* 1..200: what a caller may ask for
  MaxPosition,
  MaxRowSeq     \* bounds the numbers that a sequence gives out

ASSUME LimitsArePositive == Limits \subseteq Nat \ {0}
ASSUME RowsFinite == IsFiniteSet(Rows)
ASSUME BoundsAreNatural == MaxPosition \in Nat /\ MaxRowSeq \in Nat
ASSUME NoneIsNoKey == None \notin Int

VARIABLES
  list,      \* "initiatives", "updates" or "projects"
  key,       \* the key of a committed row, or None
  entering,  \* the key of an inserted row that is not committed, or None
  drawn,     \* the last number of the sequence
  hidden,    \* the initiatives that are archived
  log,
  step,      \* where the reader is: "idle", "reading", "done"
  limit,
  withArchived,
  cursor,
  listed,    \* how often each row has been listed
  steady

table == <<list, key, entering, drawn, hidden, log>>
reader == <<step, limit, withArchived, cursor, listed>>
vars == <<table, reader, steady>>

Lists == {"initiatives", "updates", "projects"}

TypeOK ==
  /\ list \in Lists
  /\ key \in [Rows -> Nat \cup {None}]
  /\ entering \in [Rows -> Nat \cup {None}]
  /\ drawn \in Nat
  /\ hidden \subseteq Rows
  /\ log \in Seq(Rows)
  /\ step \in {"idle", "reading", "done"}
  /\ limit \in Limits \cup {None}
  /\ withArchived \in BOOLEAN
  /\ cursor \in Int
  /\ listed \in [Rows -> Nat]
  /\ steady \subseteq Rows

(* The cursor of a first page: position > -1, row_seq > 0. *)
Beginning == IF list = "projects" THEN -1 ELSE 0

Init ==
  /\ list \in Lists
  /\ key = [x \in Rows |-> None]
  /\ entering = [x \in Rows |-> None]
  /\ drawn = 0
  /\ hidden = {}
  /\ log = <<>>
  /\ step = "idle"
  /\ limit = None
  /\ withArchived = FALSE
  /\ cursor = Beginning
  /\ listed = [x \in Rows |-> 0]
  /\ steady = {}

-----------------------------------------------------------------------------
(* Reading *)

(* WHERE $2 OR NOT archived, for a reader that asks for archived or not. *)
Shown(x, archivedToo) == key[x] # None /\ (archivedToo \/ x \notin hidden)

(* The rows of the statement but for its LIMIT: key > cursor. *)
Beyond == {x \in Rows : Shown(x, withArchived) /\ key[x] > cursor}

(* A mistake: the statement asks for limit rows, so there never are more. *)
FetchedExactly ==
  {x \in Beyond : Cardinality({y \in Beyond : key[y] < key[x]}) < limit}

(* ORDER BY the key LIMIT limit + 1: a row more than the page has. *)
Fetched ==
  {x \in Beyond : Cardinality({y \in Beyond : key[y] < key[x]}) < limit + 1}

HasMore == Cardinality(Fetched) > limit

(* The handler pops the extra row. *)
Page ==
  IF HasMore THEN Fetched \ {CHOOSE x \in Fetched : \A y \in Fetched : key[y] <= key[x]}
  ELSE Fetched

(* A mistake: the next page begins before the last row of this one. *)
NextCursorBefore == IF Page = {} THEN cursor ELSE Max({key[x] : x \in Page}) - 1

(* A mistake: the last row is asked for when there is none left. *)
NextCursorMissing == None

NextCursor == IF Page = {} THEN cursor ELSE Max({key[x] : x \in Page})

(* A caller begins to read the list that it will follow to its end. *)
Begin ==
  /\ step = "idle"
  /\ limit' \in Limits
  /\ withArchived' \in IF list = "initiatives" THEN BOOLEAN ELSE {TRUE}
  /\ cursor' = Beginning
  /\ listed' = [x \in Rows |-> 0]
  /\ steady' = {x \in Rows : Shown(x, withArchived')}
  /\ step' = "reading"
  /\ UNCHANGED table

(* One call: a page, and the cursor of the next if there are more rows. *)
ReadPage ==
  /\ step = "reading"
  /\ listed' = [x \in Rows |-> IF x \in Page THEN listed[x] + 1 ELSE listed[x]]
  /\ IF HasMore
     THEN cursor' = NextCursor /\ UNCHANGED step
     ELSE step' = "done" /\ UNCHANGED cursor
  /\ UNCHANGED <<table, limit, withArchived, steady>>

Finish ==
  /\ step = "done"
  /\ step' = "idle"
  /\ limit' = None
  /\ withArchived' = FALSE
  /\ cursor' = Beginning
  /\ listed' = [x \in Rows |-> 0]
  /\ steady' = {}
  /\ UNCHANGED table

-----------------------------------------------------------------------------
(* Writing *)

(* What was steady and still is, now that the table has changed. *)
StillSteady ==
  steady' = {x \in steady : key'[x] = key[x] /\ (withArchived \/ x \notin hidden')}

(* A mistake: add_update does not lock the initiative. *)
MayInsertUnlocked(x) ==
  /\ list # "projects"
  /\ key[x] = None /\ entering[x] = None

(* create_initiative holds no lock that another create waits for;          *)
(* add_update holds the initiative from before its INSERT to its commit.   *)
MayInsert(x) ==
  /\ list # "projects"
  /\ key[x] = None /\ entering[x] = None
  /\ list = "updates" => \A y \in Rows : entering[y] = None

(* INSERT: the sequence gives the row its number. *)
Insert(x) ==
  /\ MayInsert(x)
  /\ drawn < MaxRowSeq
  /\ drawn' = drawn + 1
  /\ entering' = [entering EXCEPT ![x] = drawn + 1]
  /\ UNCHANGED <<list, key, hidden, log, reader>>
  /\ StillSteady

CommitInsert(x) ==
  /\ entering[x] # None
  /\ key' = [key EXCEPT ![x] = entering[x]]
  /\ entering' = [entering EXCEPT ![x] = None]
  /\ log' = Append(log, x)
  /\ UNCHANGED <<list, drawn, hidden, reader>>
  /\ StillSteady

(* The number is lost: the sequence does not go back. *)
RollbackInsert(x) ==
  /\ entering[x] # None
  /\ entering' = [entering EXCEPT ![x] = None]
  /\ UNCHANGED <<list, key, drawn, hidden, log, reader>>
  /\ StillSteady

ArchiveInitiative(x) ==
  /\ list = "initiatives"
  /\ key[x] # None /\ x \notin hidden
  /\ hidden' = hidden \cup {x}
  /\ UNCHANGED <<list, key, entering, drawn, log, reader>>
  /\ StillSteady

AttachProject(x) ==
  /\ list = "projects"
  /\ key[x] = None
  /\ \E p \in 0..MaxPosition :
       /\ \A y \in Rows : key[y] # p
       /\ key' = [key EXCEPT ![x] = p]
  /\ UNCHANGED <<list, entering, drawn, hidden, log, reader>>
  /\ StillSteady

DetachProject(x) ==
  /\ list = "projects"
  /\ key[x] # None
  /\ key' = [key EXCEPT ![x] = None]
  /\ UNCHANGED <<list, entering, drawn, hidden, log, reader>>
  /\ StillSteady

(* Any complete order, committed at once. *)
ReorderProjects ==
  /\ list = "projects"
  /\ \E order \in [{x \in Rows : key[x] # None} -> 0..MaxPosition] :
       /\ \A x, y \in DOMAIN order : x # y => order[x] # order[y]
       /\ key' = [x \in Rows |-> IF key[x] # None THEN order[x] ELSE None]
  /\ UNCHANGED <<list, entering, drawn, hidden, log, reader>>
  /\ StillSteady

Next ==
  \/ Begin \/ ReadPage \/ Finish
  \/ \E x \in Rows :
       \/ Insert(x) \/ CommitInsert(x) \/ RollbackInsert(x)
       \/ ArchiveInitiative(x)
       \/ AttachProject(x) \/ DetachProject(x)
  \/ ReorderProjects

Spec == Init /\ [][Next]_vars

-----------------------------------------------------------------------------
(* Properties *)

(* A row that is in the list, at one place, from the first page to the     *)
(* last is listed exactly once, whatever else is inserted, removed, moved  *)
(* or hidden meanwhile, and whatever the limit.                            *)
SteadyRowsListedOnce == step = "done" => \A x \in steady : listed[x] = 1

(* No initiative and no update is ever listed twice: their keys do not     *)
(* change.  (A project that a reordering moves up between two pages is.)   *)
NothingTwice == list # "projects" => \A x \in Rows : listed[x] <= 1

(* The updates of an initiative are read without gaps: what has been       *)
(* listed is at any time a beginning of the updates in commit order, so    *)
(* nothing older than a listed update appears later.  row_seq alone does   *)
(* not give this (a list of initiatives has gaps); it holds because        *)
(* add_update draws it under the lock of the initiative.                   *)
UpdatesWithoutGaps ==
  list = "updates" =>
    \E n \in 0..Len(log) : {x \in Rows : listed[x] > 0} = {log[m] : m \in 1..n}

=============================================================================
