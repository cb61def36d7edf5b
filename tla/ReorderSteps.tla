---------------------------- MODULE ReorderSteps -----------------------------
(***************************************************************************)
(* The writing statements of reorder_projects, row by row.  PostgreSQL     *)
(* checks UNIQUE (organization_id, initiative_id, position) at every row   *)
(* it writes, so the rows cannot simply take their new positions one after *)
(* the other.  The code first moves every row out of the way in one UPDATE *)
(* (which visits the rows in an order of its own), then writes the items   *)
(* one by one.  The initiative is locked: nobody else touches the rows.    *)
(* PortfolioStore takes all of this as one step, which writes Reordered.   *)
(***************************************************************************)
EXTENDS Portfolio

CONSTANTS
  StagingOffset,  \* 1000000
  Memberships     \* what may be attached when a reordering begins

ASSUME OffsetBeyondPositions == StagingOffset \in Nat /\ StagingOffset > MaxPosition
ASSUME MembershipsAreTyped == Memberships \subseteq Members

(* A row of the transaction may be beyond the positions of a Member. *)
Row == [snapshot: Snapshots, position: Nat, revision: Nat]
ASSUME NoneIsNoRow == None \notin Row

VARIABLES
  before,    \* the rows that were locked
  items,     \* the order that was asked for, complete
  rows,      \* the rows as the transaction leaves them
  unstaged,  \* the projects that the first UPDATE has yet to move
  next,      \* the item to write next
  outcome    \* "open", "ok", or the unique violation, which no domain failure names

vars == <<before, items, rows, unstaged, next, outcome>>

-----------------------------------------------------------------------------
(* The unique position is checked as a row is written. *)
Taken(p, position) ==
  \E q \in Attached(rows) \ {p} : rows[q].position = position

(* A mistake: the rows move by one. *)
StagedByOne(member) == [member EXCEPT !.position = @ + 1]

Staged(member) == [member EXCEPT !.position = @ + StagingOffset]

(* A mistake: the statement sets the position alone. *)
WrittenKeepingRevision(member, item) == [member EXCEPT !.position = item.position]

Written(member, item) ==
  [snapshot |-> member.snapshot, position |-> item.position,
   revision |-> member.revision + 1]

(* reorder_projects has found the order complete. *)
Init ==
  /\ before \in Memberships
  /\ \A p, q \in Attached(before) : p # q => before[p].position # before[q].position
  /\ \E r \in Requests :
       /\ r.op = "reorder_projects"
       /\ CompleteOrder(r.items, before)
       /\ items = r.items
  /\ rows = before
  /\ unstaged = Attached(before)
  /\ next = 1
  /\ outcome = "open"

(* One row of UPDATE .. SET position = position + 1000000. *)
Stage(p) ==
  /\ outcome = "open"
  /\ p \in unstaged
  /\ IF Taken(p, Staged(rows[p]).position)
     THEN outcome' = "UniqueViolation" /\ UNCHANGED <<rows, unstaged>>
     ELSE /\ rows' = [rows EXCEPT ![p] = Staged(@)]
          /\ unstaged' = unstaged \ {p}
          /\ UNCHANGED outcome
  /\ UNCHANGED <<before, items, next>>

(* UPDATE .. SET position, membership_revision + 1 for the next item. *)
WriteItem ==
  /\ outcome = "open"
  /\ unstaged = {}
  /\ next <= Len(items)
  /\ LET item == items[next]
         p == item.project
     IN  IF Taken(p, Written(rows[p], item).position)
         THEN outcome' = "UniqueViolation" /\ UNCHANGED <<rows, next>>
         ELSE /\ rows' = [rows EXCEPT ![p] = Written(@, item)]
              /\ next' = next + 1
              /\ UNCHANGED outcome
  /\ UNCHANGED <<before, items, unstaged>>

Finish ==
  /\ outcome = "open"
  /\ unstaged = {}
  /\ next > Len(items)
  /\ outcome' = "ok"
  /\ UNCHANGED <<before, items, rows, unstaged, next>>

Next == (\E p \in Projects : Stage(p)) \/ WriteItem \/ Finish

Spec == Init /\ [][Next]_vars

-----------------------------------------------------------------------------
(* Properties *)

(* No row ever meets a position that is taken, in whatever order the first *)
(* UPDATE visits the rows: a complete order never ends in a database error *)
(* (the offset is beyond every position a handler lets in, and the items   *)
(* have positions of their own).                                           *)
NeverCollides == outcome # "UniqueViolation"

(* Row by row, the statements write what PortfolioStore writes at once:    *)
(* every project at its new position, with one more revision.              *)
WritesTheOrder == outcome = "ok" => rows = Reordered(items, before)
=============================================================================
