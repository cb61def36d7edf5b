------------------------- MODULE ReorderStepsProofs ---------------------------
(* Whatever the order in which rows are visited, and however many there    *)
(* are, reorder_projects meets no taken position and writes Reordered.     *)
EXTENDS ReorderSteps, PortfolioTablesProofs

(* What stays so from Init on: a complete order of distinct positions. *)
Asked ==
  /\ before \in Members
  /\ \A p, q \in Attached(before) : p # q => before[p].position # before[q].position
  /\ \E r \in Requests :
       /\ r.op = "reorder_projects"
       /\ CompleteOrder(r.items, before)
       /\ items = r.items

(* What a row is, by what has been done to it. *)
Done(p) == \E n \in 1..next - 1 : items[n].project = p

RowNow(p) ==
  IF before[p] = None \/ p \in unstaged THEN before[p]
  ELSE IF Done(p) THEN Reordered(items, before)[p]
  ELSE Staged(before[p])

RowByRow ==
  /\ next \in 1..Len(items) + 1
  /\ unstaged \subseteq Attached(before)
  /\ unstaged # {} => next = 1
  /\ rows = [p \in Projects |-> RowNow(p)]
  /\ outcome \in {"open", "ok"}
  /\ outcome = "ok" => unstaged = {} /\ next = Len(items) + 1

(* The inductive invariant. *)
Inv == Asked /\ RowByRow

(* What Asked says of the items and of where they lead. *)
LEMMA AskedItems ==
  ASSUME Asked
  PROVE  /\ Len(items) \in Nat
         /\ \A n \in 1..Len(items) :
              /\ items[n] \in OrderItem
              /\ items[n].project \in Attached(before)
              /\ before[items[n].project] \in Member
         /\ \A m, n \in 1..Len(items) :
              m # n => /\ items[m].project # items[n].project
                       /\ items[m].position # items[n].position
         /\ \A p \in Attached(before) :
              \E n \in 1..Len(items) :
                /\ items[n].project = p
                /\ Reordered(items, before)[p].position = items[n].position
<1>1. PICK r \in Requests : /\ r.op = "reorder_projects"
                            /\ CompleteOrder(r.items, before)
                            /\ items = r.items
  BY DEF Asked
<1>2. r \in ReorderRequest /\ before \in Members
  BY <1>1, RequestFields DEF Asked
<1>3. Len(items) \in Nat
  BY <1>1, <1>2 DEF ReorderRequest
<1>4. \A n \in 1..Len(items) :
        /\ items[n] \in OrderItem
        /\ items[n].project \in Attached(before)
        /\ before[items[n].project] \in Member
  BY <1>1, <1>2, OrderedAreAttached, NoneIsNoValue DEF Attached, OrderItem
<1>5. \A m, n \in 1..Len(items) :
        m # n => /\ items[m].project # items[n].project
                 /\ items[m].position # items[n].position
  BY <1>1 DEF CompleteOrder
<1>6. \A p \in Attached(before) :
        \E n \in 1..Len(items) :
          /\ items[n].project = p
          /\ Reordered(items, before)[p].position = items[n].position
  BY <1>1, <1>2, ReorderedPositions
<1> QED
  BY <1>3, <1>4, <1>5, <1>6

(* An item leaves its project at the item's position, one revision on. *)
LEMMA WrittenIsReordered ==
  ASSUME Asked, NEW n \in 1..Len(items)
  PROVE  LET p == items[n].project
         IN  Reordered(items, before)[p] =
               [snapshot |-> before[p].snapshot, position |-> items[n].position,
                revision |-> before[p].revision + 1]
<1> DEFINE p == items[n].project
<1>1. p \in Attached(before) /\ p \in Projects
  BY AskedItems DEF Attached
<1>2. \A m \in 1..Len(items) : items[m].project = p => m = n
  BY AskedItems
<1>3. (CHOOSE m \in 1..Len(items) : items[m].project = p) = n
  BY <1>2
<1> QED
  BY <1>1, <1>3 DEF Reordered

(* A reordered row is a row, at a position in the bounds. *)
LEMMA ReorderedRow ==
  ASSUME Asked, NEW p \in Attached(before)
  PROVE  /\ Reordered(items, before)[p] \in Row
         /\ Reordered(items, before)[p].position \in Positions
<1>1. PICK n \in 1..Len(items) : items[n].project = p
  BY AskedItems
<1>2. items[n] \in OrderItem /\ before[p] \in Member
  BY <1>1, AskedItems
<1>3. Reordered(items, before)[p] =
        [snapshot |-> before[p].snapshot, position |-> items[n].position,
         revision |-> before[p].revision + 1]
  BY <1>1, WrittenIsReordered
<1> QED
  BY <1>2, <1>3, LimitsAreNatural DEF Row, Member, OrderItem, Positions

(* Before the first statement no row has moved. *)
LEMMA InitInv == Init => Inv
<1> SUFFICES ASSUME Init PROVE Inv
  OBVIOUS
<1>1. Asked
  BY MembershipsAreTyped DEF Init, Asked
<1>2. Len(items) \in Nat
  BY <1>1, AskedItems
<1>3. before = [p \in Projects |-> before[p]]
  BY <1>1 DEF Asked, Members
<1>4. \A p \in Projects : RowNow(p) = before[p]
  BY DEF Init, RowNow, Attached
<1>5. rows = [p \in Projects |-> RowNow(p)]
  BY <1>3, <1>4 DEF Init
<1>6. next \in 1..Len(items) + 1
  BY <1>2 DEF Init
<1>7. RowByRow
  BY <1>5, <1>6 DEF Init, RowByRow
<1> QED
  BY <1>1, <1>7 DEF Inv

(* Where the rows are: unstaged rows at their old positions, staged ones   *)
(* beyond every position, written ones at those of their items.            *)
LEMMA Places ==
  ASSUME Inv, NEW p \in Attached(before)
  PROVE  /\ p \in Projects
         /\ before[p] \in Member
         /\ rows[p] = RowNow(p)
         /\ p \in unstaged => rows[p] = before[p]
         /\ p \notin unstaged /\ ~Done(p) =>
              /\ rows[p] = Staged(before[p])
              /\ rows[p].position = before[p].position + StagingOffset
         /\ p \notin unstaged /\ Done(p) =>
              rows[p] = Reordered(items, before)[p]
<1>1. p \in Projects /\ before[p] # None /\ before[p] \in Member
  BY DEF Inv, Asked, Attached, Members
<1>2. rows[p] = RowNow(p)
  BY <1>1 DEF Inv, RowByRow
<1>3. Staged(before[p]).position = before[p].position + StagingOffset
  BY <1>1 DEF Staged, Member
<1> QED
  BY <1>1, <1>2, <1>3 DEF RowNow

(* The statements add no row and remove none. *)
LEMMA SameAttached ==
  ASSUME Inv
  PROVE  Attached(rows) = Attached(before)
<1>1. ASSUME NEW p \in Projects PROVE rows[p] = None <=> before[p] = None
  <2>1. CASE before[p] = None
    BY <2>1 DEF Inv, RowByRow, RowNow
  <2>2. CASE before[p] # None
    <3>1. p \in Attached(before) /\ before[p] \in Member
      BY <2>2, Places DEF Attached
    <3>2. Staged(before[p]) \in Row
      BY <3>1, OffsetBeyondPositions, LimitsAreNatural DEF Staged, Member, Row, Positions
    <3>3. Reordered(items, before)[p] \in Row
      BY <3>1, ReorderedRow DEF Inv
    <3> QED
      BY <3>1, <3>2, <3>3, Places, NoneIsNoRow, NoneIsNoValue
  <2> QED
    BY <2>1, <2>2
<1> QED
  BY <1>1 DEF Attached

-----------------------------------------------------------------------------
(* A staged row is beyond every row that has yet to move, and as far from  *)
(* the other staged rows as it was before.                                 *)
LEMMA StageFree ==
  ASSUME Inv, NEW p \in unstaged
  PROVE  ~Taken(p, Staged(rows[p]).position)
<1>1. p \in Attached(before) /\ next = 1
  BY DEF Inv, RowByRow
<1>2. rows[p] = before[p] /\ before[p] \in Member
  BY <1>1, Places
<1>3. Staged(rows[p]).position = before[p].position + StagingOffset
  BY <1>2 DEF Staged, Member
<1>4. ASSUME NEW q \in Attached(rows) \ {p},
             rows[q].position = before[p].position + StagingOffset
      PROVE  FALSE
  <2>1. q \in Attached(before) /\ q # p
    BY SameAttached
  <2>2. ~Done(q)
    BY <1>1 DEF Done
  <2>3. before[q] \in Member /\ before[q].position # before[p].position
    BY <1>1, <2>1, Places DEF Inv, Asked
  <2>4. CASE q \in unstaged
    BY <1>2, <1>4, <2>1, <2>3, <2>4, Places, OffsetBeyondPositions, LimitsAreNatural
    DEF Member, Positions
  <2>5. CASE q \notin unstaged
    BY <1>2, <1>4, <2>1, <2>2, <2>3, <2>5, Places, OffsetBeyondPositions,
       LimitsAreNatural
    DEF Member, Positions
  <2> QED
    BY <2>4, <2>5
<1> QED
  BY <1>3, <1>4 DEF Taken

(* The position of the next item is below every staged row, and no item    *)
(* before it has it.                                                       *)
LEMMA WriteFree ==
  ASSUME Inv, unstaged = {}, next <= Len(items)
  PROVE  LET p == items[next].project
         IN  /\ p \in Attached(before)
             /\ rows[p] = Staged(before[p])
             /\ ~Done(p)
             /\ ~Taken(p, Written(rows[p], items[next]).position)
<1> DEFINE p == items[next].project
<1>1. Asked /\ Len(items) \in Nat /\ next \in 1..Len(items)
  BY AskedItems DEF Inv, RowByRow
<1>2. items[next] \in OrderItem /\ p \in Attached(before)
  BY <1>1, AskedItems
<1>3. ~Done(p)
  BY <1>1, AskedItems DEF Done
<1>4. rows[p] = Staged(before[p]) /\ before[p] \in Member
  BY <1>2, <1>3, Places
<1>5. Written(rows[p], items[next]).position = items[next].position
  BY <1>4 DEF Written, Staged, Member
<1>6. ASSUME NEW q \in Attached(rows) \ {p},
             rows[q].position = items[next].position
      PROVE  FALSE
  <2>1. q \in Attached(before) /\ q # p
    BY SameAttached
  <2>2. before[q] \in Member
    BY <2>1, Places
  <2>3. CASE Done(q)
    <3>1. PICK m \in 1..next - 1 : items[m].project = q
      BY <2>3 DEF Done
    <3>2. m \in 1..Len(items) /\ m # next
      BY <1>1, <3>1
    <3>3. items[m].position # items[next].position
      BY <1>1, <3>2, AskedItems
    <3>4. rows[q].position = items[m].position
      <4>1. rows[q] = Reordered(items, before)[q]
        BY <2>1, <2>3, Places
      <4>2. Reordered(items, before)[items[m].project] =
              [snapshot |-> before[items[m].project].snapshot,
               position |-> items[m].position,
               revision |-> before[items[m].project].revision + 1]
        BY <1>1, <3>2, WrittenIsReordered
      <4> QED
        BY <3>1, <4>1, <4>2
    <3> QED
      BY <1>6, <3>3, <3>4
  <2>4. CASE ~Done(q)
    <3>1. rows[q].position = before[q].position + StagingOffset
      BY <2>1, <2>4, Places
    <3> QED
      <4>1. before[q].position \in Nat
        BY <2>2, LimitsAreNatural DEF Member, Positions
      <4>2. items[next].position \in Nat /\ items[next].position <= MaxPosition
        BY <1>2, LimitsAreNatural DEF OrderItem, Positions
      <4> QED
        BY <1>6, <3>1, <4>1, <4>2, OffsetBeyondPositions, LimitsAreNatural
  <2> QED
    BY <2>3, <2>4
<1> QED
  BY <1>2, <1>3, <1>4, <1>5, <1>6 DEF Taken

(* The first statement moves a row out of the way. *)
LEMMA StageKeeps ==
  ASSUME Inv, NEW p \in Projects, Stage(p)
  PROVE  Inv'
<1>1. /\ rows' = [rows EXCEPT ![p] = Staged(@)]
      /\ unstaged' = unstaged \ {p}
      /\ outcome' = outcome /\ outcome = "open"
      /\ UNCHANGED <<before, items, next>>
  BY StageFree DEF Stage
<1>2. p \in unstaged /\ next = 1 /\ p \in Attached(before)
  BY DEF Stage, Inv, RowByRow
<1>3. Asked'
  BY <1>1 DEF Inv, Asked, Attached
<1>4. ASSUME NEW q \in Projects PROVE rows'[q] = RowNow(q)'
  <2>1. rows[q] = RowNow(q) /\ DOMAIN rows = Projects
    BY DEF Inv, RowByRow
  <2>2. ~Done(q) /\ ~Done(q)'
    BY <1>1, <1>2 DEF Done
  <2>3. CASE q = p
    BY <1>1, <1>2, <2>1, <2>2, <2>3 DEF RowNow, Attached
  <2>4. CASE q # p
    BY <1>1, <2>1, <2>2, <2>4 DEF RowNow
  <2> QED
    BY <2>3, <2>4
<1>5. rows' = [q \in Projects |-> RowNow(q)']
  <2>1. rows' = [q \in Projects |-> rows'[q]]
    BY <1>1 DEF Inv, RowByRow
  <2> QED
    BY <1>4, <2>1
<1>6. RowByRow'
  BY <1>1, <1>2, <1>5 DEF Inv, RowByRow, Attached
<1> QED
  BY <1>3, <1>6 DEF Inv

(* An item is written to a place that is free. *)
LEMMA WriteItemKeeps ==
  ASSUME Inv, WriteItem
  PROVE  Inv'
<1> DEFINE item == items[next]
           p == item.project
<1>1. /\ rows' = [rows EXCEPT ![p] = Written(@, item)]
      /\ next' = next + 1
      /\ outcome' = outcome /\ outcome = "open"
      /\ UNCHANGED <<before, items, unstaged>>
      /\ unstaged = {}
  BY WriteFree DEF WriteItem
<1>2. Asked /\ Len(items) \in Nat /\ next \in 1..Len(items)
  BY AskedItems DEF Inv, RowByRow, WriteItem
<1>3. p \in Attached(before) /\ rows[p] = Staged(before[p]) /\ before[p] \in Member
  BY WriteFree, Places DEF WriteItem
<1>4. Asked'
  BY <1>1, <1>2 DEF Asked, Attached
<1>5. Written(rows[p], item) = Reordered(items, before)[p]
  <2>1. Reordered(items, before)[p] =
          [snapshot |-> before[p].snapshot, position |-> item.position,
           revision |-> before[p].revision + 1]
    BY <1>2, WrittenIsReordered
  <2>2. Written(rows[p], item) =
          [snapshot |-> before[p].snapshot, position |-> item.position,
           revision |-> before[p].revision + 1]
    <3>1. Staged(before[p]) =
            [snapshot |-> before[p].snapshot,
             position |-> before[p].position + StagingOffset,
             revision |-> before[p].revision]
      BY <1>3 DEF Staged, Member
    <3> QED
      BY <1>3, <3>1 DEF Written
  <2> QED
    BY <2>1, <2>2
<1>6. ASSUME NEW q \in Projects PROVE rows'[q] = RowNow(q)'
  <2>1. rows[q] = RowNow(q) /\ DOMAIN rows = Projects
    BY DEF Inv, RowByRow
  <2>2. CASE q = p
    <3>1. Done(q)'
      BY <1>1, <1>2, <2>2 DEF Done
    <3>2. rows'[q] = Reordered(items, before)[q]
      BY <1>1, <1>5, <2>1, <2>2
    <3> QED
      BY <1>1, <1>3, <2>2, <3>1, <3>2 DEF RowNow, Attached
  <2>3. CASE q # p
    <3>1. Done(q)' <=> Done(q)
      BY <1>1, <1>2, <2>3 DEF Done
    <3>2. rows'[q] = rows[q]
      BY <1>1, <2>1, <2>3
    <3> QED
      BY <1>1, <2>1, <3>1, <3>2 DEF RowNow
  <2> QED
    BY <2>2, <2>3
<1>7. rows' = [q \in Projects |-> RowNow(q)']
  <2>1. rows' = [q \in Projects |-> rows'[q]]
    BY <1>1 DEF Inv, RowByRow
  <2> QED
    BY <1>6, <2>1
<1>8. RowByRow'
  BY <1>1, <1>2, <1>7 DEF Inv, RowByRow, Attached
<1> QED
  BY <1>4, <1>8 DEF Inv

(* Every step keeps the invariant. *)
LEMMA NextInv == Inv /\ [Next]_vars => Inv'
<1> SUFFICES ASSUME Inv, [Next]_vars PROVE Inv'
  OBVIOUS
<1>1. ASSUME NEW p \in Projects, Stage(p) PROVE Inv'
  BY <1>1, StageKeeps
<1>2. CASE WriteItem
  BY <1>2, WriteItemKeeps
<1>3. CASE Finish
  <2>1. next = Len(items) + 1
    BY <1>3, AskedItems DEF Finish, Inv, RowByRow
  <2>2. \A q \in Projects : RowNow(q)' = RowNow(q)
    BY <1>3 DEF Finish, RowNow, Done
  <2> QED
    BY <1>3, <2>1, <2>2 DEF Finish, Inv, Asked, RowByRow, Attached
<1>4. CASE UNCHANGED vars
  BY <1>4 DEF vars, Inv, Asked, RowByRow, RowNow, Done, Attached
<1> QED
  BY <1>1, <1>2, <1>3, <1>4 DEF Next

(* No statement of a reordering meets a position that is taken, for any    *)
(* number of projects and any order in which their rows are visited.       *)
THEOREM NoCollision == Spec => []NeverCollides
<1>1. Inv => NeverCollides
  BY DEF Inv, RowByRow, NeverCollides
<1> QED
  BY <1>1, InitInv, NextInv, PTL DEF Spec

(* The statements of reorder_projects together are the one step that       *)
(* PortfolioStore takes.                                                   *)
THEOREM WholeOrder == Spec => []WritesTheOrder
<1>1. Inv => WritesTheOrder
  <2> SUFFICES ASSUME Inv, outcome = "ok" PROVE rows = Reordered(items, before)
    BY DEF WritesTheOrder
  <2>1. unstaged = {} /\ next = Len(items) + 1 /\ Len(items) \in Nat
    BY AskedItems DEF Inv, RowByRow
  <2>2. ASSUME NEW q \in Projects PROVE rows[q] = Reordered(items, before)[q]
    <3>1. CASE q \in Attached(before)
      <4>1. Done(q)
        BY <2>1, <3>1, AskedItems DEF Done, Inv
      <4> QED
        BY <2>1, <3>1, <4>1, Places
    <3>2. CASE q \notin Attached(before)
      <4>1. before[q] = None /\ rows[q] = None
        BY <3>2 DEF Attached, Inv, RowByRow, RowNow
      <4>2. ~\E n \in 1..Len(items) : items[n].project = q
        BY <3>2, AskedItems DEF Inv
      <4>3. Reordered(items, before)[q] = before[q]
        BY <4>2 DEF Reordered
      <4> QED
        BY <4>1, <4>3
    <3> QED
      BY <3>1, <3>2
  <2>3. rows = [q \in Projects |-> rows[q]]
    BY DEF Inv, RowByRow
  <2>4. Reordered(items, before) = [q \in Projects |-> Reordered(items, before)[q]]
    BY DEF Reordered
  <2> QED
    BY <2>2, <2>3, <2>4
<1> QED
  BY <1>1, InitInv, NextInv, PTL DEF Spec
=============================================================================
