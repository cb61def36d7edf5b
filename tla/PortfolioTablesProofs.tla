----------------------- MODULE PortfolioTablesProofs ------------------------
(* Lemmas about the operators of Portfolio: what a request is made of, and *)
(* that a command which is not refused writes rows of the right types.     *)
(* Then what one command does to the tables, for every choice of the       *)
(* constants: each property of PortfolioTables is kept by Apply.           *)
EXTENDS PortfolioTables, FiniteSetTheorems, SequenceTheorems, TLAPS

-----------------------------------------------------------------------------
(* Requests, rows and effects *)

(* Every request names a scope, an operation, a key and an initiative, and *)
(* so a receipt key.                                                       *)
LEMMA RequestShape ==
  ASSUME NEW r \in Requests
  PROVE  /\ r \in Request
         /\ r.scope \in Scopes
         /\ r.op \in Operations
         /\ r.key \in Keys
         /\ r.initiative \in Initiatives
         /\ KeyOf(r) \in ReceiptKeys
BY RequestsAreTyped
DEF Request, CreateRequest, UpdateRequest, AddUpdateRequest, ArchiveRequest,
    AttachRequest, SnapshotRequest, DetachRequest, ReorderRequest,
    Operations, KeyOf, ReceiptKeys

(* The fields of a request are those of its operation. *)
LEMMA RequestFields ==
  ASSUME NEW r \in Requests
  PROVE  /\ r.op = "create_initiative" => r \in CreateRequest
         /\ r.op = "update_initiative" => r \in UpdateRequest
         /\ r.op = "add_initiative_update" => r \in AddUpdateRequest
         /\ r.op = "archive_initiative" => r \in ArchiveRequest
         /\ r.op = "attach_project" => r \in AttachRequest
         /\ r.op = "update_project_snapshot" => r \in SnapshotRequest
         /\ r.op = "detach_project" => r \in DetachRequest
         /\ r.op = "reorder_projects" => r \in ReorderRequest
BY RequestShape
DEF Request, CreateRequest, UpdateRequest, AddUpdateRequest, ArchiveRequest,
    AttachRequest, SnapshotRequest, DetachRequest, ReorderRequest

(* An initiative has a natural number of projects. *)
LEMMA CountType ==
  ASSUME NEW members
  PROVE  /\ IsFiniteSet(Attached(members))
         /\ Count(members) \in Nat
<1>1. Attached(members) \subseteq Projects
  BY DEF Attached
<1> QED
  BY <1>1, ProjectsFinite, FS_Subset, FS_CardinalityType DEF Count

(* The row a create leaves has revision 1 and the default health. *)
LEMMA CreatedRow ==
  ASSUME NEW r \in Requests, NEW row, r.op = "create_initiative"
  PROVE  /\ RowAfter(r, row) \in Initiative
         /\ RowAfter(r, row).revision = 1
         /\ RowAfter(r, row).health = NoUpdate
         /\ ~RowAfter(r, row).archived
BY RequestFields DEF RowAfter, Initiative, CreateRequest

(* bump_initiative changes the revision alone. *)
LEMMA BumpedRow ==
  ASSUME NEW row \in Initiative
  PROVE  /\ Bumped(row) \in Initiative
         /\ Bumped(row).revision = row.revision + 1
         /\ Bumped(row).health = row.health
         /\ Bumped(row).archived = row.archived
BY DEF Bumped, Initiative

(* Any other command adds one to the revision; an update alone changes the *)
(* health, an archive alone the archived flag.                             *)
LEMMA ChangedRow ==
  ASSUME NEW r \in Requests, NEW row \in Initiative, r.op # "create_initiative"
  PROVE  /\ RowAfter(r, row) \in Initiative
         /\ RowAfter(r, row).revision = row.revision + 1
         /\ RowAfter(r, row).health =
              IF r.op = "add_initiative_update" THEN r.health ELSE row.health
         /\ RowAfter(r, row).archived =
              IF r.op = "archive_initiative" THEN TRUE ELSE row.archived
<1>1. r.op \in Operations
  BY RequestShape
<1>2. CASE r.op = "update_initiative"
  <2>1. r.name \in Names \cup {None} /\ r.details \in Details
    BY <1>2, RequestFields DEF UpdateRequest
  <2>2. /\ Patched(r, row) \in Initiative
        /\ Patched(r, row).revision = row.revision
        /\ Patched(r, row).health = row.health
        /\ Patched(r, row).archived = row.archived
    BY <2>1 DEF Patched, Initiative
  <2>3. RowAfter(r, row) = Bumped(Patched(r, row))
    BY <1>2 DEF RowAfter
  <2> QED
    BY <1>2, <2>2, <2>3, BumpedRow
<1>3. CASE r.op = "add_initiative_update"
  <2> DEFINE reported == [row EXCEPT !.health = r.health]
  <2>1. r.health \in Healths
    BY <1>3, RequestFields DEF AddUpdateRequest
  <2>2. /\ reported \in Initiative
        /\ reported.revision = row.revision
        /\ reported.health = r.health
        /\ reported.archived = row.archived
    BY <2>1 DEF Initiative
  <2>3. RowAfter(r, row) = Bumped(reported)
    BY <1>3 DEF RowAfter
  <2> QED
    BY <1>3, <2>2, <2>3, BumpedRow
<1>4. CASE r.op = "archive_initiative"
  <2> DEFINE closed == [row EXCEPT !.archived = TRUE]
  <2>1. /\ closed \in Initiative
        /\ closed.revision = row.revision
        /\ closed.health = row.health
        /\ closed.archived
    BY DEF Initiative
  <2>2. RowAfter(r, row) = Bumped(closed)
    BY <1>4 DEF RowAfter
  <2> QED
    BY <1>4, <2>1, <2>2, BumpedRow
<1>5. CASE r.op \notin {"create_initiative", "update_initiative",
                        "add_initiative_update", "archive_initiative"}
  <2>1. RowAfter(r, row) = Bumped(row)
    BY <1>5 DEF RowAfter
  <2> QED
    BY <1>5, <2>1, BumpedRow
<1> QED
  BY <1>2, <1>3, <1>4, <1>5

(* A project in a complete order is attached. *)
LEMMA OrderedAreAttached ==
  ASSUME NEW r \in ReorderRequest, NEW members \in Members,
         CompleteOrder(r.items, members), NEW n \in 1..Len(r.items)
  PROVE  /\ r.items[n] \in OrderItem
         /\ members[r.items[n].project] \in Member
<1>1. r.items[n] \in OrderItem
  BY DEF ReorderRequest
<1> QED
  BY <1>1 DEF CompleteOrder, Members, OrderItem

(* What a command leaves attached are memberships of the right type. *)
LEMMA MembersTyped ==
  ASSUME NEW r \in Requests, NEW row, NEW members \in Members, NEW update,
         WriteRefusal(r, row, members, update) = None
  PROVE  MembersAfter(r, members) \in Members
<1>1. r.op \in Operations
  BY RequestShape
<1>2. CASE r.op = "attach_project"
  <2>1. Attachment(r) \in Member
    BY <1>2, RequestFields DEF Attachment, Member, AttachRequest
  <2> QED
    BY <1>2, <2>1, RequestFields DEF MembersAfter, Members, AttachRequest
<1>3. CASE r.op = "update_project_snapshot"
  <2>1. r.project \in Projects /\ r.snapshot \in Snapshots
    BY <1>3, RequestFields DEF SnapshotRequest
  <2>2. members[r.project] # None
    BY <1>3, NoneIsNoValue DEF WriteRefusal, SnapshotRefusal, Failures
  <2>3. members[r.project] \in Member
    BY <2>1, <2>2 DEF Members
  <2> QED
    BY <1>3, <2>1, <2>3 DEF MembersAfter, Members, Member
<1>4. CASE r.op = "detach_project"
  BY <1>4, RequestFields DEF MembersAfter, Members, DetachRequest
<1>5. CASE r.op = "reorder_projects"
  <2>1. r \in ReorderRequest /\ CompleteOrder(r.items, members)
    BY <1>5, RequestFields, NoneIsNoValue
    DEF WriteRefusal, ReorderRefusal, Failures
  <2>2. ASSUME NEW p \in Projects,
               \E n \in 1..Len(r.items) : r.items[n].project = p
        PROVE  Reordered(r.items, members)[p] \in Member
    <3> DEFINE c == CHOOSE n \in 1..Len(r.items) : r.items[n].project = p
    <3>1. c \in 1..Len(r.items) /\ r.items[c].project = p
      BY <2>2
    <3>2. members[p] \in Member /\ r.items[c].position \in Positions
      BY <2>1, <3>1, OrderedAreAttached DEF OrderItem
    <3> QED
      BY <2>2, <3>2 DEF Member, Reordered
  <2>3. Reordered(r.items, members) \in Members
    BY <2>2 DEF Reordered, Members
  <2> QED
    BY <1>5, <2>3 DEF MembersAfter
<1>6. CASE r.op \in {"create_initiative", "update_initiative",
                     "add_initiative_update", "archive_initiative"}
  BY <1>6 DEF MembersAfter
<1> QED
  BY <1>1, <1>2, <1>3, <1>4, <1>5, <1>6 DEF Operations

(* The project that an attach or a snapshot names is attached after it. *)
LEMMA WrittenMember ==
  ASSUME NEW r \in Requests, NEW row, NEW members \in Members, NEW update,
         WriteRefusal(r, row, members, update) = None,
         r.op \in {"attach_project", "update_project_snapshot"}
  PROVE  /\ r.project \in Projects
         /\ MembersAfter(r, members)[r.project] \in Member
<1>1. r.project \in Projects
  BY RequestFields DEF AttachRequest, SnapshotRequest
<1>2. MembersAfter(r, members)[r.project] # None
  <2>1. CASE r.op = "attach_project"
    <3>1. MembersAfter(r, members)[r.project] = Attachment(r)
      BY <1>1, <2>1 DEF MembersAfter, Members
    <3>2. Attachment(r) \in Member
      BY <2>1, RequestFields DEF Attachment, Member, AttachRequest
    <3> QED
      BY <3>1, <3>2, NoneIsNoValue
  <2>2. CASE r.op = "update_project_snapshot"
    <3> DEFINE old == members[r.project]
               new == [snapshot |-> r.snapshot, position |-> old.position,
                       revision |-> old.revision + 1]
    <3>1. MembersAfter(r, members)[r.project] = new
      BY <1>1, <2>2 DEF MembersAfter, Members
    <3>2. old \in Member
      BY <1>1, <2>2, NoneIsNoValue
      DEF WriteRefusal, SnapshotRefusal, Failures, Members
    <3>3. new \in Member
      BY <2>2, <3>2, RequestFields DEF Member, SnapshotRequest
    <3> QED
      BY <3>1, <3>3, NoneIsNoValue
  <2> QED
    BY <2>1, <2>2
<1> QED
  BY <1>1, <1>2, MembersTyped DEF Members

(* The items a reordering reports have the new revisions. *)
LEMMA ReorderedItems ==
  ASSUME NEW r \in ReorderRequest, NEW members \in Members,
         CompleteOrder(r.items, members), NEW n \in 1..Len(r.items)
  PROVE  LET p == r.items[n].project
         IN  /\ p \in Projects
             /\ members[p] \in Member
             /\ Reordered(r.items, members)[p].revision = members[p].revision + 1
BY OrderedAreAttached DEF Reordered, OrderItem

(* The response of a command that is not refused is well formed. *)
LEMMA BodyTyped ==
  ASSUME NEW r \in Requests, NEW row, NEW members \in Members, NEW update,
         NEW after \in Initiative,
         WriteRefusal(r, row, members, update) = None
  PROVE  Body(r, after, MembersAfter(r, members)) \in Bodies
<1> DEFINE left == MembersAfter(r, members)
           body == Body(r, after, left)
<1>1. r.op \in Operations
  BY RequestShape
<1>2. CASE r.op \in {"create_initiative", "update_initiative"}
  <2>1. body = [row |-> after, count |-> Count(left)]
    BY <1>2 DEF Body
  <2>2. body \in [row: Initiative, count: Nat]
    BY <2>1, CountType
  <2> QED
    BY <2>2 DEF Bodies
<1>3. CASE r.op = "add_initiative_update"
  <2>1. body = [update |-> r.update, health |-> after.health]
    BY <1>3 DEF Body
  <2>2. after.health \in Healths \cup {NoUpdate}
    BY DEF Initiative
  <2>3. r.update \in UpdateIds
    BY <1>3, RequestFields DEF AddUpdateRequest
  <2>4. body \in [update: UpdateIds, health: Healths \cup {NoUpdate}]
    BY <2>1, <2>2, <2>3
  <2> QED
    BY <2>4 DEF Bodies
<1>4. CASE r.op = "archive_initiative"
  <2>1. body = [archived |-> after.archived]
    BY <1>4 DEF Body
  <2> QED
    BY <2>1 DEF Bodies, Initiative
<1>5. CASE r.op \in {"attach_project", "update_project_snapshot"}
  <2>1. body = [project |-> r.project, member |-> left[r.project]]
    BY <1>5 DEF Body
  <2>2. body \in [project: Projects, member: Member]
    BY <1>5, <2>1, WrittenMember
  <2> QED
    BY <2>2 DEF Bodies
<1>6. CASE r.op = "detach_project"
  <2>1. body = [detached |-> TRUE]
    BY <1>6 DEF Body
  <2> QED
    BY <2>1 DEF Bodies
<1>7. CASE r.op = "reorder_projects"
  <2> DEFINE item(n) == [project |-> r.items[n].project,
                         position |-> r.items[n].position,
                         revision |-> left[r.items[n].project].revision]
             shown == {item(n) : n \in 1..Len(r.items)}
  <2>1. body = [items |-> shown]
    BY <1>7 DEF Body
  <2>2. r \in ReorderRequest /\ CompleteOrder(r.items, members)
    BY <1>7, RequestFields, NoneIsNoValue
    DEF WriteRefusal, ReorderRefusal, Failures
  <2>3. left = Reordered(r.items, members)
    BY <1>7 DEF MembersAfter
  <2>4. ASSUME NEW n \in 1..Len(r.items)
        PROVE  item(n) \in [project: Projects, position: Positions, revision: Nat]
    BY <2>2, <2>3, OrderedAreAttached, ReorderedItems DEF Member, OrderItem
  <2>5. shown \in SUBSET [project: Projects, position: Positions, revision: Nat]
    BY <2>4
  <2> QED
    BY <2>1, <2>5 DEF Bodies
<1> QED
  BY <1>1, <1>2, <1>3, <1>4, <1>5, <1>6, <1>7 DEF Operations

(* The update row of an add_initiative_update. *)
LEMMA UpdateTyped ==
  ASSUME NEW r \in Requests, NEW row \in Initiative \cup {None},
         r.op = "create_initiative" \/ row \in Initiative
  PROVE  /\ UpdateAfter(r, row) \in Update \cup {None}
         /\ r.op = "add_initiative_update" =>
              /\ r.update \in UpdateIds
              /\ UpdateAfter(r, row) =
                   [initiative |-> r.initiative, health |-> r.health,
                    revision |-> row.revision + 1]
              /\ UpdateAfter(r, row) # None
         /\ r.op # "add_initiative_update" => UpdateAfter(r, row) = None
<1>1. CASE r.op = "add_initiative_update"
  <2>1. /\ r.initiative \in Initiatives
        /\ r.health \in Healths
        /\ r.update \in UpdateIds
    BY <1>1, RequestShape, RequestFields DEF AddUpdateRequest
  <2>2. UpdateAfter(r, row) \in Update
    BY <1>1, <2>1 DEF UpdateAfter, Update, Initiative
  <2> QED
    BY <1>1, <2>1, <2>2, NoneIsNoValue DEF UpdateAfter
<1>2. CASE r.op # "add_initiative_update"
  BY <1>2 DEF UpdateAfter
<1> QED
  BY <1>1, <1>2

(* What lock_initiative lets through is a row, open, at the revision the   *)
(* command expects if it expects one.                                      *)
LEMMA LockPassed ==
  ASSUME NEW r \in Requests, NEW row \in Initiative \cup {None},
         LockRefusal(r, row) = None
  PROVE  /\ row \in Initiative
         /\ ~row.archived
         /\ r.op \in RevisionChecked => row.revision = r.revision
<1>1. /\ "NotFound" # None
      /\ "Archived" # None
      /\ "RevisionConflict" # None
  BY NoneIsNoValue DEF Failures
<1> QED
  BY <1>1 DEF LockRefusal

(* A command that nothing refuses has a well-formed effect. *)
LEMMA EffectTyped ==
  ASSUME NEW r \in Requests, NEW row \in Initiative \cup {None},
         NEW members \in Members, NEW update,
         r.op = "create_initiative" \/ row \in Initiative,
         WriteRefusal(r, row, members, update) = None
  PROVE  /\ EffectOf(r, row, members) \in Effect
         /\ RowAfter(r, row) \in Initiative
<1>1. RowAfter(r, row) \in Initiative
  BY CreatedRow, ChangedRow
<1>2. ResponseOf(r, RowAfter(r, row), MembersAfter(r, members)) \in Response
  BY <1>1, BodyTyped DEF ResponseOf, Response, Initiative
<1> QED
  BY <1>1, <1>2, MembersTyped, UpdateTyped DEF EffectOf, Effect

-----------------------------------------------------------------------------
(* A complete order names every attached project: as many items as         *)
(* projects, all different, all attached.                                  *)
LEMMA OrderCoversAttached ==
  ASSUME NEW r \in ReorderRequest, NEW members \in Members,
         CompleteOrder(r.items, members), NEW p \in Attached(members)
  PROVE  \E n \in 1..Len(r.items) : r.items[n].project = p
<1> DEFINE f == [n \in 1..Len(r.items) |-> r.items[n].project]
           attached == Attached(members)
<1>1. Len(r.items) \in Nat
  BY DEF ReorderRequest
<1>2. \A n \in 1..Len(r.items) : f[n] \in attached
  BY OrderedAreAttached, NoneIsNoValue DEF Attached, OrderItem
<1>3. \A m, n \in 1..Len(r.items) : f[m] = f[n] => m = n
  BY DEF CompleteOrder
<1>4. f \in Injection(1..Len(r.items), attached)
  BY <1>2, <1>3 DEF Injection, IsInjective
<1>5. IsFiniteSet(attached) /\ Cardinality(attached) = Len(r.items)
  BY CountType DEF Count, CompleteOrder
<1>6. Cardinality(1..Len(r.items)) = Len(r.items)
  BY <1>1, FS_Interval
<1>7. f \in Surjection(1..Len(r.items), attached)
  BY <1>4, <1>5, <1>6, FS_Injection
<1> QED
  BY <1>7 DEF Surjection

(* The positions of a complete order are those the projects get. *)
LEMMA ReorderedPositions ==
  ASSUME NEW r \in ReorderRequest, NEW members \in Members,
         CompleteOrder(r.items, members), NEW p \in Attached(members)
  PROVE  \E n \in 1..Len(r.items) :
           /\ r.items[n].project = p
           /\ Reordered(r.items, members)[p].position = r.items[n].position
<1> DEFINE c == CHOOSE n \in 1..Len(r.items) : r.items[n].project = p
<1>1. c \in 1..Len(r.items) /\ r.items[c].project = p
  BY OrderCoversAttached
<1>2. Reordered(r.items, members)[p].position = r.items[c].position
  BY <1>1 DEF Reordered, Attached
<1> QED
  BY <1>1, <1>2

(* A complete order attaches and detaches nothing. *)
LEMMA ReorderKeepsAttached ==
  ASSUME NEW r \in ReorderRequest, NEW members \in Members,
         CompleteOrder(r.items, members)
  PROVE  Attached(Reordered(r.items, members)) = Attached(members)
<1> DEFINE left == Reordered(r.items, members)
<1>1. ASSUME NEW p \in Attached(members)
      PROVE  p \in Attached(left)
  <2>1. PICK n \in 1..Len(r.items) : r.items[n].project = p
    BY OrderCoversAttached
  <2>2. members[p] \in Member /\ p \in Projects
    BY <2>1, OrderedAreAttached DEF Attached
  <2>3. left[p] = [snapshot |-> members[p].snapshot,
                   position |-> r.items[CHOOSE m \in 1..Len(r.items) :
                                          r.items[m].project = p].position,
                   revision |-> members[p].revision + 1]
    BY <2>1, <2>2 DEF Reordered
  <2>4. left[p] \in Member
    <3>1. r.items[CHOOSE m \in 1..Len(r.items) :
                    r.items[m].project = p].position \in Positions
      BY <2>1, OrderedAreAttached DEF OrderItem
    <3> QED
      BY <2>2, <2>3, <3>1 DEF Member
  <2> QED
    BY <2>2, <2>4, NoneIsNoValue DEF Attached
<1>2. ASSUME NEW p \in Attached(left)
      PROVE  p \in Attached(members)
  <2>1. CASE \E n \in 1..Len(r.items) : r.items[n].project = p
    BY <2>1, OrderedAreAttached, NoneIsNoValue DEF Attached
  <2>2. CASE ~\E n \in 1..Len(r.items) : r.items[n].project = p
    BY <2>2 DEF Reordered, Attached
  <2> QED
    BY <2>1, <2>2
<1> QED
  BY <1>1, <1>2

(* At most MaxProjects projects, no two at one position. *)
Ordered(members) ==
  /\ Count(members) <= MaxProjects
  /\ \A p, q \in Attached(members) :
       p # q => members[p].position # members[q].position

(* A command that is not refused keeps the order of the projects one. *)
LEMMA MembersOrdered ==
  ASSUME NEW r \in Requests, NEW row, NEW members \in Members, NEW update,
         WriteRefusal(r, row, members, update) = None, Ordered(members)
  PROVE  Ordered(MembersAfter(r, members))
<1> DEFINE left == MembersAfter(r, members)
<1>1. /\ r.op \in Operations
      /\ left \in Members
      /\ IsFiniteSet(Attached(members))
      /\ Count(members) \in Nat
      /\ Count(left) \in Nat
  BY RequestShape, MembersTyped, CountType
<1>2. CASE r.op = "attach_project"
  <2>1. /\ r.project \in Projects
        /\ Attachment(r) # None
        /\ Attachment(r).position = r.position
    <3>1. Attachment(r) \in Member
      BY <1>2, RequestFields DEF Attachment, Member, AttachRequest
    <3> QED
      BY <1>2, <3>1, RequestFields, NoneIsNoValue DEF Attachment, AttachRequest
  <2>2. AttachRefusal(r, members) = None
    BY <1>2 DEF WriteRefusal
  <2>3. /\ members[r.project] = None
        /\ ~(Count(members) >= MaxProjects)
        /\ \A p \in Attached(members) : members[p].position # r.position
    BY <2>2, NoneIsNoValue DEF AttachRefusal, Failures
  <2>4. left = [members EXCEPT ![r.project] = Attachment(r)]
    BY <1>2 DEF MembersAfter
  <2>5. Attached(left) = Attached(members) \cup {r.project}
    BY <2>1, <2>4 DEF Attached, Members
  <2>6. r.project \notin Attached(members)
    BY <2>3 DEF Attached
  <2>7. Count(left) = Count(members) + 1
    BY <1>1, <2>5, <2>6, FS_AddElement DEF Count
  <2>8. Count(left) <= MaxProjects
    BY <1>1, <2>3, <2>7, LimitsAreNatural
  <2>9. ASSUME NEW p \in Attached(left), NEW q \in Attached(left), p # q
        PROVE  left[p].position # left[q].position
    BY <2>1, <2>3, <2>4, <2>5, <2>9 DEF Ordered, Members, Attached
  <2> QED
    BY <2>8, <2>9 DEF Ordered
<1>3. CASE r.op = "update_project_snapshot"
  <2>1. /\ r.project \in Projects
        /\ left[r.project] # None
        /\ members[r.project] # None
    BY <1>3, WrittenMember, NoneIsNoValue DEF WriteRefusal, SnapshotRefusal, Failures
  <2>2. /\ left[r.project].position = members[r.project].position
        /\ \A p \in Projects : p # r.project => left[p] = members[p]
    BY <1>3, <2>1 DEF MembersAfter, Members
  <2>3. Attached(left) = Attached(members)
    BY <2>1, <2>2 DEF Attached
  <2>4. \A p \in Attached(members) : left[p].position = members[p].position
    BY <2>2 DEF Attached
  <2>5. Count(left) = Count(members)
    BY <2>3 DEF Count
  <2>6. \A p, q \in Attached(left) : p # q => left[p].position # left[q].position
    <3> HIDE DEF left
    <3> QED
      BY <2>3, <2>4 DEF Ordered
  <2> QED
    BY <2>5, <2>6 DEF Ordered
<1>4. CASE r.op = "detach_project"
  <2>1. left = [members EXCEPT ![r.project] = None]
    BY <1>4 DEF MembersAfter
  <2>2. Attached(left) \subseteq Attached(members)
    BY <2>1 DEF Attached, Members
  <2>3. Count(left) <= Count(members)
    BY <1>1, <2>2, FS_Subset DEF Count
  <2>4. \A p \in Attached(left) : left[p] = members[p]
    BY <2>1 DEF Attached, Members
  <2> QED
    BY <1>1, <2>2, <2>3, <2>4, LimitsAreNatural DEF Ordered
<1>5. CASE r.op = "reorder_projects"
  <2>1. /\ r \in ReorderRequest
        /\ CompleteOrder(r.items, members)
        /\ left = Reordered(r.items, members)
    BY <1>5, RequestFields, NoneIsNoValue
    DEF WriteRefusal, ReorderRefusal, MembersAfter, Failures
  <2>2. Attached(left) = Attached(members)
    BY <2>1, ReorderKeepsAttached
  <2>3. ASSUME NEW p \in Attached(left), NEW q \in Attached(left), p # q
        PROVE  left[p].position # left[q].position
    <3>1. PICK m \in 1..Len(r.items) :
            r.items[m].project = p /\ left[p].position = r.items[m].position
      BY <2>1, <2>2, ReorderedPositions
    <3>2. PICK n \in 1..Len(r.items) :
            r.items[n].project = q /\ left[q].position = r.items[n].position
      BY <2>1, <2>2, ReorderedPositions
    <3> QED
      BY <2>1, <2>3, <3>1, <3>2 DEF CompleteOrder
  <2> QED
    BY <2>2, <2>3 DEF Ordered, Count
<1>6. CASE r.op \in {"create_initiative", "update_initiative",
                     "add_initiative_update", "archive_initiative"}
  BY <1>6 DEF MembersAfter
<1> QED
  BY <1>1, <1>2, <1>3, <1>4, <1>5, <1>6 DEF Operations

-----------------------------------------------------------------------------
(* The tables *)

(* Publishing a well-formed effect keeps the tables well formed. *)
LEMMA PublishTyped ==
  ASSUME TablesOK, NEW r \in Requests, NEW effect \in Effect,
         effect.update # None => r.update \in UpdateIds,
         Publish(r, effect)
  PROVE  TablesOK'
<1>1. /\ r.initiative \in Initiatives
      /\ KeyOf(r) \in ReceiptKeys
      /\ OrganizationOf[r.initiative] \in Organizations
  BY RequestShape, OrganizationsOwnInitiatives
<1>2. /\ effect.row \in Initiative
      /\ effect.members \in Members
      /\ effect.update \in Update \cup {None}
      /\ effect.response \in Response
  BY DEF Effect
<1>3. (initiatives \in [Initiatives -> Initiative \cup {None}])'
  BY <1>1, <1>2 DEF TablesOK, Publish
<1>4. (projects \in [Initiatives -> Members])'
  BY <1>1, <1>2 DEF TablesOK, Publish
<1>5. (updates \in [Organizations -> [UpdateIds -> Update \cup {None}]])'
  <2>1. CASE effect.update = None
    BY <2>1 DEF TablesOK, Publish
  <2>2. CASE effect.update # None
    BY <1>1, <1>2, <2>2 DEF TablesOK, Publish
  <2> QED
    BY <2>1, <2>2
<1>6. (receipts \in [ReceiptKeys -> Receipt \cup {None}])'
  <2>1. [hash |-> r, response |-> effect.response] \in Receipt
    BY <1>2 DEF Receipt
  <2> QED
    BY <1>1, <2>1 DEF TablesOK, Publish
<1>7. (ledger \in [Initiatives -> Seq(Requests)])'
  BY <1>1 DEF TablesOK, Publish
<1> QED
  BY <1>3, <1>4, <1>5, <1>6, <1>7 DEF TablesOK

(* What a request that nothing refuses finds, and what it leaves. *)
LEMMA NotRefused ==
  ASSUME TablesOK, NEW r \in Requests, Refusal(r) = None
  PROVE  LET i == r.initiative
             row == initiatives[i]
             members == projects[i]
         IN  /\ i \in Initiatives
             /\ row \in Initiative \cup {None}
             /\ members \in Members
             /\ WriteRefusal(r, row, members, TakenUpdate(r)) = None
             /\ r.op = "create_initiative" => row = None
             /\ r.op # "create_initiative" =>
                  /\ row \in Initiative
                  /\ ~row.archived
                  /\ r.op \in RevisionChecked => row.revision = r.revision
             /\ EffectOf(r, row, members) \in Effect
             /\ RowAfter(r, row) \in Initiative
             /\ EffectOf(r, row, members).update # None => r.update \in UpdateIds
<1> DEFINE i == r.initiative
           row == initiatives[i]
           members == projects[i]
<1>1. /\ i \in Initiatives
      /\ row \in Initiative \cup {None}
      /\ members \in Members
  BY RequestShape DEF TablesOK
<1>2. WriteRefusal(r, row, members, TakenUpdate(r)) = None
  BY DEF Refusal
<1>3. r.op = "create_initiative" => row = None
  BY <1>2, NoneIsNoValue DEF WriteRefusal, Failures
<1>4. r.op # "create_initiative" => LockRefusal(r, row) = None
  BY DEF Refusal
<1>5. r.op # "create_initiative" =>
        /\ row \in Initiative
        /\ ~row.archived
        /\ r.op \in RevisionChecked => row.revision = r.revision
  BY <1>1, <1>4, LockPassed
<1>6. /\ EffectOf(r, row, members) \in Effect
      /\ RowAfter(r, row) \in Initiative
  BY <1>1, <1>2, <1>5, EffectTyped
<1>7. EffectOf(r, row, members).update # None => r.update \in UpdateIds
  BY <1>1, <1>5, UpdateTyped DEF EffectOf
<1> QED
  BY <1>1, <1>2, <1>3, <1>5, <1>6, <1>7

(* A command keeps the tables well formed. *)
LEMMA ApplyTyped ==
  ASSUME TablesOK, NEW r \in Requests, Apply(r)
  PROVE  TablesOK'
BY NotRefused, PublishTyped DEF Apply

(* A command adds itself to the log of its initiative and one to the       *)
(* revision.                                                               *)
LEMMA ApplyAdvances ==
  ASSUME TablesOK, RevisionCountsCommits, NEW r \in Requests, Apply(r)
  PROVE  LET i == r.initiative
             row == initiatives[i]
         IN  /\ i \in Initiatives
             /\ ledger[i] \in Seq(Requests)
             /\ ledger' = [ledger EXCEPT ![i] = Append(ledger[i], r)]
             /\ initiatives' = [initiatives EXCEPT ![i] = RowAfter(r, row)]
             /\ RowAfter(r, row) \in Initiative
             /\ RowAfter(r, row).revision = Len(ledger[i]) + 1
             /\ r.op = "create_initiative" => Len(ledger[i]) = 0
             /\ r.op # "create_initiative" =>
                  row \in Initiative /\ row.revision = Len(ledger[i])
<1> DEFINE i == r.initiative
           row == initiatives[i]
<1>1. /\ i \in Initiatives
      /\ row \in Initiative \cup {None}
      /\ RowAfter(r, row) \in Initiative
      /\ r.op = "create_initiative" => row = None
      /\ r.op # "create_initiative" => row \in Initiative
  BY NotRefused DEF Apply
<1>2. /\ ledger' = [ledger EXCEPT ![i] = Append(ledger[i], r)]
      /\ initiatives' = [initiatives EXCEPT ![i] = RowAfter(r, row)]
  BY DEF Apply, Publish, EffectOf
<1>3. Len(ledger[i]) = IF row = None THEN 0 ELSE row.revision
  BY <1>1 DEF RevisionCountsCommits
<1>4. CASE r.op = "create_initiative"
  BY <1>1, <1>2, <1>3, <1>4, CreatedRow DEF TablesOK
<1>5. CASE r.op # "create_initiative"
  BY <1>1, <1>2, <1>3, <1>5, ChangedRow, NoneIsNoValue DEF TablesOK
<1> QED
  BY <1>4, <1>5

(* An initiative's revision counts the commands that took effect on it. *)
LEMMA ApplyCounts ==
  ASSUME TablesOK, RevisionCountsCommits, NEW r \in Requests, Apply(r)
  PROVE  RevisionCountsCommits'
<1> SUFFICES ASSUME NEW j \in Initiatives
             PROVE  Len(ledger'[j]) = IF initiatives'[j] = None THEN 0
                                      ELSE initiatives'[j].revision
  BY DEF RevisionCountsCommits
<1>1. CASE j = r.initiative
  BY <1>1, ApplyAdvances, NoneIsNoValue DEF TablesOK
<1>2. CASE j # r.initiative
  BY <1>2, ApplyAdvances DEF TablesOK, RevisionCountsCommits
<1> QED
  BY <1>1, <1>2

-----------------------------------------------------------------------------
(* What a log looks like after a command: one entry more on its own        *)
(* initiative, the others as they were.                                    *)
LEMMA LogAfter ==
  ASSUME TablesOK, RevisionCountsCommits, NEW r \in Requests, Apply(r),
         NEW j \in Initiatives
  PROVE  /\ Len(ledger[j]) \in Nat
         /\ j # r.initiative => /\ ledger'[j] = ledger[j]
                                /\ initiatives'[j] = initiatives[j]
         /\ j = r.initiative =>
              /\ Len(ledger'[j]) = Len(ledger[j]) + 1
              /\ ledger'[j][Len(ledger[j]) + 1] = r
              /\ \A n \in 1..Len(ledger[j]) : ledger'[j][n] = ledger[j][n]
              /\ initiatives'[j] = RowAfter(r, initiatives[j])
<1> DEFINE i == r.initiative
<1>1. /\ i \in Initiatives
      /\ ledger \in [Initiatives -> Seq(Requests)]
      /\ initiatives \in [Initiatives -> Initiative \cup {None}]
      /\ ledger' = [ledger EXCEPT ![i] = Append(ledger[i], r)]
      /\ initiatives' = [initiatives EXCEPT ![i] = RowAfter(r, initiatives[i])]
  BY ApplyAdvances DEF TablesOK
<1>2. ledger[j] \in Seq(Requests) /\ Len(ledger[j]) \in Nat
  BY <1>1
<1>3. CASE j # i
  BY <1>1, <1>2, <1>3
<1>4. CASE j = i
  <2>1. ledger'[j] = Append(ledger[j], r)
    BY <1>1, <1>4
  <2>2. initiatives'[j] = RowAfter(r, initiatives[j])
    BY <1>1, <1>4
  <2> QED
    BY <1>2, <1>4, <2>1, <2>2
<1> QED
  BY <1>3, <1>4

(* A command that expects a revision takes effect on that revision. *)
LEMMA ApplyCompares ==
  ASSUME TablesOK, RevisionCountsCommits, EveryCommandSawItsRevision,
         NEW r \in Requests, Apply(r)
  PROVE  EveryCommandSawItsRevision'
<1> SUFFICES ASSUME NEW j \in Initiatives, NEW n \in 1..Len(ledger'[j]),
                    ledger'[j][n].op \in RevisionChecked
             PROVE  ledger'[j][n].revision = n - 1
  BY DEF EveryCommandSawItsRevision
<1>1. CASE j # r.initiative
  BY <1>1, LogAfter DEF EveryCommandSawItsRevision
<1>2. CASE j = r.initiative /\ n = Len(ledger[j]) + 1
  <2>1. ledger'[j][n] = r
    BY <1>2, LogAfter
  <2>2. r.op # "create_initiative"
    BY <2>1 DEF RevisionChecked
  <2>3. initiatives[j].revision = r.revision
    BY <1>2, <2>1, <2>2, NotRefused DEF Apply
  <2> QED
    BY <1>2, <2>1, <2>2, <2>3, ApplyAdvances, LogAfter
<1>3. CASE j = r.initiative /\ n # Len(ledger[j]) + 1
  <2>1. n \in 1..Len(ledger[j]) /\ ledger'[j][n] = ledger[j][n]
    BY <1>3, LogAfter
  <2> QED
    BY <2>1 DEF EveryCommandSawItsRevision
<1> QED
  BY <1>1, <1>2, <1>3

-----------------------------------------------------------------------------
(* Nothing takes effect on an archived initiative, and only its archiving  *)
(* command archives it.                                                    *)
LEMMA ApplyArchives ==
  ASSUME TablesOK, RevisionCountsCommits, ArchiveIsFinal,
         NEW r \in Requests, Apply(r)
  PROVE  ArchiveIsFinal'
<1> SUFFICES ASSUME NEW j \in Initiatives, NEW n \in 1..Len(ledger'[j]),
                    ledger'[j][n].op = "archive_initiative"
             PROVE  n = Len(ledger'[j]) /\ initiatives'[j].archived
  BY DEF ArchiveIsFinal
<1>1. CASE j # r.initiative
  BY <1>1, LogAfter DEF ArchiveIsFinal
<1>2. CASE j = r.initiative /\ n = Len(ledger[j]) + 1
  <2>1. ledger'[j][n] = r
    BY <1>2, LogAfter
  <2>2. initiatives[j] \in Initiative
    BY <1>2, <2>1, ApplyAdvances
  <2>3. RowAfter(r, initiatives[j]).archived
    BY <2>1, <2>2, ChangedRow
  <2> QED
    BY <1>2, <2>3, LogAfter
<1>3. CASE j = r.initiative /\ n # Len(ledger[j]) + 1
  <2>1. n \in 1..Len(ledger[j]) /\ ledger'[j][n] = ledger[j][n]
    BY <1>3, LogAfter
  <2>2. initiatives[j].archived /\ Len(ledger[j]) # 0
    BY <2>1 DEF ArchiveIsFinal
  <2> QED
    BY <1>3, <2>2, ApplyAdvances, NotRefused DEF Apply
<1> QED
  BY <1>1, <1>2, <1>3

-----------------------------------------------------------------------------
(* The receipt of a command and its log entry are written together, and    *)
(* the key was unused.                                                     *)
LEMMA ApplyReceipts ==
  ASSUME TablesOK, RevisionCountsCommits, ReceiptsRecordEffects,
         NEW r \in Requests, Apply(r)
  PROVE  ReceiptsRecordEffects'
<1> DEFINE i == r.initiative
           row == initiatives[i]
           last == Len(ledger[i]) + 1
           response == EffectOf(r, row, projects[i]).response
           receipt == [hash |-> r, response |-> response]
<1>1. /\ receipts[KeyOf(r)] = None
      /\ KeyOf(r) \in ReceiptKeys
      /\ receipts' = [receipts EXCEPT ![KeyOf(r)] = receipt]
  BY RequestShape DEF Apply, Publish
<1>2. /\ response.revision = last
      /\ response # None
      /\ receipt # None
  <2>1. response.revision = RowAfter(r, row).revision
    BY DEF EffectOf, ResponseOf
  <2>2. response \in Response
    BY NotRefused DEF Apply, Effect
  <2>3. receipt \in Receipt
    BY <2>2 DEF Receipt
  <2> QED
    BY <2>1, <2>2, <2>3, ApplyAdvances, NoneIsNoValue
<1>3. /\ receipts'[KeyOf(r)] = receipt
      /\ \A k \in ReceiptKeys : k # KeyOf(r) => receipts'[k] = receipts[k]
  BY <1>1 DEF TablesOK
<1>4. ASSUME NEW j \in Initiatives, NEW n \in 1..Len(ledger'[j])
      PROVE  /\ receipts'[KeyOf(ledger'[j][n])] # None
             /\ receipts'[KeyOf(ledger'[j][n])].hash = ledger'[j][n]
             /\ receipts'[KeyOf(ledger'[j][n])].response # None
             /\ receipts'[KeyOf(ledger'[j][n])].response.revision = n
  <2>1. CASE j = i /\ n = last
    BY <1>2, <1>3, <2>1, LogAfter
  <2>2. CASE ~(j = i /\ n = last)
    <3>1. n \in 1..Len(ledger[j]) /\ ledger'[j][n] = ledger[j][n]
      BY <2>2, LogAfter
    <3>2. ledger[j][n] \in Requests
      BY <3>1 DEF TablesOK
    <3>3. KeyOf(ledger[j][n]) # KeyOf(r) /\ KeyOf(ledger[j][n]) \in ReceiptKeys
      BY <1>1, <3>1, <3>2, RequestShape DEF ReceiptsRecordEffects
    <3> QED
      BY <1>3, <3>1, <3>3 DEF ReceiptsRecordEffects
  <2> QED
    BY <2>1, <2>2
<1>5. ASSUME NEW k \in ReceiptKeys, receipts'[k] # None
      PROVE  LET q == receipts'[k].hash
                 n == receipts'[k].response.revision
             IN  /\ KeyOf(q) = k
                 /\ n \in 1..Len(ledger'[q.initiative])
                 /\ ledger'[q.initiative][n] = q
  <2>1. CASE k = KeyOf(r)
    <3>1. receipts'[k].hash = r /\ receipts'[k].response.revision = last
      BY <1>2, <1>3, <2>1
    <3>2. i \in Initiatives
      BY RequestShape
    <3>3. /\ last \in 1..Len(ledger'[i])
          /\ ledger'[i][last] = r
      BY <3>2, LogAfter
    <3> QED
      BY <2>1, <3>1, <3>3
  <2>2. CASE k # KeyOf(r)
    <3> DEFINE q == receipts[k].hash
               n == receipts[k].response.revision
    <3>1. receipts'[k] = receipts[k] /\ receipts[k] # None
      BY <1>3, <1>5, <2>2
    <3>2. q \in Requests /\ q.initiative \in Initiatives
      BY <3>1, RequestShape DEF TablesOK, Receipt
    <3>3. /\ KeyOf(q) = k
          /\ n \in 1..Len(ledger[q.initiative])
          /\ ledger[q.initiative][n] = q
      BY <3>1 DEF ReceiptsRecordEffects
    <3> QED
      BY <3>1, <3>2, <3>3, LogAfter
  <2> QED
    BY <2>1, <2>2
<1> QED
  BY <1>4, <1>5 DEF ReceiptsRecordEffects

-----------------------------------------------------------------------------
(* The log entries that add an update. *)
Added(log) == {n \in 1..Len(log) : log[n].op = "add_initiative_update"}

(* HealthIsLatestUpdate in terms of the log. *)
HealthIsLogged ==
  \A i \in Initiatives :
    initiatives[i] # None =>
      \/ Added(ledger[i]) = {} /\ initiatives[i].health = NoUpdate
      \/ \E n \in Added(ledger[i]) :
           /\ \A m \in Added(ledger[i]) : m <= n
           /\ initiatives[i].health = ledger[i][n].health

(* Health follows the last update of the log: an update sets both, and no  *)
(* other command touches either.                                           *)
LEMMA ApplyReports ==
  ASSUME TablesOK, RevisionCountsCommits, HealthIsLogged,
         NEW r \in Requests, Apply(r)
  PROVE  HealthIsLogged'
<1> SUFFICES ASSUME NEW j \in Initiatives, initiatives'[j] # None
             PROVE  \/ /\ Added(ledger'[j]) = {}
                       /\ initiatives'[j].health = NoUpdate
                    \/ \E n \in Added(ledger'[j]) :
                         /\ \A m \in Added(ledger'[j]) : m <= n
                         /\ initiatives'[j].health = ledger'[j][n].health
  BY DEF HealthIsLogged
<1>1. CASE j # r.initiative
  BY <1>1, LogAfter DEF HealthIsLogged, Added
<1>2. CASE j = r.initiative
  <2> DEFINE last == Len(ledger[j]) + 1
  <2>1. /\ Len(ledger[j]) \in Nat
        /\ Len(ledger'[j]) = last
        /\ ledger'[j][last] = r
        /\ \A n \in 1..Len(ledger[j]) : ledger'[j][n] = ledger[j][n]
        /\ initiatives'[j] = RowAfter(r, initiatives[j])
    BY <1>2, LogAfter
  <2>2. CASE r.op = "add_initiative_update"
    <3>1. last \in Added(ledger'[j])
      BY <2>1, <2>2 DEF Added
    <3>2. \A m \in Added(ledger'[j]) : m <= last
      BY <2>1 DEF Added
    <3>3. initiatives'[j].health = r.health
      BY <1>2, <2>1, <2>2, ApplyAdvances, ChangedRow, ZenonT(30)
    <3> QED
      BY <2>1, <3>1, <3>2, <3>3
  <2>3. CASE r.op = "create_initiative"
    <3>1. Len(ledger[j]) = 0
      BY <1>2, <2>3, ApplyAdvances
    <3>2. Added(ledger'[j]) = {}
      BY <2>1, <2>3, <3>1 DEF Added
    <3>3. initiatives'[j].health = NoUpdate
      BY <2>1, <2>3, CreatedRow
    <3> QED
      BY <3>2, <3>3
  <2>4. CASE r.op \notin {"create_initiative", "add_initiative_update"}
    <3>1. initiatives[j] \in Initiative
      BY <1>2, <2>4, ApplyAdvances
    <3>2. initiatives'[j].health = initiatives[j].health
      <4>1. RowAfter(r, initiatives[j]).health = initiatives[j].health
        BY <2>4, <3>1, ChangedRow
      <4> QED
        BY <2>1, <4>1
    <3>3. Added(ledger'[j]) = Added(ledger[j])
      BY <2>1, <2>4 DEF Added
    <3>4. \A n \in Added(ledger[j]) : ledger'[j][n] = ledger[j][n]
      BY <2>1 DEF Added
    <3>5. initiatives[j] # None
      BY <3>1, NoneIsNoValue
    <3> QED
      BY <3>2, <3>3, <3>4, <3>5 DEF HealthIsLogged
  <2> QED
    BY <2>2, <2>3, <2>4
<1> QED
  BY <1>1, <1>2

-----------------------------------------------------------------------------
(* A command keeps the order of its initiative's projects and does not     *)
(* touch the others (MembersOrdered is the argument for one initiative).   *)
LEMMA ApplyOrders ==
  ASSUME TablesOK, ProjectsAreOrdered, NEW r \in Requests, Apply(r)
  PROVE  ProjectsAreOrdered'
<1> SUFFICES ASSUME NEW j \in Initiatives
             PROVE  Ordered(projects'[j])
  BY DEF ProjectsAreOrdered, Ordered
<1> DEFINE i == r.initiative
<1>1. /\ i \in Initiatives
      /\ projects' = [projects EXCEPT ![i] = MembersAfter(r, projects[i])]
  BY NotRefused DEF Apply, Publish, EffectOf
<1>2. Ordered(projects[j])
  BY DEF ProjectsAreOrdered, Ordered
<1>3. CASE j = i
  <2>1. /\ projects[j] \in Members
        /\ WriteRefusal(r, initiatives[i], projects[j], TakenUpdate(r)) = None
    BY <1>3, NotRefused DEF Apply
  <2>2. Ordered(MembersAfter(r, projects[j]))
    BY <1>2, <2>1, MembersOrdered
  <2> QED
    BY <1>1, <1>3, <2>2 DEF TablesOK
<1>4. CASE j # i
  BY <1>1, <1>2, <1>4 DEF TablesOK
<1> QED
  BY <1>3, <1>4

-----------------------------------------------------------------------------
(* The row of portfolio_updates that a command adds is the log entry that  *)
(* it adds; the rows and entries of before stay as they were.              *)
LEMMA ApplyLogsUpdate ==
  ASSUME TablesOK, RevisionCountsCommits, UpdatesAreLogged,
         NEW r \in Requests, Apply(r)
  PROVE  UpdatesAreLogged'
<1> DEFINE i == r.initiative
           org == OrganizationOf[i]
           last == Len(ledger[i]) + 1
           added == r.op = "add_initiative_update"
           new == [initiative |-> i, health |-> r.health, revision |-> last]
<1>1. i \in Initiatives /\ org \in Organizations
  BY RequestShape, OrganizationsOwnInitiatives
<1>2. added => /\ r.update \in UpdateIds
               /\ updates[org][r.update] = None
               /\ new # None
               /\ updates' = [updates EXCEPT ![org][r.update] = new]
  <2> SUFFICES ASSUME added
               PROVE  /\ r.update \in UpdateIds
                      /\ updates[org][r.update] = None
                      /\ new # None
                      /\ updates' = [updates EXCEPT ![org][r.update] = new]
    OBVIOUS
  <2>1. /\ initiatives[i] \in Initiative
        /\ initiatives[i].revision + 1 = last
    BY ApplyAdvances
  <2>2. /\ UpdateAfter(r, initiatives[i]) = new
        /\ new # None
        /\ r.update \in UpdateIds
    BY <2>1, UpdateTyped
  <2>3. TakenUpdate(r) = None
    BY NotRefused, NoneIsNoValue DEF Apply, WriteRefusal, Failures
  <2> QED
    BY <2>2, <2>3 DEF Apply, Publish, EffectOf, TakenUpdate
<1>3. ~added => updates' = updates
  <2> SUFFICES ASSUME ~added PROVE updates' = updates
    OBVIOUS
  <2>1. UpdateAfter(r, initiatives[i]) = None
    BY DEF UpdateAfter
  <2> QED
    BY <2>1 DEF Apply, Publish, EffectOf
<1>4. ASSUME NEW o \in Organizations, NEW u \in UpdateIds
      PROVE  updates'[o][u] = IF added /\ o = org /\ u = r.update
                              THEN new ELSE updates[o][u]
  BY <1>1, <1>2, <1>3 DEF TablesOK
<1>5. ASSUME NEW o \in Organizations, NEW u \in UpdateIds,
             updates'[o][u] # None
      PROVE  LET row == updates'[o][u]
                 q == ledger'[row.initiative][row.revision]
             IN  /\ OrganizationOf[row.initiative] = o
                 /\ row.revision \in 1..Len(ledger'[row.initiative])
                 /\ q.op = "add_initiative_update"
                 /\ q.update = u
                 /\ q.health = row.health
  <2>1. CASE added /\ o = org /\ u = r.update
    <3>1. updates'[o][u] = new
      BY <1>4, <2>1
    <3>2. last \in 1..Len(ledger'[i]) /\ ledger'[i][last] = r
      BY <1>1, LogAfter
    <3> QED
      BY <2>1, <3>1, <3>2
  <2>2. CASE ~(added /\ o = org /\ u = r.update)
    <3> DEFINE row == updates[o][u]
    <3>1. updates'[o][u] = row /\ row # None
      BY <1>4, <1>5, <2>2
    <3>2. row \in Update
      BY <3>1 DEF TablesOK
    <3>3. row.initiative \in Initiatives
      BY <3>2 DEF Update
    <3>4. /\ OrganizationOf[row.initiative] = o
          /\ row.revision \in 1..Len(ledger[row.initiative])
          /\ ledger[row.initiative][row.revision].op = "add_initiative_update"
          /\ ledger[row.initiative][row.revision].update = u
          /\ ledger[row.initiative][row.revision].health = row.health
      BY <3>1 DEF UpdatesAreLogged
    <3>5. /\ row.revision \in 1..Len(ledger'[row.initiative])
          /\ ledger'[row.initiative][row.revision]
               = ledger[row.initiative][row.revision]
      BY <3>3, <3>4, LogAfter, SMTT(30)
    <3> QED
      BY <3>1, <3>4, <3>5
  <2> QED
    BY <2>1, <2>2
<1>6. ASSUME NEW j \in Initiatives, NEW n \in 1..Len(ledger'[j]),
             ledger'[j][n].op = "add_initiative_update"
      PROVE  LET row == updates'[OrganizationOf[j]][ledger'[j][n].update]
             IN  row # None /\ row.initiative = j /\ row.revision = n
  <2>1. CASE j = i /\ n = last
    <3>1. ledger'[j][n] = r
      BY <2>1, LogAfter
    <3> QED
      BY <1>1, <1>2, <1>4, <1>6, <2>1, <3>1
  <2>2. CASE ~(j = i /\ n = last)
    <3> DEFINE q == ledger[j][n]
               o == OrganizationOf[j]
               row == updates[o][q.update]
    <3>1. n \in 1..Len(ledger[j]) /\ ledger'[j][n] = q
      BY <2>2, LogAfter
    <3>2. q \in Requests /\ q.op = "add_initiative_update"
      BY <1>6, <3>1 DEF TablesOK
    <3>3. q.update \in UpdateIds /\ o \in Organizations
      BY <3>2, RequestFields, OrganizationsOwnInitiatives DEF AddUpdateRequest
    <3>4. row # None /\ row.initiative = j /\ row.revision = n
      BY <3>1, <3>2 DEF UpdatesAreLogged
    <3>5. updates'[o][q.update] = row
      BY <1>2, <1>4, <3>3, <3>4
    <3> QED
      BY <3>1, <3>4, <3>5
  <2> QED
    BY <2>1, <2>2
<1> QED
  BY <1>5, <1>6 DEF UpdatesAreLogged

-----------------------------------------------------------------------------
(* The log entries that touch, attach and detach a project, and those      *)
(* since it was last attached: the sets of MembershipCountsTouches.        *)
Touching(log, p) == {n \in 1..Len(log) : Touches(log[n], p)}
Attaching(log, p) == {n \in Touching(log, p) : log[n].op = "attach_project"}
Detaching(log, p) == {n \in Touching(log, p) : log[n].op = "detach_project"}
SinceAttached(log, p) ==
  {n \in Touching(log, p) : \A m \in Attaching(log, p) : m <= n}

(* What MembershipCountsTouches says of one project of one initiative. *)
Counted(log, p, member) ==
  IF member = None
  THEN \A m \in Attaching(log, p) : \E n \in Detaching(log, p) : n > m
  ELSE /\ \E m \in Attaching(log, p) : \A n \in Detaching(log, p) : n < m
       /\ member.revision = Cardinality(SinceAttached(log, p))

(* MembershipCountsTouches, project by project. *)
LEMMA CountedEverywhere ==
  MembershipCountsTouches <=>
    \A i \in Initiatives, p \in Projects : Counted(ledger[i], p, projects[i][p])
BY DEF MembershipCountsTouches, Counted, Touching, Attaching, Detaching,
       SinceAttached

(* An entry that does not touch the project changes none of the sets. *)
LEMMA NoTouch ==
  ASSUME NEW log \in Seq(Requests), NEW r \in Requests, NEW p, ~Touches(r, p)
  PROVE  LET after == Append(log, r)
         IN  /\ Touching(after, p) = Touching(log, p)
             /\ Attaching(after, p) = Attaching(log, p)
             /\ Detaching(after, p) = Detaching(log, p)
             /\ SinceAttached(after, p) = SinceAttached(log, p)
<1> DEFINE after == Append(log, r)
<1>1. /\ Len(log) \in Nat
      /\ Len(after) = Len(log) + 1
      /\ after[Len(log) + 1] = r
      /\ \A n \in 1..Len(log) : after[n] = log[n]
  OBVIOUS
<1>2. Touching(after, p) = Touching(log, p)
  <2> HIDE DEF after
  <2> QED
    BY <1>1 DEF Touching
<1>3. \A n \in Touching(log, p) : after[n] = log[n]
  BY <1>1 DEF Touching
<1>4. /\ Attaching(after, p) = Attaching(log, p)
      /\ Detaching(after, p) = Detaching(log, p)
  <2> HIDE DEF after
  <2> QED
    BY <1>2, <1>3 DEF Attaching, Detaching
<1> QED
  BY <1>2, <1>4 DEF SinceAttached

(* An entry that touches it is one more of its kind. *)
LEMMA OneTouch ==
  ASSUME NEW log \in Seq(Requests), NEW r \in Requests, NEW p, Touches(r, p)
  PROVE  LET after == Append(log, r)
             last == Len(log) + 1
         IN  /\ r.op = "attach_project" =>
                  /\ last \in Attaching(after, p)
                  /\ Detaching(after, p) = Detaching(log, p)
                  /\ SinceAttached(after, p) = {last}
             /\ r.op = "detach_project" =>
                  /\ Attaching(after, p) = Attaching(log, p)
                  /\ last \in Detaching(after, p)
             /\ r.op \notin {"attach_project", "detach_project"} =>
                  /\ Attaching(after, p) = Attaching(log, p)
                  /\ Detaching(after, p) = Detaching(log, p)
                  /\ SinceAttached(after, p) = SinceAttached(log, p) \cup {last}
<1> DEFINE after == Append(log, r)
           last == Len(log) + 1
<1>1. /\ Len(log) \in Nat
      /\ Len(after) = last
      /\ after[last] = r
      /\ \A n \in 1..Len(log) : after[n] = log[n]
  OBVIOUS
<1>2. Touching(after, p) = Touching(log, p) \cup {last}
  <2> HIDE DEF after
  <2> QED
    BY <1>1 DEF Touching
<1>3. /\ \A n \in Touching(log, p) : after[n] = log[n]
      /\ \A n \in Touching(log, p) : n \in Nat /\ n < last
      /\ last \notin Touching(log, p)
  BY <1>1 DEF Touching
<1>4. /\ Attaching(log, p) \subseteq Touching(log, p)
      /\ last \in Nat
  BY <1>1 DEF Attaching
<1> HIDE DEF after, last
<1>5. CASE r.op = "attach_project"
  <2>1. /\ Attaching(after, p) = Attaching(log, p) \cup {last}
        /\ Detaching(after, p) = Detaching(log, p)
    BY <1>1, <1>2, <1>3, <1>5 DEF Attaching, Detaching
  <2>2. SinceAttached(after, p) = {last}
    BY <1>2, <1>3, <1>4, <2>1 DEF SinceAttached
  <2> QED
    BY <1>5, <2>1, <2>2 DEF after, last
<1>6. CASE r.op = "detach_project"
  <2>1. /\ Attaching(after, p) = Attaching(log, p)
        /\ Detaching(after, p) = Detaching(log, p) \cup {last}
    BY <1>1, <1>2, <1>3, <1>6 DEF Attaching, Detaching
  <2> QED
    BY <1>6, <2>1 DEF after, last
<1>7. CASE r.op \notin {"attach_project", "detach_project"}
  <2>1. /\ Attaching(after, p) = Attaching(log, p)
        /\ Detaching(after, p) = Detaching(log, p)
    BY <1>1, <1>2, <1>3, <1>7 DEF Attaching, Detaching
  <2>2. SinceAttached(after, p) = SinceAttached(log, p) \cup {last}
    BY <1>2, <1>3, <1>4, <2>1 DEF SinceAttached
  <2> QED
    BY <1>7, <2>1, <2>2 DEF after, last
<1> QED
  BY <1>5, <1>6, <1>7

(* A command that is not refused attaches what was not attached, and       *)
(* touches otherwise only what is: the row it leaves is None exactly after *)
(* a detach, of revision 1 after an attach, and else one revision on.      *)
LEMMA TouchedMember ==
  ASSUME NEW r \in Requests, NEW row, NEW members \in Members, NEW update,
         WriteRefusal(r, row, members, update) = None, NEW p \in Projects
  PROVE  LET after == MembersAfter(r, members)[p]
         IN  /\ ~Touches(r, p) => after = members[p]
             /\ Touches(r, p) /\ r.op = "attach_project" =>
                  after # None /\ after.revision = 1
             /\ Touches(r, p) /\ r.op = "detach_project" => after = None
             /\ Touches(r, p) /\ r.op \notin {"attach_project", "detach_project"} =>
                  /\ members[p] \in Member
                  /\ after # None
                  /\ after.revision = members[p].revision + 1
<1> DEFINE after == MembersAfter(r, members)[p]
<1>1. r.op \in Operations /\ after \in Member \cup {None}
  BY RequestShape, MembersTyped DEF Members
<1>2. CASE r.op = "attach_project"
  <2>1. Touches(r, p) <=> r.project = p
    BY <1>2 DEF Touches
  <2>2. MembersAfter(r, members) = [members EXCEPT ![r.project] = Attachment(r)]
    BY <1>2 DEF MembersAfter
  <2>3. r.project = p => after = Attachment(r)
    BY <2>2 DEF Members
  <2>4. r.project = p => after # None
    BY <1>2, WrittenMember, NoneIsNoValue
  <2> QED
    BY <1>2, <2>1, <2>2, <2>3, <2>4 DEF Members, Attachment
<1>3. CASE r.op = "update_project_snapshot"
  <2>1. Touches(r, p) <=> r.project = p
    BY <1>3 DEF Touches
  <2>2. MembersAfter(r, members) =
          [members EXCEPT ![r.project] =
             [snapshot |-> r.snapshot, position |-> members[r.project].position,
              revision |-> members[r.project].revision + 1]]
    BY <1>3 DEF MembersAfter
  <2>3. r.project = p => members[p] # None /\ after # None
    BY <1>3, WrittenMember, NoneIsNoValue DEF WriteRefusal, SnapshotRefusal, Failures
  <2>4. r.project = p => after.revision = members[p].revision + 1
    BY <2>2 DEF Members
  <2>5. r.project # p => after = members[p]
    BY <2>2 DEF Members
  <2> QED
    BY <1>3, <2>1, <2>3, <2>4, <2>5 DEF Members
<1>4. CASE r.op = "detach_project"
  <2>1. Touches(r, p) <=> r.project = p
    BY <1>4 DEF Touches
  <2>2. MembersAfter(r, members) = [members EXCEPT ![r.project] = None]
    BY <1>4 DEF MembersAfter
  <2> QED
    BY <1>4, <2>1, <2>2 DEF Members
<1>5. CASE r.op = "reorder_projects"
  <2>1. Touches(r, p) <=> \E n \in 1..Len(r.items) : r.items[n].project = p
    BY <1>5 DEF Touches
  <2>2. /\ r \in ReorderRequest
        /\ CompleteOrder(r.items, members)
        /\ MembersAfter(r, members) = Reordered(r.items, members)
    BY <1>5, RequestFields, NoneIsNoValue
    DEF WriteRefusal, ReorderRefusal, MembersAfter, Failures
  <2>3. ~Touches(r, p) => after = members[p]
    BY <2>1, <2>2 DEF Reordered
  <2>4. Touches(r, p) => /\ members[p] \in Member
                         /\ after.revision = members[p].revision + 1
                         /\ after # None
    <3> SUFFICES ASSUME NEW n \in 1..Len(r.items), r.items[n].project = p
                 PROVE  /\ members[p] \in Member
                        /\ after.revision = members[p].revision + 1
                        /\ after # None
      BY <2>1
    <3>1. members[p] \in Member /\ after.revision = members[p].revision + 1
      BY <2>2, ReorderedItems
    <3>2. after # None
      <4>1. p \in Attached(members)
        BY <3>1, NoneIsNoValue DEF Attached
      <4>2. Attached(members) \subseteq Attached(MembersAfter(r, members))
        BY <2>2, ReorderKeepsAttached
      <4> QED
        BY <4>1, <4>2 DEF Attached
    <3> QED
      BY <3>1, <3>2
  <2> QED
    BY <1>5, <2>3, <2>4
<1>6. CASE r.op \in {"create_initiative", "update_initiative",
                     "add_initiative_update", "archive_initiative"}
  BY <1>6 DEF MembersAfter, Touches
<1> QED
  BY <1>1, <1>2, <1>3, <1>4, <1>5, <1>6 DEF Operations

(* A command counts itself in the memberships that it touches. *)
LEMMA ApplyTouches ==
  ASSUME TablesOK, RevisionCountsCommits, MembershipCountsTouches,
         NEW r \in Requests, Apply(r)
  PROVE  MembershipCountsTouches'
<1> SUFFICES ASSUME NEW j \in Initiatives, NEW p \in Projects
             PROVE  Counted(ledger'[j], p, projects'[j][p])
  BY DEF MembershipCountsTouches, Counted, Touching, Attaching, Detaching,
         SinceAttached
<1> DEFINE i == r.initiative
           log == ledger[j]
           last == Len(log) + 1
           member == projects[j][p]
           after == MembersAfter(r, projects[i])[p]
<1>1. /\ i \in Initiatives
      /\ projects[i] \in Members
      /\ projects' = [projects EXCEPT ![i] = MembersAfter(r, projects[i])]
      /\ ledger' = [ledger EXCEPT ![i] = Append(ledger[i], r)]
      /\ WriteRefusal(r, initiatives[i], projects[i], TakenUpdate(r)) = None
  BY NotRefused DEF Apply, Publish, EffectOf
<1>2. Counted(log, p, member)
  BY CountedEverywhere
<1>3. CASE j # i
  BY <1>1, <1>2, <1>3 DEF TablesOK
<1>4. CASE j = i
  <2>1. /\ log \in Seq(Requests)
        /\ last \in Nat
        /\ ledger'[j] = Append(log, r)
        /\ projects'[j][p] = after
    BY <1>1, <1>4 DEF TablesOK
  <2>2. /\ Attaching(log, p) \subseteq Touching(log, p)
        /\ Detaching(log, p) \subseteq Touching(log, p)
        /\ \A n \in Touching(log, p) : n \in Nat /\ n < last
    BY <2>1 DEF Attaching, Detaching, Touching
  <2>3. CASE ~Touches(r, p)
    <3>1. after = member
      BY <1>1, <1>4, <2>3, TouchedMember
    <3> QED
      BY <1>2, <2>1, <2>3, <3>1, NoTouch DEF Counted
  <2>4. CASE Touches(r, p) /\ r.op = "attach_project"
    <3>1. after # None /\ after.revision = 1
      BY <1>1, <2>4, TouchedMember
    <3>2. /\ SinceAttached(Append(log, r), p) = {last}
          /\ last \in Attaching(Append(log, r), p)
          /\ Detaching(Append(log, r), p) = Detaching(log, p)
      BY <2>1, <2>4, OneTouch
    <3>3. Cardinality({last}) = 1
      BY FS_Singleton
    <3> QED
      BY <2>1, <2>2, <3>1, <3>2, <3>3 DEF Counted
  <2>5. CASE Touches(r, p) /\ r.op = "detach_project"
    <3>1. after = None
      BY <1>1, <2>5, TouchedMember
    <3>2. /\ last \in Detaching(Append(log, r), p)
          /\ Attaching(Append(log, r), p) = Attaching(log, p)
      BY <2>1, <2>5, OneTouch
    <3> QED
      BY <2>1, <2>2, <3>1, <3>2 DEF Counted
  <2>6. CASE Touches(r, p) /\ r.op \notin {"attach_project", "detach_project"}
    <3>1. /\ member \in Member
          /\ after # None
          /\ after.revision = member.revision + 1
      BY <1>1, <1>4, <2>6, TouchedMember
    <3>2. /\ Attaching(Append(log, r), p) = Attaching(log, p)
          /\ Detaching(Append(log, r), p) = Detaching(log, p)
          /\ SinceAttached(Append(log, r), p) = SinceAttached(log, p) \cup {last}
      BY <2>1, <2>6, OneTouch
    <3>3. /\ \E m \in Attaching(log, p) : \A n \in Detaching(log, p) : n < m
          /\ member.revision = Cardinality(SinceAttached(log, p))
      BY <1>2, <3>1, NoneIsNoValue DEF Counted
    <3>4. /\ IsFiniteSet(SinceAttached(log, p))
          /\ last \notin SinceAttached(log, p)
      <4>1. SinceAttached(log, p) \subseteq 1..Len(log)
        BY DEF SinceAttached, Touching
      <4>2. Len(log) \in Nat
        BY <2>1
      <4>3. IsFiniteSet(1..Len(log))
        BY <4>2, FS_Interval
      <4> QED
        BY <4>1, <4>2, <4>3, FS_Subset
    <3>5. Cardinality(SinceAttached(log, p) \cup {last}) = member.revision + 1
      BY <3>3, <3>4, FS_AddElement
    <3> QED
      BY <2>1, <3>1, <3>2, <3>3, <3>5 DEF Counted
  <2> QED
    BY <2>3, <2>4, <2>5, <2>6
<1> QED
  BY <1>3, <1>4

-----------------------------------------------------------------------------
(* The inductive invariant of the tables.  The revision of an initiative   *)
(* and the length of its log are the link between the parts: each of the   *)
(* properties of the log needs RevisionCountsCommits to be preserved.      *)
Correct ==
  /\ TablesOK
  /\ RevisionCountsCommits
  /\ EveryCommandSawItsRevision
  /\ ReceiptsRecordEffects
  /\ ArchiveIsFinal
  /\ HealthIsLogged
  /\ UpdatesAreLogged
  /\ ProjectsAreOrdered
  /\ MembershipCountsTouches

(* The empty tables are correct. *)
LEMMA InitCorrect == TablesInit => Correct
<1> SUFFICES ASSUME TablesInit PROVE Correct
  OBVIOUS
<1>1. /\ \A i \in Initiatives : initiatives[i] = None /\ ledger[i] = <<>>
      /\ \A k \in ReceiptKeys : receipts[k] = None
      /\ \A o \in Organizations : \A u \in UpdateIds : updates[o][u] = None
  BY DEF TablesInit
<1>2. TablesOK
  BY DEF TablesInit, TablesOK, Members
<1>3. RevisionCountsCommits
  BY <1>1 DEF RevisionCountsCommits
<1>4. EveryCommandSawItsRevision /\ ArchiveIsFinal
  BY <1>1 DEF EveryCommandSawItsRevision, ArchiveIsFinal
<1>5. ReceiptsRecordEffects
  BY <1>1 DEF ReceiptsRecordEffects
<1>6. HealthIsLogged
  BY <1>1 DEF HealthIsLogged, Added
<1>7. UpdatesAreLogged
  BY <1>1 DEF UpdatesAreLogged
<1>8. ProjectsAreOrdered
  <2> SUFFICES ASSUME NEW j \in Initiatives
               PROVE  /\ Attached(projects[j]) = {}
                      /\ Count(projects[j]) <= MaxProjects
    BY DEF ProjectsAreOrdered
  <2>1. Attached(projects[j]) = {}
    BY DEF TablesInit, Attached
  <2> QED
    BY <2>1, FS_EmptySet, LimitsAreNatural DEF Count
<1>9. MembershipCountsTouches
  <2> SUFFICES ASSUME NEW j \in Initiatives, NEW p \in Projects
               PROVE  Counted(ledger[j], p, projects[j][p])
    BY CountedEverywhere
  <2>1. projects[j][p] = None /\ Len(ledger[j]) = 0
    BY <1>1 DEF TablesInit
  <2> QED
    BY <2>1 DEF Counted, Attaching, Touching
<1> QED
  BY <1>2, <1>3, <1>4, <1>5, <1>6, <1>7, <1>8, <1>9 DEF Correct

(* A command that takes effect keeps them correct. *)
LEMMA ApplyCorrect ==
  ASSUME Correct, NEW r \in Requests, Apply(r)
  PROVE  Correct'
BY ApplyTyped, ApplyCounts, ApplyCompares, ApplyReceipts, ApplyArchives,
   ApplyReports, ApplyLogsUpdate, ApplyOrders, ApplyTouches
DEF Correct

(* So does a step that does not touch them. *)
LEMMA StutterCorrect ==
  ASSUME Correct, UNCHANGED tables
  PROVE  Correct'
<1>1. MembershipCountsTouches'
  <2> SUFFICES ASSUME NEW j \in Initiatives, NEW p \in Projects
               PROVE  Counted(ledger'[j], p, projects'[j][p])
    BY SMTT(30) DEF MembershipCountsTouches, Counted, Touching, Attaching, Detaching,
           SinceAttached
  <2>1. ledger' = ledger /\ projects' = projects
    BY DEF tables
  <2> QED
    BY <2>1, CountedEverywhere DEF Correct
<1>2. (/\ TablesOK /\ RevisionCountsCommits /\ EveryCommandSawItsRevision
       /\ ReceiptsRecordEffects /\ ArchiveIsFinal /\ HealthIsLogged
       /\ UpdatesAreLogged /\ ProjectsAreOrdered)'
  BY DEF Correct, tables, TablesOK, RevisionCountsCommits,
         EveryCommandSawItsRevision, ReceiptsRecordEffects, ArchiveIsFinal,
         HealthIsLogged, Added, UpdatesAreLogged, ProjectsAreOrdered
<1> QED
  BY <1>1, <1>2 DEF Correct

(* The update rows of an initiative are the updates of its log, so the     *)
(* health of the last of these is that of the row with the highest         *)
(* revision.                                                               *)
LEMMA HealthShown ==
  ASSUME Correct
  PROVE  HealthIsLatestUpdate
<1> SUFFICES ASSUME NEW i \in Initiatives
             PROVE  IF UpdatesOf(i) = {}
                    THEN initiatives[i] # None => initiatives[i].health = NoUpdate
                    ELSE /\ initiatives[i] # None
                         /\ \E row \in UpdatesOf(i) :
                              /\ \A other \in UpdatesOf(i) :
                                   other.revision <= row.revision
                              /\ initiatives[i].health = row.health
  BY DEF HealthIsLatestUpdate
<1> DEFINE o == OrganizationOf[i]
           log == ledger[i]
<1>1. o \in Organizations /\ log \in Seq(Requests)
  BY OrganizationsOwnInitiatives DEF Correct, TablesOK
<1>2. ASSUME NEW row \in UpdatesOf(i)
      PROVE  row.revision \in Added(log) /\ log[row.revision].health = row.health
  <2>1. PICK u \in UpdateIds : row = updates[o][u] /\ row # None /\ row.initiative = i
    BY <1>2 DEF UpdatesOf
  <2> QED
    BY <1>1, <2>1 DEF Correct, UpdatesAreLogged, Added
<1>3. ASSUME NEW n \in Added(log)
      PROVE  \E row \in UpdatesOf(i) : row.revision = n
  <2>1. n \in 1..Len(log) /\ log[n].op = "add_initiative_update" /\ log[n] \in Requests
    BY <1>1 DEF Added
  <2>2. log[n].update \in UpdateIds
    BY <2>1, RequestFields DEF AddUpdateRequest
  <2>3. /\ updates[o][log[n].update] # None
        /\ updates[o][log[n].update].initiative = i
        /\ updates[o][log[n].update].revision = n
    BY <2>1 DEF Correct, UpdatesAreLogged
  <2>4. updates[o][log[n].update] \in UpdatesOf(i)
    BY <2>2, <2>3 DEF UpdatesOf
  <2> QED
    BY <2>3, <2>4
<1>4. CASE UpdatesOf(i) = {}
  <2>1. Added(log) = {}
    BY <1>3, <1>4
  <2> QED
    BY <1>4, <2>1 DEF Correct, HealthIsLogged
<1>5. CASE UpdatesOf(i) # {}
  <2>1. Added(log) # {}
    BY <1>2, <1>5
  <2>2. initiatives[i] # None
    <3>1. Len(log) # 0
      BY <1>1, <2>1 DEF Added
    <3> QED
      BY <3>1 DEF Correct, RevisionCountsCommits
  <2>3. PICK n \in Added(log) :
          /\ \A m \in Added(log) : m <= n
          /\ initiatives[i].health = log[n].health
    BY <2>1, <2>2 DEF Correct, HealthIsLogged
  <2>4. PICK row \in UpdatesOf(i) : row.revision = n
    BY <1>3, <2>3
  <2>5. \A other \in UpdatesOf(i) : other.revision <= row.revision
    BY <1>2, <2>3, <2>4
  <2>6. initiatives[i].health = row.health
    BY <1>2, <2>3, <2>4
  <2> QED
    BY <1>5, <2>2, <2>4, <2>5, <2>6
<1> QED
  BY <1>4, <1>5

=============================================================================
