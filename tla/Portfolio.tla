------------------------------ MODULE Portfolio ------------------------------
(***************************************************************************)
(* What the project-portfolio store keeps, and what one command does to    *)
(* it.  The module has no state: it gives the types of the four tables     *)
(* (migrations/001_create_project_portfolio.sql), the commands of          *)
(* storage.rs as records, the order in which storage.rs refuses one, and   *)
(* the rows and the response it leaves when it does not.  PortfolioLedger  *)
(* applies these operators in one step, PortfolioStore through database    *)
(* transactions that interleave.                                           *)
(*                                                                         *)
(* An initiative stands for the pair (organization_id, initiative_id) that *)
(* is its primary key.  A name is a model value; Details stands for the    *)
(* columns every update overwrites, nulls included (summary, owner, target *)
(* window); a health stands for the pair (health, progress), which the     *)
(* code always writes together; a snapshot for the eight snapshot columns  *)
(* of a project; a scope for the pair (caller_instance, actor_subject).    *)
(***************************************************************************)
EXTENDS Integers, Sequences, FiniteSets

CONSTANTS
  None,            \* an absent row, SQL NULL, or "no failure"
  Initiatives,     \* (organization_id, initiative_id) pairs
  Organizations,   \* organization_id
  OrganizationOf,  \* the first component of an initiative's key
  Projects,        \* project_id
  UpdateIds,       \* update_id
  Scopes,          \* (caller_instance, actor_subject) pairs
  Keys,            \* idempotency_key
  Names,
  Details,
  Healths,
  NoUpdate,        \* the column defaults ('no_update', 0)
  Snapshots,
  MaxPosition,     \* 10000: the bound the handlers put on a position
  MaxProjects,     \* MAX_PROJECTS_PER_INITIATIVE
  Requests         \* the commands that callers may send

Positions == 0..MaxPosition

Failures ==
  {"InvalidRequest", "NotFound", "Archived", "RevisionConflict",
   "IdempotencyConflict", "OperationInProgress", "AlreadyExists",
   "AlreadyAttached", "NotAttached", "PositionConflict"}

-----------------------------------------------------------------------------
(* Rows *)

Initiative ==
  [name: Names, details: Details, health: Healths \cup {NoUpdate},
   archived: BOOLEAN, revision: Nat \ {0}]

Member == [snapshot: Snapshots, position: Positions, revision: Nat \ {0}]

Members == [Projects -> Member \cup {None}]

Update == [initiative: Initiatives, health: Healths, revision: Nat \ {0}]

-----------------------------------------------------------------------------
(* Commands: one record type per operation of storage.rs *)

CreateRequest ==
  [scope: Scopes, op: {"create_initiative"}, key: Keys,
   initiative: Initiatives, name: Names, details: Details]

UpdateRequest ==
  [scope: Scopes, op: {"update_initiative"}, key: Keys,
   initiative: Initiatives, revision: Nat,
   name: Names \cup {None}, details: Details]

AddUpdateRequest ==
  [scope: Scopes, op: {"add_initiative_update"}, key: Keys,
   initiative: Initiatives, revision: Nat,
   update: UpdateIds, health: Healths]

ArchiveRequest ==
  [scope: Scopes, op: {"archive_initiative"}, key: Keys,
   initiative: Initiatives, revision: Nat]

AttachRequest ==
  [scope: Scopes, op: {"attach_project"}, key: Keys,
   initiative: Initiatives, revision: Nat,
   project: Projects, snapshot: Snapshots, position: Positions]

SnapshotRequest ==
  [scope: Scopes, op: {"update_project_snapshot"}, key: Keys,
   initiative: Initiatives, project: Projects, membership: Nat,
   snapshot: Snapshots]

DetachRequest ==
  [scope: Scopes, op: {"detach_project"}, key: Keys,
   initiative: Initiatives, revision: Nat,
   project: Projects, membership: Nat]

OrderItem == [project: Projects, membership: Nat, position: Positions]

ReorderRequest ==
  [scope: Scopes, op: {"reorder_projects"}, key: Keys,
   initiative: Initiatives, revision: Nat, items: Seq(OrderItem)]

Request ==
  CreateRequest \cup UpdateRequest \cup AddUpdateRequest \cup ArchiveRequest
    \cup AttachRequest \cup SnapshotRequest \cup DetachRequest
    \cup ReorderRequest

Operations ==
  {"create_initiative", "update_initiative", "add_initiative_update",
   "archive_initiative", "attach_project", "update_project_snapshot",
   "detach_project", "reorder_projects"}

(* The commands that carry the revision they expect the initiative at.     *)
(* A snapshot names the revision of the membership instead, and a create   *)
(* has nothing to expect.                                                  *)
RevisionChecked == Operations \ {"create_initiative", "update_project_snapshot"}

(* The primary key of portfolio_commands. *)
ReceiptKeys == Scopes \X Operations \X Keys
KeyOf(r) == <<r.scope, r.op, r.key>>

-----------------------------------------------------------------------------
(* Refusals, in the order the code looks for them; None lets the command   *)
(* go on.                                                                  *)

Attached(members) == {p \in Projects : members[p] # None}
Count(members) == Cardinality(Attached(members))

(* A mistake: the archived flag is not looked at. *)
LockRefusalIgnoringArchive(r, row) ==
  IF row = None THEN "NotFound"
  ELSE IF r.op \in RevisionChecked /\ row.revision # r.revision
       THEN "RevisionConflict"
  ELSE None

(* A mistake: an older expected revision passes. *)
LockRefusalAcceptingOld(r, row) ==
  IF row = None THEN "NotFound"
  ELSE IF row.archived THEN "Archived"
  ELSE IF r.op \in RevisionChecked /\ row.revision < r.revision
       THEN "RevisionConflict"
  ELSE None

(* lock_initiative, then require_mutable_revision; the snapshot command    *)
(* looks at the archived flag alone.                                       *)
LockRefusal(r, row) ==
  IF row = None THEN "NotFound"
  ELSE IF row.archived THEN "Archived"
  ELSE IF r.op \in RevisionChecked /\ row.revision # r.revision
       THEN "RevisionConflict"
  ELSE None

(* A mistake: the limit is off by one. *)
AttachRefusalOffByOne(r, members) ==
  IF members[r.project] # None THEN "AlreadyAttached"
  ELSE IF Count(members) > MaxProjects THEN "InvalidRequest"
  ELSE IF \E p \in Attached(members) : members[p].position = r.position
       THEN "PositionConflict"
  ELSE None

AttachRefusal(r, members) ==
  IF members[r.project] # None THEN "AlreadyAttached"
  ELSE IF Count(members) >= MaxProjects THEN "InvalidRequest"
  ELSE IF \E p \in Attached(members) : members[p].position = r.position
       THEN "PositionConflict"
  ELSE None

SnapshotRefusal(r, members) ==
  IF members[r.project] = None THEN "NotAttached"
  ELSE IF members[r.project].revision # r.membership THEN "RevisionConflict"
  ELSE None

DetachRefusal(r, members) ==
  IF members[r.project] = None THEN "NotAttached"
  ELSE IF members[r.project].revision # r.membership THEN "RevisionConflict"
  ELSE None

(* Every attached project once, each at the membership revision it has,    *)
(* and no two at one position.                                             *)
CompleteOrder(items, members) ==
  /\ items # <<>>
  /\ Len(items) <= MaxProjects
  /\ Len(items) = Count(members)
  /\ \A m, n \in 1..Len(items) :
       m # n => /\ items[m].project # items[n].project
                /\ items[m].position # items[n].position
  /\ \A n \in 1..Len(items) :
       LET member == members[items[n].project]
       IN  member # None /\ member.revision = items[n].membership

ReorderRefusal(r, members) ==
  IF CompleteOrder(r.items, members) THEN None ELSE "InvalidRequest"

(* What the command's own statements refuse.  update is the row, if any,   *)
(* that has the update_id of an add_initiative_update.                     *)
WriteRefusal(r, row, members, update) ==
  CASE r.op = "create_initiative" ->
         IF row # None THEN "AlreadyExists" ELSE None
    [] r.op = "add_initiative_update" ->
         IF update # None THEN "AlreadyExists" ELSE None
    [] r.op = "attach_project" -> AttachRefusal(r, members)
    [] r.op = "update_project_snapshot" -> SnapshotRefusal(r, members)
    [] r.op = "detach_project" -> DetachRefusal(r, members)
    [] r.op = "reorder_projects" -> ReorderRefusal(r, members)
    [] OTHER -> None

-----------------------------------------------------------------------------
(* Effects of a command that is not refused *)

(* revision = revision + 1, in the command's own UPDATE or bump_initiative. *)
Bumped(row) == [row EXCEPT !.revision = @ + 1]

(* A null name keeps the name (COALESCE); Details are overwritten. *)
Patched(r, row) ==
  [name |-> IF r.name = None THEN row.name ELSE r.name, details |-> r.details,
   health |-> row.health, archived |-> row.archived, revision |-> row.revision]

RowAfter(r, row) ==
  CASE r.op = "create_initiative" ->
         [name |-> r.name, details |-> r.details, health |-> NoUpdate,
          archived |-> FALSE, revision |-> 1]
    [] r.op = "update_initiative" -> Bumped(Patched(r, row))
    [] r.op = "add_initiative_update" ->
         Bumped([row EXCEPT !.health = r.health])
    [] r.op = "archive_initiative" -> Bumped([row EXCEPT !.archived = TRUE])
    [] OTHER -> Bumped(row)

(* A mistake: the new positions are written, the revisions are not. *)
ReorderedKeepingRevisions(items, members) ==
  [p \in Projects |->
     IF \E n \in 1..Len(items) : items[n].project = p
     THEN [members[p] EXCEPT
             !.position = items[CHOOSE n \in 1..Len(items) :
                                  items[n].project = p].position]
     ELSE members[p]]

Reordered(items, members) ==
  [p \in Projects |->
     IF \E n \in 1..Len(items) : items[n].project = p
     THEN [snapshot |-> members[p].snapshot,
           position |-> items[CHOOSE n \in 1..Len(items) :
                                items[n].project = p].position,
           revision |-> members[p].revision + 1]
     ELSE members[p]]

(* A mistake: the column default of membership_revision is 0. *)
AttachmentAtZero(r) ==
  [snapshot |-> r.snapshot, position |-> r.position, revision |-> 0]

Attachment(r) ==
  [snapshot |-> r.snapshot, position |-> r.position, revision |-> 1]

MembersAfter(r, members) ==
  CASE r.op = "attach_project" ->
         [members EXCEPT ![r.project] = Attachment(r)]
    [] r.op = "update_project_snapshot" ->
         [members EXCEPT ![r.project] =
            [snapshot |-> r.snapshot, position |-> members[r.project].position,
             revision |-> members[r.project].revision + 1]]
    [] r.op = "detach_project" -> [members EXCEPT ![r.project] = None]
    [] r.op = "reorder_projects" -> Reordered(r.items, members)
    [] OTHER -> members

(* A mistake: the row keeps the revision that was expected. *)
UpdateAfterUnadvanced(r, row) ==
  IF r.op = "add_initiative_update"
  THEN [initiative |-> r.initiative, health |-> r.health, revision |-> row.revision]
  ELSE None

(* The portfolio_updates row that an add_initiative_update inserts. *)
UpdateAfter(r, row) ==
  IF r.op = "add_initiative_update"
  THEN [initiative |-> r.initiative, health |-> r.health,
        revision |-> row.revision + 1]
  ELSE None

(* The record the caller gets, as it is stored in response_json: revision  *)
(* is the initiative's after the command, body what else it reports.  The  *)
(* items of a reordering are sorted by position, which a set of items with *)
(* distinct positions determines.                                          *)
Body(r, row, members) ==
  CASE r.op \in {"create_initiative", "update_initiative"} ->
         [row |-> row, count |-> Count(members)]
    [] r.op = "add_initiative_update" ->
         [update |-> r.update, health |-> row.health]
    [] r.op = "archive_initiative" -> [archived |-> row.archived]
    [] r.op \in {"attach_project", "update_project_snapshot"} ->
         [project |-> r.project, member |-> members[r.project]]
    [] r.op = "detach_project" -> [detached |-> TRUE]
    [] r.op = "reorder_projects" ->
         [items |-> {[project |-> r.items[n].project,
                      position |-> r.items[n].position,
                      revision |-> members[r.items[n].project].revision] :
                       n \in 1..Len(r.items)}]

Bodies ==
  [row: Initiative, count: Nat]
    \cup [update: UpdateIds, health: Healths \cup {NoUpdate}]
    \cup [archived: BOOLEAN]
    \cup [project: Projects, member: Member]
    \cup [detached: {TRUE}]
    \cup [items: SUBSET [project: Projects, position: Positions, revision: Nat]]

Response == [revision: Nat \ {0}, body: Bodies]

ResponseOf(r, row, members) ==
  [revision |-> row.revision, body |-> Body(r, row, members)]

(* A row of portfolio_commands.  The hash of a request is taken to be      *)
(* injective, so the request itself stands for it.                         *)
Receipt == [hash: Requests, response: Response \cup {None}]

(* All that a command writes. *)
Effect ==
  [row: Initiative, members: Members, update: Update \cup {None},
   response: Response]

EffectOf(r, row, members) ==
  [row |-> RowAfter(r, row),
   members |-> MembersAfter(r, members),
   update |-> UpdateAfter(r, row),
   response |-> ResponseOf(r, RowAfter(r, row), MembersAfter(r, members))]

-----------------------------------------------------------------------------
ASSUME RequestsAreTyped == Requests \subseteq Request

ASSUME OrganizationsOwnInitiatives ==
  OrganizationOf \in [Initiatives -> Organizations]

ASSUME ProjectsFinite == IsFiniteSet(Projects)

ASSUME LimitsAreNatural == MaxPosition \in Nat /\ MaxProjects \in Nat

ASSUME NoneIsNoValue ==
  /\ None \notin Initiative
  /\ None \notin Member
  /\ None \notin Update
  /\ None \notin Response
  /\ None \notin Receipt
  /\ None \notin Effect
  /\ None \notin Failures
  /\ None \notin Requests
=============================================================================
