------------------------- MODULE RequestChecksProofs --------------------------
(* Proofs about RequestChecks: for every set of requests, whatever the      *)
(* handlers let through the database can store, and whatever it stores the  *)
(* handlers can address.                                                    *)
EXTENDS RequestChecks, TLAPS

(* What is known of a row that accepted requests have written. *)
OpaqueIds == {t \in Text : valid_opaque_id(t)}
Texts(max) == {t \in Text : valid_text(t, max)}
Dates == Int \cup {None}
Revisions == {n \in Int : n > 0}
Optional(S) == S \cup {None}
Snapshots == {t \in Text : valid_bounded_opaque(t, 128)}

InitiativeRows ==
  [table: {"initiatives"}, org: OpaqueIds, initiative: OpaqueIds,
   name: Texts(240), summary: Optional(Texts(MAX_TEXT_BYTES)),
   owner: Optional(OpaqueIds), start: Dates, date: Dates,
   progress: Shares, revision: Revisions]

UpdateRows ==
  [table: {"updates"}, org: OpaqueIds, initiative: OpaqueIds, update: OpaqueIds,
   summary: Texts(MAX_TEXT_BYTES), by: OpaqueIds,
   progress: Shares, revision: Revisions]

ProjectRows ==
  [table: {"projects"}, org: OpaqueIds, initiative: OpaqueIds, project: OpaqueIds,
   name: Texts(240), snapshot: Snapshots,
   start: Dates, date: Dates, progress: Shares, observed: Int,
   position: Positions, revision: Revisions]

Rows ==
  {w \in InitiativeRows : WindowHolds(w)}
    \cup {w \in ProjectRows : WindowHolds(w)} \cup UpdateRows

(* The inductive invariant. *)
Known ==
  /\ \A i \in DOMAIN callers : valid_id(callers[i])
  /\ row \in Rows \cup {None}
  /\ row # None => Readable(row)
  /\ told # "Runtime"

-----------------------------------------------------------------------------
(* A valid id is short and without NUL. *)
LEMMA OpaqueFacts ==
  ASSUME NEW t \in OpaqueIds
  PROVE  t.bytes \in 1..512 /\ t.kind # "nul" /\ t # None
BY NoValues DEF OpaqueIds, valid_opaque_id, valid_bounded_opaque, MAX_ID_BYTES

(* Two or three ids fit into an entry of an index. *)
LEMMA IdsFit ==
  ASSUME NEW a \in 1..512, NEW b \in 1..512, NEW c \in 1..512
  PROVE  /\ a + b <= MaxIndexEntry /\ a + b + c <= MaxIndexEntry
         /\ a + b + c + LongestOperation <= MaxIndexEntry
<1>1. a \in Int /\ b \in Int /\ c \in Int /\ a <= 512 /\ b <= 512 /\ c <= 512
  OBVIOUS
<1> QED
  BY <1>1 DEF MaxIndexEntry, LongestOperation

(* The rows satisfy the constraints of their table. *)
LEMMA RowsAreStorable ==
  ASSUME NEW w \in Rows
  PROVE  RowStorable(w)
<1>1. CASE w \in InitiativeRows /\ WindowHolds(w)
  <2>1. w.org \in OpaqueIds /\ w.initiative \in OpaqueIds /\ w.table = "initiatives"
    BY <1>1, SMTT(30) DEF InitiativeRows
  <2>2. w.org.bytes + w.initiative.bytes <= MaxIndexEntry
    <3>1. w.org.bytes \in 1..512 /\ w.initiative.bytes \in 1..512
      BY <2>1, OpaqueFacts
    <3> QED
      BY <3>1, IdsFit, ZenonT(30)
  <2>3. \A t \in {w.org, w.initiative, w.name, w.summary, w.owner} : Storable(t)
    BY <1>1, <2>1, OpaqueFacts
    DEF InitiativeRows, Optional, Storable, Texts, valid_text
  <2>4. w.progress \in Shares /\ w.revision > 0 /\ w.name # None
    BY <1>1, NoValues DEF InitiativeRows, Texts, Revisions, Shares
  <2> QED
    BY <1>1, <2>1, <2>2, <2>3, <2>4 DEF RowStorable
<1>2. CASE w \in ProjectRows /\ WindowHolds(w)
  <2>1. /\ w.org \in OpaqueIds /\ w.initiative \in OpaqueIds /\ w.project \in OpaqueIds
        /\ w.table = "projects"
    BY <1>2 DEF ProjectRows
  <2>2. w.org.bytes + w.initiative.bytes + w.project.bytes <= MaxIndexEntry
    <3>1. /\ w.org.bytes \in 1..512 /\ w.initiative.bytes \in 1..512
          /\ w.project.bytes \in 1..512
      BY <2>1, OpaqueFacts
    <3> QED
      BY <3>1, IdsFit, ZenonT(30)
  <2>3. \A t \in {w.org, w.initiative, w.project, w.name, w.snapshot} : Storable(t)
    BY <1>2, <2>1, OpaqueFacts
    DEF ProjectRows, Storable, Texts, Snapshots, valid_text, valid_bounded_opaque
  <2>4. w.progress \in Shares /\ w.revision > 0 /\ w.position >= 0
    <3>1. w.progress \in Shares /\ w.revision \in Revisions
      BY <1>2 DEF ProjectRows, Shares
    <3>2. w.revision > 0
      BY <3>1 DEF Revisions
    <3>3. w.position >= 0
      <4> w.position \in 0..10000
        BY <1>2, SMTT(30) DEF ProjectRows, Positions
      <4>1. PICK n \in 0..10000 : w.position = n
        OBVIOUS
      <4>2. n >= 0
        BY SMTT(30)
      <4> QED
        BY <4>1, <4>2
    <3> QED
      BY <3>1, <3>2, <3>3
  <2> QED
    BY <1>2, <2>1, <2>2, <2>3, <2>4 DEF RowStorable
<1>3. CASE w \in UpdateRows
  <2>1. /\ w.org \in OpaqueIds /\ w.initiative \in OpaqueIds /\ w.update \in OpaqueIds
        /\ w.by \in OpaqueIds /\ w.table = "updates"
    BY <1>3 DEF UpdateRows
  <2>2. w.org.bytes + w.update.bytes <= MaxIndexEntry
    <3>1. w.org.bytes \in 1..512 /\ w.update.bytes \in 1..512
      BY <2>1, OpaqueFacts
    <3> QED
      BY <3>1, IdsFit, ZenonT(30)
  <2>3. \A t \in {w.org, w.initiative, w.update, w.summary, w.by} : Storable(t)
    BY <1>3, <2>1, OpaqueFacts DEF UpdateRows, Storable, Texts, valid_text
  <2>4. w.progress \in Shares /\ w.revision > 0
    BY <1>3 DEF UpdateRows, Revisions, Shares
  <2> QED
    BY <1>3, <2>1, <2>2, <2>3, <2>4 DEF RowStorable
<1> QED
  BY <1>1, <1>2, <1>3 DEF Rows

(* The fields of a request have their types. *)
LEMMA RequestFacts ==
  ASSUME NEW r \in Requests
  PROVE  /\ r \in Request
         /\ r.op \in Operations
         /\ \A t \in {r.caller, r.actor, r.org, r.initiative, r.project, r.update,
                      r.key, r.snapshot} : t \in Text
         /\ \A t \in {r.name, r.summary, r.owner} : t \in Text \cup {None}
         /\ r.progress \in Int /\ r.position \in Int
         /\ \A n \in {r.start, r.date} : n \in Int \cup {None, Garbage}
         /\ r.revision \in Int \cup {Garbage}
         /\ r.observed \in Int \cup {Garbage}
         /\ r.name = None => r.op = "update_initiative"
         /\ r.summary = None => r.op # "add_initiative_update"
<1>1. r \in Request
  BY RequestsDecode
<1> QED
  BY <1>1, RequestsDecode DEF Request, OptionalText, OptionalNumber, Number

(* What authorize and a command's checks leave for its receipt. *)
LEMMA ReceiptsAreStorable ==
  ASSUME Known, NEW r \in Requests, Authorized(r), Accepts(r), r.op \notin Reads
  PROVE  ReceiptStorable(r)
<1>1. r.caller.bytes \in 1..256 /\ r.caller.kind = "id"
  BY DEF Known, Authorized, valid_id
<1>2. r.actor.bytes \in 1..512 /\ r.actor.kind # "nul"
  BY DEF Authorized, valid_opaque_id, valid_bounded_opaque, MAX_ID_BYTES
<1>3. valid_idempotency_key(r.key)
  <2>1. r.op \in Inserts \cup
          {"update_initiative", "archive_initiative", "update_project_snapshot",
           "detach_project", "reorder_projects"}
    BY RequestFacts DEF Operations
  <2>2. CASE r.op \in {"create_initiative", "update_initiative", "add_initiative_update"}
    BY <2>2 DEF Accepts
  <2>3. CASE r.op = "archive_initiative"
    BY <2>3 DEF Accepts, valid_admin_mutation
  <2>4. CASE r.op = "attach_project"
    BY <2>4 DEF Accepts, valid_admin_mutation
  <2>5. CASE r.op = "update_project_snapshot"
    BY <2>5 DEF Accepts, valid_admin_mutation
  <2>6. CASE r.op = "detach_project"
    BY <2>6 DEF Accepts, valid_admin_mutation
  <2>7. CASE r.op = "reorder_projects"
    BY <2>7 DEF Accepts, valid_admin_mutation
  <2> QED
    BY <2>1, <2>2, <2>3, <2>4, <2>5, <2>6, <2>7 DEF Inserts
<1>4. r.key.bytes \in 1..256 /\ r.key.kind = "id"
  BY <1>3 DEF valid_idempotency_key, valid_id
<1>5. r.caller.bytes + r.actor.bytes + r.key.bytes + LongestOperation <= MaxIndexEntry
  <2>1. /\ r.caller.bytes \in 1..512 /\ r.actor.bytes \in 1..512
        /\ r.key.bytes \in 1..512
    BY <1>1, <1>2, <1>4
  <2> QED
    BY <2>1, IdsFit, ZenonT(30)
<1> QED
  BY <1>1, <1>2, <1>4, <1>5 DEF ReceiptStorable, Storable

(* An accepted date window is a window of dates. *)
LEMMA WindowFacts ==
  ASSUME NEW r \in Requests, parse_date_window(r.start, r.date)
  PROVE  /\ r.start \in Dates /\ r.date \in Dates
         /\ None \notin {r.start, r.date} => r.start <= r.date
BY RequestFacts DEF parse_date_window, Dates

(* What an accepted request inserts is a row. *)
LEMMA InsertedIsRow ==
  ASSUME NEW r \in Requests, Authorized(r), Accepts(r), r.op \in Inserts
  PROVE  Inserted(r) \in Rows
<1>1. r.org \in OpaqueIds /\ r.actor \in OpaqueIds
  BY RequestFacts DEF Authorized, OpaqueIds
<1>2. CASE r.op = "create_initiative"
  <2>1. /\ r.initiative \in OpaqueIds /\ r.name \in Texts(240)
        /\ r.summary \in Optional(Texts(MAX_TEXT_BYTES))
        /\ r.owner \in Optional(OpaqueIds)
        /\ parse_date_window(r.start, r.date)
    BY <1>2, RequestFacts
    DEF Accepts, OpaqueIds, Texts, Optional, valid_optional_text, valid_owner
  <2>2. InitiativeRow(r) \in InitiativeRows
    BY <1>1, <2>1, WindowFacts DEF InitiativeRow, InitiativeRows, Revisions, Shares
  <2>3. WindowHolds(InitiativeRow(r))
    BY <2>1, WindowFacts DEF InitiativeRow, WindowHolds
  <2> QED
    BY <1>2, <2>2, <2>3 DEF Inserted, Rows
<1>3. CASE r.op = "add_initiative_update"
  <2>1. /\ r.initiative \in OpaqueIds /\ r.update \in OpaqueIds
        /\ r.summary \in Texts(MAX_TEXT_BYTES)
        /\ r.progress \in Shares /\ parse_revision(r.revision)
    BY <1>3, RequestFacts DEF Accepts, OpaqueIds, Texts
  <2>2. r.revision + 1 \in Revisions
    BY <2>1, RequestFacts DEF Revisions, parse_revision
  <2>3. UpdateRow(r) \in UpdateRows
    BY <1>1, <2>1, <2>2 DEF UpdateRow, UpdateRows
  <2> QED
    BY <1>3, <2>3 DEF Inserted, Rows
<1>4. CASE r.op = "attach_project"
  <2>1. valid_admin_mutation(r) /\ parse_snapshot(r) /\ r.position \in Positions
    BY <1>4 DEF Accepts
  <2>2. /\ r.initiative \in OpaqueIds /\ r.project \in OpaqueIds
        /\ r.name \in Texts(240)
        /\ r.snapshot \in Snapshots
        /\ r.progress \in Shares /\ r.observed \in Int
        /\ parse_date_window(r.start, r.date)
    BY <1>4, <2>1, RequestFacts
    DEF valid_admin_mutation, parse_snapshot, OpaqueIds, Texts, Snapshots
  <2>3. ProjectRow(r) \in ProjectRows
    <3>1. r.start \in Dates /\ r.date \in Dates /\ 1 \in Revisions
      BY <2>2, WindowFacts DEF Revisions
    <3> QED
      BY <1>1, <2>1, <2>2, <3>1 DEF ProjectRow, ProjectRows
  <2>4. WindowHolds(ProjectRow(r))
    BY <2>2, WindowFacts DEF ProjectRow, WindowHolds
  <2> QED
    BY <1>4, <2>3, <2>4 DEF Inserted, Rows
<1> QED
  BY <1>2, <1>3, <1>4 DEF Inserts

(* What an accepted request makes of a row is a row. *)
LEMMA UpdatedIsRow ==
  ASSUME NEW r \in Requests, row \in Rows, Authorized(r), Accepts(r), Updated(r) # row
  PROVE  Updated(r) \in Rows
<1>1. CASE OfInitiative(r)
  <2>1. row \in InitiativeRows /\ WindowHolds(row)
    BY <1>1 DEF OfInitiative, Rows, ProjectRows, UpdateRows
  <2>2. row.revision + 1 \in Revisions
    BY <2>1 DEF InitiativeRows, Revisions
  <2>3. CASE r.op = "update_initiative"
    <3>1. /\ r.name \in Optional(Texts(240))
          /\ r.summary \in Optional(Texts(MAX_TEXT_BYTES))
          /\ r.owner \in Optional(OpaqueIds)
          /\ parse_date_window(r.start, r.date)
      BY <2>3, RequestFacts
      DEF Accepts, OpaqueIds, Texts, Optional, valid_optional_text, valid_owner
    <3>2. Updated(r) = Patched(r)
      BY <1>1, <2>3 DEF Updated
    <3>3. Patched(r) \in InitiativeRows
      <4>1. r.start \in Dates /\ r.date \in Dates
        BY <3>1, WindowFacts
      <4>2. PICK n \in Texts(240) : n = IF r.name = None THEN row.name ELSE r.name
        BY <2>1, <3>1 DEF InitiativeRows, Optional
      <4> DEFINE m == [row EXCEPT !.name = n, !.summary = r.summary, !.owner = r.owner]
      <4>3. m \in InitiativeRows
        <5>1. [row EXCEPT !.name = n] \in InitiativeRows
          BY <2>1 DEF InitiativeRows
        <5> QED
          BY <3>1, <5>1 DEF InitiativeRows
      <4>4. m.revision + 1 \in Revisions
        <5> HIDE DEF m
        <5> QED
          BY <4>3 DEF InitiativeRows, Revisions
      <4>5. Patched(r) =
              [m EXCEPT !.start = r.start, !.date = r.date, !.revision = @ + 1]
        BY <2>1, <4>2 DEF Patched, InitiativeRows
      <4> HIDE DEF m
      <4> QED
        BY <4>1, <4>3, <4>4, <4>5 DEF InitiativeRows
    <3>4. WindowHolds(Patched(r))
      BY <2>1, <3>1, WindowFacts DEF Patched, InitiativeRows, WindowHolds
    <3> QED
      BY <3>2, <3>3, <3>4 DEF Rows
  <2>4. CASE r.op = "add_initiative_update"
    <3>1. Updated(r) = [row EXCEPT !.progress = r.progress, !.revision = @ + 1]
      BY <1>1, <2>4 DEF Updated
    <3>2. r.progress \in Shares
      BY <2>4 DEF Accepts
    <3>3. Updated(r) \in InitiativeRows
      BY <2>1, <2>2, <3>1, <3>2 DEF InitiativeRows
    <3>4. WindowHolds(Updated(r))
      BY <2>1, <3>1 DEF InitiativeRows, WindowHolds
    <3> QED
      BY <3>3, <3>4 DEF Rows
  <2>5. CASE r.op \notin {"update_initiative", "add_initiative_update"}
    <3>1. Updated(r) = [row EXCEPT !.revision = @ + 1]
      BY <1>1, <2>1, <2>5 DEF Updated, OfProject, InitiativeRows
    <3>2. Updated(r) \in InitiativeRows
      BY <2>1, <2>2, <3>1 DEF InitiativeRows
    <3>3. WindowHolds(Updated(r))
      BY <2>1, <3>1 DEF InitiativeRows, WindowHolds
    <3> QED
      BY <3>2, <3>3 DEF Rows
  <2> QED
    BY <2>3, <2>4, <2>5
<1>2. CASE OfProject(r) /\ ~OfInitiative(r)
  <2>1. row \in ProjectRows /\ WindowHolds(row)
    BY <1>2 DEF OfProject, Rows, InitiativeRows, UpdateRows
  <2>2. row.revision + 1 \in Revisions
    BY <2>1 DEF ProjectRows, Revisions
  <2>3. CASE r.op = "update_project_snapshot"
    <3>1. Updated(r) =
            [row EXCEPT !.name = r.name, !.snapshot = r.snapshot, !.start = r.start,
                        !.date = r.date, !.progress = r.progress,
                        !.observed = r.observed, !.revision = @ + 1]
      BY <1>2, <2>3 DEF Updated
    <3>2. parse_snapshot(r)
      BY <2>3 DEF Accepts
    <3>3. /\ r.name \in Texts(240)
          /\ r.snapshot \in Snapshots
          /\ r.progress \in Shares /\ r.observed \in Int
          /\ parse_date_window(r.start, r.date)
      BY <2>3, <3>2, RequestFacts DEF parse_snapshot, Texts, Snapshots
    <3>4. r.start \in Dates /\ r.date \in Dates
      BY <3>3, WindowFacts
    <3>5. Updated(r) \in ProjectRows
      BY <2>1, <2>2, <3>1, <3>3, <3>4 DEF ProjectRows
    <3>6. WindowHolds(Updated(r))
      BY <2>1, <3>1, <3>3, WindowFacts DEF ProjectRows, WindowHolds
    <3> QED
      BY <3>5, <3>6 DEF Rows
  <2>4. CASE r.op = "reorder_projects"
    <3>1. Updated(r) = [row EXCEPT !.position = r.position, !.revision = @ + 1]
      BY <1>2, <2>4 DEF Updated
    <3>2. r.position \in Positions
      BY <2>4 DEF Accepts
    <3>3. Updated(r) \in ProjectRows
      BY <2>1, <2>2, <3>1, <3>2 DEF ProjectRows
    <3>4. WindowHolds(Updated(r))
      BY <2>1, <3>1 DEF ProjectRows, WindowHolds
    <3> QED
      BY <3>3, <3>4 DEF Rows
  <2> QED
    BY <1>2, <2>3, <2>4 DEF Updated
<1> QED
  BY <1>1, <1>2 DEF Updated

(* What the tables hold passes the checks of whoever names it. *)
LEMMA AddressingAccepted ==
  ASSUME NEW r \in Requests, NEW n \in 1..MaxSeq, row \in Rows,
         Authorized(r), Accepts(r)
  PROVE  Authorized(Addressing(r, n)) /\ Accepts(Addressing(r, n))
<1> DEFINE q == Addressing(r, n)
<1>1. r \in Request
  BY RequestFacts
<1>2. /\ q.op = r.op /\ q.caller = r.caller /\ q.actor = r.actor /\ q.key = r.key
      /\ q.org = row.org /\ q.initiative = row.initiative /\ q.update = r.update
      /\ q.name = r.name /\ q.summary = r.summary /\ q.owner = r.owner
      /\ q.snapshot = r.snapshot /\ q.start = r.start /\ q.date = r.date
      /\ q.progress = r.progress /\ q.position = r.position
      /\ q.observed = r.observed /\ q.limit = r.limit /\ q.after = n
      /\ q.limit \in Int /\ r.limit \in Int
      /\ q.project = r.project \/ valid_opaque_id(q.project)
      /\ q.revision = r.revision \/ parse_revision(q.revision)
      /\ q.membership = r.membership \/ parse_revision(q.membership)
  <2>1. row \in InitiativeRows \cup ProjectRows \cup UpdateRows
    BY DEF Rows
  <2>2. CASE row \in InitiativeRows
    <3>1. q = [r EXCEPT !.org = row.org, !.initiative = row.initiative, !.after = n,
                        !.revision = row.revision]
      BY <1>1, <2>2 DEF Addressing, InitiativeRows, Request
    <3> HIDE DEF q
    <3>2. parse_revision(row.revision)
      BY <2>2, NoValues DEF InitiativeRows, Revisions, parse_revision
    <3> QED
      BY <1>1, <3>1, <3>2 DEF Request
  <2>3. CASE row \in UpdateRows
    <3>1. q = [r EXCEPT !.org = row.org, !.initiative = row.initiative, !.after = n,
                        !.revision = row.revision]
      BY <1>1, <2>3 DEF Addressing, UpdateRows, Request
    <3> HIDE DEF q
    <3>2. parse_revision(row.revision)
      BY <2>3, NoValues DEF UpdateRows, Revisions, parse_revision
    <3> QED
      BY <1>1, <3>1, <3>2 DEF Request
  <2>4. CASE row \in ProjectRows
    <3>1. q = [r EXCEPT !.org = row.org, !.initiative = row.initiative, !.after = n,
                        !.project = row.project, !.membership = row.revision]
      BY <1>1, <2>4 DEF Addressing, ProjectRows, Request
    <3> HIDE DEF q
    <3>2. parse_revision(row.revision) /\ valid_opaque_id(row.project)
      BY <2>4, NoValues DEF ProjectRows, Revisions, parse_revision, OpaqueIds
    <3> QED
      BY <1>1, <3>1, <3>2 DEF Request
  <2> QED
    BY <2>1, <2>2, <2>3, <2>4
<1>3. valid_opaque_id(row.org) /\ valid_opaque_id(row.initiative)
  BY DEF Rows, InitiativeRows, ProjectRows, UpdateRows, OpaqueIds
<1>4. parse_cursor(n)
  <2>1. n \in Int /\ n > 0
    BY BoundsAreNumbers
  <2> QED
    BY <2>1, NoValues DEF parse_cursor, parse_revision
<1> HIDE DEF q
<1>5. Authorized(q)
  BY <1>2, <1>3 DEF Authorized
<1>6. parse_snapshot(r) => parse_snapshot(q)
  BY <1>2 DEF parse_snapshot
<1>7. valid_admin_mutation(r) => valid_admin_mutation(q)
  BY <1>2, <1>3 DEF valid_admin_mutation
<1>8. InPage(r) => InPage(q)
  BY <1>2 DEF InPage
<1>9. parse_revision(r.revision) => parse_revision(q.revision)
  BY <1>2
<1>10. parse_revision(r.membership) => parse_revision(q.membership)
  BY <1>2
<1>11. valid_opaque_id(r.project) => valid_opaque_id(q.project)
  BY <1>2
<1>12. r.position \in Positions => q.position \in Positions
  BY <1>2
<1>13. Accepts(q)
  <2>1. q.op = r.op /\ r.op \in Operations
    BY <1>2, RequestFacts
  <2>2. CASE r.op = "create_initiative"
    BY <1>2, <1>3, <2>1, <2>2 DEF Accepts
  <2>3. CASE r.op = "update_initiative"
    BY <1>2, <1>3, <1>9, <2>1, <2>3 DEF Accepts
  <2>4. CASE r.op = "add_initiative_update"
    BY <1>2, <1>3, <1>9, <2>1, <2>4 DEF Accepts
  <2>5. CASE r.op = "get_initiative"
    BY <1>2, <1>3, <2>1, <2>5 DEF Accepts
  <2>6. CASE r.op = "read_rollup"
    BY <1>2, <1>3, <2>1, <2>6 DEF Accepts
  <2>7. CASE r.op = "list_initiatives"
    BY <1>2, <1>4, <1>8, <2>1, <2>7 DEF Accepts
  <2>8. CASE r.op = "list_initiative_projects"
    BY <1>2, <1>3, <1>8, <2>1, <2>8 DEF Accepts
  <2>9. CASE r.op = "list_initiative_updates"
    BY <1>2, <1>3, <1>4, <1>8, <2>1, <2>9 DEF Accepts
  <2>10. CASE r.op = "archive_initiative"
    BY <1>7, <2>1, <2>10 DEF Accepts
  <2>11. CASE r.op = "attach_project"
    BY <1>6, <1>7, <1>12, <2>1, <2>11 DEF Accepts
  <2>12. CASE r.op = "update_project_snapshot"
    BY <1>6, <1>7, <2>1, <2>12 DEF Accepts
  <2>13. CASE r.op = "detach_project"
    BY <1>7, <1>10, <1>11, <2>1, <2>13 DEF Accepts
  <2>14. CASE r.op = "reorder_projects"
    BY <1>7, <1>10, <1>11, <1>12, <2>1, <2>14 DEF Accepts
  <2> QED
    BY <2>1, <2>2, <2>3, <2>4, <2>5, <2>6, <2>7, <2>8, <2>9, <2>10, <2>11, <2>12, <2>13, <2>14
    DEF Operations, Reads, Inserts
<1> QED
  BY <1>5, <1>13 DEF q

(* Every step keeps what is known. *)
LEMMA Keeps ==
  ASSUME Known, [Next]_vars
  PROVE  Known'
<1>1. CASE UNCHANGED vars
  BY <1>1 DEF Known, vars
<1>2. ASSUME NEW r \in Requests, Rejects(r) \/ Passes(r)
      PROVE  Known'
  BY <1>2 DEF Known, Rejects, Passes, Shows, Refuse
<1>3. ASSUME NEW r \in Requests, Insert(r)
      PROVE  Known'
  <2>1. Authorized(r) /\ Accepts(r) /\ r.op \notin Reads /\ r.op \in Inserts
    BY <1>3 DEF Insert, Writes
  <2>2. Inserted(r) \in Rows /\ RowStorable(Inserted(r)) /\ ReceiptStorable(r)
    BY <2>1, InsertedIsRow, RowsAreStorable, ReceiptsAreStorable
  <2>3. \/ Refuse("date out of range") \/ Refuse("time out of range")
        \/ /\ row' = Inserted(r) /\ told' = "ok" /\ UNCHANGED callers
           /\ Readable(Inserted(r))
    BY <1>3, <2>2 DEF Insert, Writes, Verdict, Refuse
  <2> QED
    BY <2>2, <2>3 DEF Known, Refuse, Readable
<1>4. ASSUME NEW r \in Requests, Update(r)
      PROVE  Known'
  <2>1. Authorized(r) /\ Accepts(r) /\ r.op \notin Reads /\ Updated(r) # row /\ row \in Rows
    BY <1>4 DEF Update, Writes, Known
  <2>2. Updated(r) \in Rows /\ RowStorable(Updated(r)) /\ ReceiptStorable(r)
    BY <2>1, UpdatedIsRow, RowsAreStorable, ReceiptsAreStorable
  <2>3. \/ Refuse("date out of range") \/ Refuse("time out of range")
        \/ /\ row' = Updated(r) /\ told' = "ok" /\ UNCHANGED callers
           /\ Readable(Updated(r))
    BY <1>4, <2>2 DEF Update, Writes, Verdict, Refuse
  <2> QED
    BY <2>2, <2>3 DEF Known, Refuse, Readable
<1>5. ASSUME NEW r \in Requests, Delete(r)
      PROVE  Known'
  <2>1. Authorized(r) /\ Accepts(r) /\ r.op = "detach_project"
    BY <1>5 DEF Delete
  <2>2. ReceiptStorable(r)
    BY <2>1, ReceiptsAreStorable DEF Reads
  <2> QED
    BY <1>5, <2>2 DEF Delete, Known
<1> QED
  BY <1>1, <1>2, <1>3, <1>4, <1>5 DEF Next

(* A configuration that was accepted has valid callers, and no row is      *)
(* written yet.                                                            *)
LEMMA Starts ==
  ASSUME Init
  PROVE  Known
BY DEF Init, Known, valid_callers

(* Whatever is configured and sent, the callers of an accepted             *)
(* configuration are valid, the row is one that the handlers may write,    *)
(* and nothing that they accept fails in the database.                     *)
THEOREM Knows == Spec => []Known
BY Starts, Keeps, PTL DEF Spec

(* The database stores whatever the handlers have accepted. *)
THEOREM Storing == Spec => []AcceptedIsStorable
<1>1. Known => AcceptedIsStorable
  BY DEF Known, AcceptedIsStorable
<1> QED
  BY <1>1, Knows, PTL

(* And whatever it stores, every operation takes by its ids. *)
THEOREM Reaching == Spec => []NothingIsStranded
<1>1. Known => NothingIsStranded
  BY AddressingAccepted DEF Known, NothingIsStranded
<1> QED
  BY <1>1, Knows, PTL

=============================================================================
