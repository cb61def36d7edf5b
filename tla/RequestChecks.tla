---------------------------- MODULE RequestChecks -----------------------------
(***************************************************************************)
(* What the handlers (lib.rs) let through to the database, and what the    *)
(* database (the migration) lets in.  The two are written apart from each  *)
(* other: the handlers measure texts in bytes, compare dates and bound     *)
(* numbers; the tables have constraints on rows that several requests have *)
(* written, and keys of several texts, which an index bounds together.  A  *)
(* request that only the database refuses is told as a failure of the      *)
(* plugin, not as a flaw of the request.                                   *)
(*                                                                         *)
(* The module follows one row of one of the tables from its INSERT through *)
(* its UPDATEs to its DELETE.  Whether the store refuses a command for     *)
(* another reason is PortfolioStore's matter: here it may.                 *)
(***************************************************************************)
EXTENDS Integers, Sequences

CONSTANTS
  None,          \* a null
  Garbage,       \* a text that is no date, or no number of 64 bits
  Requests,      \* what callers send
  Configured,    \* lists of callers that a configuration may have
  MaxSeq,        \* bounds row_seq
  MaxRevision    \* bounds the revisions of the row

VARIABLES
  callers,   \* the callers of the configuration
  row,       \* the row, or None before its INSERT
  told       \* what the last request was told

vars == <<callers, row, told>>

(* A text is its length in bytes and what is in it: only characters of     *)
(* ids; others; only spaces; some control character, with others or with   *)
(* only white space (which line breaks and tabs are); a NUL.               *)
Kinds == {"id", "other", "blank", "control", "lines", "nul"}
Text == [bytes: Nat, kind: Kinds]

(* A date is its days since 1970, and so is a time, of which the day in     *)
(* UTC is enough; a revision or a cursor, which is written as a text, the   *)
(* number.  Of the items of a reorder there is one: each is checked by      *)
(* itself.                                                                  *)
Reads ==
  {"get_initiative", "read_rollup", "list_initiatives",
   "list_initiative_projects", "list_initiative_updates"}
Inserts == {"create_initiative", "add_initiative_update", "attach_project"}
Operations ==
  Reads \cup Inserts \cup
    {"update_initiative", "archive_initiative", "update_project_snapshot",
     "detach_project", "reorder_projects"}

Number == Int \cup {Garbage}
OptionalText == Text \cup {None}
OptionalNumber == Number \cup {None}

(* A request has every field here; a handler looks at those of its own. *)
Request ==
  [op: Operations, caller: Text, actor: Text, org: Text, initiative: Text,
   project: Text, update: Text, key: Text, name: OptionalText,
   summary: OptionalText, owner: OptionalText, snapshot: Text,
   start: OptionalNumber, date: OptionalNumber, revision: Number,
   membership: Number, progress: Int, position: Int, observed: Number,
   limit: Int, after: OptionalNumber]

ASSUME NoValues == None \notin Text \cup Number /\ Garbage \notin Int

(* The contract's types have no null for these. *)
ASSUME RequestsDecode ==
  /\ Requests \subseteq Request
  /\ \A r \in Requests :
       /\ r.name = None => r.op = "update_initiative"
       /\ r.summary = None => r.op # "add_initiative_update"

ASSUME CallersAreTexts == Configured \subseteq Seq(Text)

ASSUME BoundsAreNumbers == MaxSeq \in Nat /\ MaxRevision \in Nat

-----------------------------------------------------------------------------
(* The checks of lib.rs *)

MAX_ID_BYTES == 512
MAX_TEXT_BYTES == 4000
MAX_CALLERS == 64
Shares == 0..100
Positions == 0..10000

valid_id(t) == t.bytes \in 1..256 /\ t.kind = "id"

valid_callers(ts) ==
  /\ Len(ts) \in 1..MAX_CALLERS
  /\ \A i \in DOMAIN ts : valid_id(ts[i])
  /\ \A i, j \in DOMAIN ts : i # j => ts[i] # ts[j]

valid_bounded_opaque(t, max) == t.bytes \in 1..max /\ t.kind \notin {"nul", "control", "lines"}

valid_opaque_id(t) == valid_bounded_opaque(t, MAX_ID_BYTES)

valid_text(t, max) == t.bytes \in 1..max /\ t.kind \notin {"nul", "blank", "lines"}

valid_optional_text(t, max) == t # None => valid_text(t, max)

valid_owner(t) == t # None => valid_opaque_id(t)

valid_idempotency_key(t) == valid_id(t) /\ t.bytes <= 200

parse_revision(n) == n # Garbage /\ n > 0

parse_cursor(n) == n # None => parse_revision(n)

parse_date_window(start, date) ==
  /\ Garbage \notin {start, date}
  /\ None \notin {start, date} => start <= date

(* A mistake: the stricter check of the configuration's ids. *)
admin_mutation_of_plain_ids(r) ==
  valid_idempotency_key(r.key) /\ valid_id(r.initiative) /\ parse_revision(r.revision)

valid_admin_mutation(r) ==
  valid_idempotency_key(r.key) /\ valid_opaque_id(r.initiative) /\ parse_revision(r.revision)

parse_snapshot(r) ==
  /\ parse_date_window(r.start, r.date)
  /\ valid_opaque_id(r.project)
  /\ valid_text(r.name, 240)
  /\ valid_bounded_opaque(r.snapshot, 128)
  /\ r.progress \in Shares
  /\ r.observed # Garbage

InPage(r) == r.limit \in 1..200

(* Each handler's, once the caller is authorized. *)
Accepts(r) ==
  /\ r.op = "create_initiative" =>
       /\ parse_date_window(r.start, r.date)
       /\ valid_idempotency_key(r.key) /\ valid_opaque_id(r.initiative)
       /\ valid_text(r.name, 240)
       /\ valid_optional_text(r.summary, MAX_TEXT_BYTES)
       /\ valid_owner(r.owner)
  /\ r.op = "update_initiative" =>
       /\ parse_revision(r.revision)
       /\ parse_date_window(r.start, r.date)
       /\ valid_idempotency_key(r.key) /\ valid_opaque_id(r.initiative)
       /\ valid_optional_text(r.name, 240)
       /\ valid_optional_text(r.summary, MAX_TEXT_BYTES)
       /\ valid_owner(r.owner)
  /\ r.op = "add_initiative_update" =>
       /\ parse_revision(r.revision)
       /\ valid_idempotency_key(r.key) /\ valid_opaque_id(r.initiative)
       /\ valid_opaque_id(r.update)
       /\ valid_text(r.summary, MAX_TEXT_BYTES)
       /\ r.progress \in Shares
  /\ r.op \in {"get_initiative", "read_rollup"} => valid_opaque_id(r.initiative)
  /\ r.op = "list_initiatives" => parse_cursor(r.after) /\ InPage(r)
  /\ r.op = "list_initiative_projects" => valid_opaque_id(r.initiative) /\ InPage(r)
  /\ r.op = "list_initiative_updates" =>
       parse_cursor(r.after) /\ valid_opaque_id(r.initiative) /\ InPage(r)
  /\ r.op = "archive_initiative" => valid_admin_mutation(r)
  /\ r.op = "attach_project" =>
       valid_admin_mutation(r) /\ parse_snapshot(r) /\ r.position \in Positions
  /\ r.op = "update_project_snapshot" => valid_admin_mutation(r) /\ parse_snapshot(r)
  /\ r.op = "detach_project" =>
       /\ valid_admin_mutation(r)
       /\ parse_revision(r.membership) /\ valid_opaque_id(r.project)
  /\ r.op = "reorder_projects" =>
       /\ valid_admin_mutation(r)
       /\ valid_opaque_id(r.project) /\ parse_revision(r.membership)
       /\ r.position \in Positions

(* What authorize has checked before. *)
Authorized(r) ==
  /\ \E i \in DOMAIN callers : callers[i] = r.caller
  /\ valid_opaque_id(r.org) /\ valid_opaque_id(r.actor)

-----------------------------------------------------------------------------
(* The rows *)

InitiativeRow(r) ==
  [table |-> "initiatives", org |-> r.org, initiative |-> r.initiative,
   name |-> r.name, summary |-> r.summary, owner |-> r.owner,
   start |-> r.start, date |-> r.date, progress |-> 0, revision |-> 1]

UpdateRow(r) ==
  [table |-> "updates", org |-> r.org, initiative |-> r.initiative,
   update |-> r.update, summary |-> r.summary, by |-> r.actor,
   progress |-> r.progress, revision |-> r.revision + 1]

ProjectRow(r) ==
  [table |-> "projects", org |-> r.org, initiative |-> r.initiative,
   project |-> r.project, name |-> r.name, snapshot |-> r.snapshot,
   start |-> r.start, date |-> r.date, progress |-> r.progress,
   observed |-> r.observed, position |-> r.position, revision |-> 1]

Inserted(r) ==
  CASE r.op = "create_initiative" -> InitiativeRow(r)
    [] r.op = "add_initiative_update" -> UpdateRow(r)
    [] r.op = "attach_project" -> ProjectRow(r)

(* A mistake: an absent date leaves the old one, like an absent name. *)
PatchedKeepingDates(r) ==
  [row EXCEPT !.name = IF r.name = None THEN @ ELSE r.name,
              !.summary = r.summary, !.owner = r.owner,
              !.start = IF r.start = None THEN @ ELSE r.start,
              !.date = IF r.date = None THEN @ ELSE r.date,
              !.revision = @ + 1]

(* An absent name leaves the old one; anything else absent is a null. *)
Patched(r) ==
  [row EXCEPT !.name = IF r.name = None THEN @ ELSE r.name,
              !.summary = r.summary, !.owner = r.owner,
              !.start = r.start, !.date = r.date, !.revision = @ + 1]

OfInitiative(r) ==
  row.table = "initiatives" /\ r.org = row.org /\ r.initiative = row.initiative
OfProject(r) ==
  /\ row.table = "projects"
  /\ r.org = row.org /\ r.initiative = row.initiative /\ r.project = row.project

(* What the command of r makes of the row. *)
Updated(r) ==
  CASE OfInitiative(r) /\ r.op = "update_initiative" -> Patched(r)
    [] OfInitiative(r) /\ r.op = "add_initiative_update" ->
         [row EXCEPT !.progress = r.progress, !.revision = @ + 1]
    [] OfInitiative(r) /\ r.op \in
           {"archive_initiative", "attach_project", "update_project_snapshot",
            "detach_project", "reorder_projects"} ->
         [row EXCEPT !.revision = @ + 1]
    [] OfProject(r) /\ r.op = "update_project_snapshot" ->
         [row EXCEPT !.name = r.name, !.snapshot = r.snapshot, !.start = r.start,
                     !.date = r.date, !.progress = r.progress,
                     !.observed = r.observed, !.revision = @ + 1]
    [] OfProject(r) /\ r.op = "reorder_projects" ->
         [row EXCEPT !.position = r.position, !.revision = @ + 1]
    [] OTHER -> row

-----------------------------------------------------------------------------
(* The constraints of the migration, and those of PostgreSQL *)

(* An entry of a btree index has at most so many bytes. *)
MaxIndexEntry == 2704

(* The bytes of the longest name of an operation in a receipt's key. *)
LongestOperation == 23

(* Neither text nor jsonb holds a NUL. *)
Storable(t) == t # None => t.kind # "nul"

(* The first day that a date of PostgreSQL can be.  The handlers read a     *)
(* year with its sign, down to -9999.                                      *)
FirstDate == -2440588

DatesFit(w) ==
  w.table # "updates" => \A n \in {w.start, w.date} : n # None => n >= FirstDate

WindowHolds(w) == None \notin {w.start, w.date} => w.start <= w.date

RowStorable(w) ==
  /\ w.progress \in Shares
  /\ w.revision > 0
  /\ \A t \in {w.org, w.initiative} : Storable(t)
  /\ CASE w.table = "initiatives" ->
            /\ \A t \in {w.name, w.summary, w.owner} : Storable(t)
            /\ w.name # None
            /\ WindowHolds(w)
            /\ w.org.bytes + w.initiative.bytes <= MaxIndexEntry
       [] w.table = "projects" ->
            /\ \A t \in {w.project, w.name, w.snapshot} : Storable(t)
            /\ w.position >= 0
            /\ WindowHolds(w)
            /\ w.org.bytes + w.initiative.bytes + w.project.bytes <= MaxIndexEntry
       [] w.table = "updates" ->
            /\ \A t \in {w.update, w.summary, w.by} : Storable(t)
            /\ w.org.bytes + w.update.bytes <= MaxIndexEntry

(* The years that RFC 3339 has.  A time is parsed with the offset that its  *)
(* text gives, so in UTC it may be just outside of them, where a TIMESTAMPTZ *)
(* still holds it and format_timestamp fails.                               *)
FirstTime == -719528
LastTime == 2932896

Readable(w) == w.table = "projects" => w.observed \in FirstTime..LastTime

(* A command also leaves a receipt. *)
ReceiptStorable(r) ==
  /\ \A t \in {r.caller, r.actor, r.key} : Storable(t)
  /\ r.caller.bytes + r.actor.bytes + r.key.bytes + LongestOperation <= MaxIndexEntry

-----------------------------------------------------------------------------
Init ==
  /\ callers \in {ts \in Configured : valid_callers(ts)}
  /\ row = None
  /\ told = "nothing"

Refuse(what) == told' = what /\ UNCHANGED <<callers, row>>

(* The handler refuses. *)
Rejects(r) ==
  /\ ~Authorized(r) \/ ~Accepts(r)
  /\ Refuse(IF Authorized(r) THEN "InvalidRequest" ELSE "Forbidden")

(* The reads of an initiative's projects. *)
Shows(r) ==
  /\ row # None
  /\ row.table = "projects"
  /\ r.op \in {"read_rollup", "list_initiative_projects"}
  /\ r.org = row.org /\ r.initiative = row.initiative

(* It is a read, or the store has another reason to refuse. *)
Passes(r) ==
  /\ Authorized(r) /\ Accepts(r)
  /\ Refuse(IF r.op \notin Reads THEN "refused"
            ELSE IF Shows(r) /\ ~Readable(row) THEN "Runtime"
            ELSE "ok")

(* A mistake: the response is made of the request, not of the row. *)
VerdictUnread(r, w) ==
  IF ~DatesFit(w) THEN "date out of range"
  ELSE IF RowStorable(w) /\ ReceiptStorable(r) THEN "ok" ELSE "Runtime"

(* What becomes of a command that writes w, and what its caller is told.    *)
(* Before it commits it reads its own row back for the response.            *)
Verdict(r, w) ==
  IF ~DatesFit(w) THEN "date out of range"
  ELSE IF ~(RowStorable(w) /\ ReceiptStorable(r)) THEN "Runtime"
  ELSE IF ~Readable(w) THEN "time out of range"
  ELSE "ok"

(* The command's row becomes w, if the database takes that. *)
Writes(r, w) ==
  /\ Authorized(r) /\ Accepts(r) /\ r.op \notin Reads
  /\ w.revision <= MaxRevision
  /\ told' = Verdict(r, w)
  /\ row' = IF Verdict(r, w) = "ok" THEN w ELSE row
  /\ UNCHANGED callers

Insert(r) ==
  /\ row = None
  /\ r.op \in Inserts
  /\ Writes(r, Inserted(r))

Update(r) ==
  /\ row # None
  /\ Updated(r) # row
  /\ Writes(r, Updated(r))

(* detach_project deletes the row. *)
Delete(r) ==
  /\ row # None
  /\ OfProject(r) /\ r.op = "detach_project"
  /\ Authorized(r) /\ Accepts(r)
  /\ told' = IF ReceiptStorable(r) THEN "ok" ELSE "Runtime"
  /\ row' = IF ReceiptStorable(r) THEN None ELSE row
  /\ UNCHANGED callers

Next ==
  \E r \in Requests :
    Rejects(r) \/ Passes(r) \/ Insert(r) \/ Update(r) \/ Delete(r)

Spec == Init /\ [][Next]_vars

-----------------------------------------------------------------------------
(* Properties *)

(* What the handlers have accepted the database does not refuse: no CHECK, *)
(* no key too long for its index and no character that a text cannot have, *)
(* whatever earlier requests have left in the row.  Nor is anything stored *)
(* that no rollup or list of its initiative could ever show again.  The    *)
(* exceptions are days and times that are none for the database or for the *)
(* response, which are told apart ("date out of range", "time out of       *)
(* range"): no check of the handlers is for them, but nothing of such a    *)
(* request stays.                                                          *)
AcceptedIsStorable == told # "Runtime"

(* The row's names and numbers, put into a request as a caller would that  *)
(* has read them.                                                          *)
Addressing(r, n) ==
  LET named == [r EXCEPT !.org = row.org, !.initiative = row.initiative, !.after = n]
  IN  CASE row.table = "initiatives" -> [named EXCEPT !.revision = row.revision]
        [] row.table = "projects" ->
             [named EXCEPT !.project = row.project, !.membership = row.revision]
        [] row.table = "updates" -> [named EXCEPT !.revision = row.revision]

(* Nothing is stranded: whatever is in the tables, every operation takes   *)
(* it by the ids, the revision and the cursor that the plugin tells of it. *)
(* No operation's checks are stricter than those that let the row in.      *)
NothingIsStranded ==
  row # None =>
    \A r \in Requests, n \in 1..MaxSeq :
      Authorized(r) /\ Accepts(r) =>
        Authorized(Addressing(r, n)) /\ Accepts(Addressing(r, n))

=============================================================================
