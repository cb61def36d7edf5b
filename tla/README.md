# Specification of the project-portfolio plugin

This directory models the PostgreSQL-backed project-portfolio plugin of this
repository in TLA+, checks the models with TLC on small instances, and proves
the main results with TLAPS for every instance.

`PG` below stands for `src/crates/lenso-project-portfolio-postgres-plugin`.

## 1. The system

| Component | State | Operations | Modelled in |
|---|---|---|---|
| Command engine, `PG/src/storage.rs` | rows of four tables; one transaction per call | eight commands: create, update and archive an initiative, add an update, attach, detach, reorder projects, refresh a project snapshot | `Portfolio`, `PortfolioTables`, `PortfolioLedger`, `PortfolioStore` |
| Database schema, `PG/migrations` | tables, primary keys, unique position, checks | none | `PortfolioTables` (rows, keys), `RequestChecks` (checks, ranges, widths of keys) |
| Reads, `PG/src/storage.rs` | none | get, three lists, rollup | `RollupRead` (rollup, with `get_initiative`, `ensure_exists` and `list_projects`), `Pagination` (the lists and their cursors) |
| Plugin handlers, `PG/src/lib.rs` | the prepared pool | authorize, validate, call the store, map errors; activate, deactivate | `PluginCall`; `PluginStore` (over the transactions); `RequestChecks` (the validators) |
| Agent tool adapters, two crates | none | a tool name to an operation, an operation's error to a tool's error | `AgentTools` |
| Database operator, `PG/src/operator.rs`, `schema.rs` | migration ledger (in an external kit) | setup, upgrade | no: no logic of its own, and it runs before the plugin serves |
| Capability contracts, two crates | none | generated message types and clients | no: no behaviour |
| CI and release scripts | none | | no |

**How they interact.** A caller (another plugin, or an agent through a tool
adapter) invokes a capability operation. The handler checks that the caller
instance is on its list and that the actor assertion is for this very operation,
asks Organization Membership and Access Control, validates the request,
and calls one function of `storage.rs`, which opens one transaction on a pool of
connections. Nothing is kept in memory between calls but the pool:
PostgreSQL is the only durable state, so everything that interleaves does so
there, between the statements of transactions on different connections.

**What a command does.** Every one of the eight runs the same protocol:

1. `begin`;
2. `admit_command`: `SELECT .. FOR UPDATE` the receipt of (caller, actor,
   operation, idempotency key). A receipt of another request is
   `IdempotencyConflict`; of this request, its stored response is the answer
   (the transaction commits having written nothing). No receipt: `INSERT` one;
   a unique violation is `OperationInProgress`;
3. `lock_initiative` (`SELECT .. FOR UPDATE`) and `require_mutable_revision`,
   except in `create_initiative`. `update_project_snapshot` looks at the archived
   flag only; it has a membership revision instead;
4. the operation's own statements, all on rows that the initiative's lock
   guards, but for the unique `update_id` of an organization;
5. `finish_command` stores the response in the receipt; `commit`.

**What is hard about it.** The idempotency key and the compare-and-set revision
are read in one statement and relied on in later ones. A caller retries on
another connection while its first attempt may still run, has committed, or is
about to roll back. An early return drops the transaction: its locks outlive the
answer. A caller may go away, and the process may die, with a statement or the commit
on its way; a deactivation waits for what they left behind.
Two initiatives compete for one `update_id` under two different locks.
Reads run without a transaction, several statements each. `PROJECT.json` lists
each hazard at its line.

**What makes each part correct.**

- Commands: each takes effect once per key, entirely or not at all, on exactly the
  revision it names; answers and refusals tell the truth; every request ends.
- Tables: the revision counts commands, health is that of the last update row, update rows
  carry the revision they made, positions are unique, the limit of projects is
  kept, archiving is final, membership revisions count what touched a project.
- Reads: a rollup is of a time after it was asked for; pages neither lose nor
  repeat what was there all along.
- Requests: what the handlers accept the database can store, and what it has stored every
  operation can name and every list can show.
- Handlers: nothing reaches the store for a caller without membership and
  permission; a failure keeps its name on the way to the caller; a deactivation
  ends, and nothing runs in the store of an activation that has ended; no lock
  outlives its transaction, whoever has gone.
- Agent tools: what the agent is answered is what the store refused; tools that may
  run side by side change nothing.

## 2. Modules

```
Portfolio            types, requests, refusals, effects (no state)
  PortfolioTables    the four tables, Apply, the properties of the tables
    PortfolioLedger  specification: a command is one step
    PortfolioStore   specification: a command is a transaction
    RollupRead       specification: read_rollup beside the commands
    PluginCall       specification: a call through a handler
      PluginStore    specification: the calls over the transactions of
                     PortfolioStore; implements PluginCall
      AgentTools     specification: a tool executed by an agent
    PortfolioTablesProofs     lemmas about the operators of Portfolio; Apply
                              preserves Correct
      PortfolioStoreProofs    theorems of PortfolioStore, and that it
                              implements PortfolioLedger
      RollupReadProofs        theorems of PortfolioLedger and RollupRead
      PluginCallProofs        theorems of PluginCall and AgentTools
        PluginStoreProofs     theorems of PluginStore, and that it implements
                              PluginCall
  ReorderSteps       specification: the statements of reorder_projects
    ReorderStepsProofs        theorems of ReorderSteps
Pagination           specification: the three lists, page by page
  PaginationProofs            theorems of Pagination
RequestChecks        specification: the checks of requests and of rows
  RequestChecksProofs         theorems of RequestChecks
PortfolioInputs      request constructors and the request sets of the runs
MCPortfolioLedger, MCPortfolioStore, MCRollupRead, MCReorderSteps,
MCPagination, MCPluginCall, MCPluginStore, MCRequestChecks, MCAgentTools
```

**`Portfolio`** says what a row is and what a request is, and gives for each
request, as pure operators, the first refusal in the order of the code
(`LockRefusal`, `WriteRefusal`) and the rows, update row and response it leaves
(`EffectOf`). What is abstracted: an initiative stands for its whole primary key,
`OrganizationOf` gives its first half; text columns are model values; health and
progress are one value, because the code always writes them together; the eight
columns of a project snapshot are one value; the request stands for its SHA-256
hash, taken to be injective; timestamps are left out.

**`PortfolioTables`** has the four tables as variables `initiatives`,
`projects`, `updates`, `receipts`, and the history variable `ledger`: per
initiative, the commands that took effect, in commit order. `Apply(r)`
is a whole successful command in one step.

**`PortfolioLedger`** is the abstract specification: only `Apply` changes the tables.
A refused command, a replay, a failure and a retry are stutters.

**`PortfolioStore`** is the code's protocol. Per session (a pool connection and
the call that runs on it):

| Variable | Code |
|---|---|
| `pc`, `request` | where the call is, and what it was asked |
| `held` | row locks, and unique keys it inserted and has not committed |
| `staged` | what its transaction has written |
| `answer`, `failure` | what the function returns |

| Action | Code |
|---|---|
| `Begin` | `begin` |
| `AdmitNew`, `AdmitReplay`, `AdmitRefused` | the `SELECT` of `admit_command` and the branches on it |
| `Reserve`, `ReserveRefused` | its `INSERT` |
| `Lock`, `LockMissing` | `lock_initiative` and `require_mutable_revision` |
| `CreateInitiative` .. `ReorderProjects` | the statements of each operation and `finish_command` |
| `Finish` | for `add_update` and `create_initiative`, what follows the `INSERT` that may wait: the `UPDATE` of the initiative, reading back, `finish_command` |
| `Commit`, `CommitReplay` | `commit` |
| `Rollback` | a dropped transaction's rollback, when its connection is next used |
| `Abort` | any failing statement, cancellation, or death of the connection before the commit |
| `End` | the caller has the answer, or has lost it |

Assumed of PostgreSQL (`Free`, `Acquire`, external in the map): READ COMMITTED; a
row lock and an uncommitted unique key belong to one transaction until it ends
and make the others wait; a statement sees what is committed when it runs. After
the initiative is locked, the statements of an operation read and write only
rows that lock guards, so they are one action; `add_initiative_update` and
`create_initiative` insert a key that it does not guard, and that waits
(`WriteInserting`); what follows that `INSERT` is an action of its own (`Finish`), before
which the transaction may fail or die, so that an update row without its initiative's
health, or the reverse, would be seen. The staging offset inside `reorder_projects` is part of that
one action; `ReorderSteps` has its intermediate rows.

**`RollupRead`** takes commands as one-step (`Apply`), which `PortfolioStore`
implements, and interleaves them with readers that run `read_rollup` as its
three statements. `versions` keeps what the initiative was after every command.

**`ReorderSteps`** opens that one action up: `reorder_projects` first adds 1000000 to
every position in one `UPDATE`, then writes the items one by one, and PostgreSQL
checks the unique position at each row it writes. `Stage` is one row of the first
`UPDATE`, in any order; `WriteItem` is one later `UPDATE`; a taken position ends
in `UniqueViolation`, a database error. Whatever arrangement of projects and whatever
complete order of them a behaviour begins with, it ends with `Reordered`, which
is what `PortfolioStore` writes at once.

**`Pagination`** is the three lists, `list` saying which. A page is one
statement (`ReadPage`): the rows beyond the cursor, in order of their key, one
more than the limit; the handler pops the extra row and makes the cursor of the last.
Writers run between the pages. `row_seq` is drawn when a row is inserted and
seen when it is committed, in whatever order that happens, or is lost; for
updates, one insert at a time, because `add_update` holds the initiative.
Rows are ids: what a row says is of no concern to its page.

**`PluginCall`** is a call as the handlers of `lib.rs` run it. The variable `at` is
the await a call is in, and everything between two awaits is one action:

| `at` | Waits for | Next action |
|---|---|---|
| `"idle"` | | `Invoke`: caller list, assertion, audience, ids |
| `"membership"` | Organization Membership | `CheckMembership` |
| `"access"` | Access Control | `CheckAccess`: the decision, the rest of the request, the prepared pool |
| `"connection"` | the pool it has taken | `Connect` |
| `"store"` | the function of `storage.rs` | `RunCommand`, `RunRead` |
| `"return"` | its caller | `Leave` |
| `"abandoned"` | nothing: its caller has gone, its command has not | `EndAbandoned` |

Beside them, `MembershipReplies`, `AccessReplies` and `ServiceFails` are the services,
`ChangeMembership` and `ChangeGrant` what their own callers do, and
`BeginActivation`, `ActivationFails`, `Activate`, `Deactivate`, `Closed` and `Crash` the
plugin's life: `activate` awaits the secret and the schema, `deactivate` the pool's
`close()`, and calls go on meanwhile. Pools are numbered by
activation; `open` has those that give out connections. A call whose caller goes
away during a command is `"abandoned"`: the command may still take effect
(`EndAbandoned`), and keeps its connection, so that `Closed` waits for it; when the
process dies it has no pool any more. What is abstracted: the
validators are a flag of the invocation, `flaw`, that says whether
the ids or the rest of the request are rejected (`RequestChecks` has them); a verifier that is not
configured is left out; a command is one step, which `PluginStore` justifies; a read
of several statements takes a connection for each (`RunRead` may go back to
`"connection"`). The contract's default admission lets one call of an instance run at a
time; a host may configure more, so any number of calls may be under way.

**`PluginStore`** puts the two together: the variables of `PluginCall` and, as an
instance, those of `PortfolioStore`. `conn` is the session a call has, `owner` the pool
a session belongs to.

| Action | Code |
|---|---|
| `Approach` | everything up to the pool, as in `PluginCall` |
| `TakeConnection` | `begin` gets a connection of the pool, or fails |
| `Read` | one statement of a read, on a connection of its own |
| `Command`, `CommandFails` | a statement of the command on the call's session; `Hear` is what the handler makes of it |
| `GoAway`, `DropAbandoned` | the caller goes; sqlx drops the transaction when the statement on its way has ended, unless that was the commit |
| `GiveBack` | the rollback of a dropped transaction, and the return of the connection |
| `Close` | `close()` ends: every connection is back |
| `Die` | the process dies, and PostgreSQL ends its transactions |

A refused call returns before its session has rolled back; so the call
of `PluginCall` is told at the step that decides, and the locks stay longer, as in the
code. `CallSpec`, that every behaviour is one of `PluginCall`, says that the
callers cannot tell. `ConnectionsEndWithTheirPool` is about what they cannot see:
a `close()` that waited for the calls alone would return over the
rollback of a command whose caller has its refusal, and `CallSpec` would hold.

**`RequestChecks`** has the validators of `lib.rs` under their names, and the constraints
of the migration, on one row from its `INSERT` through its `UPDATE`s to its `DELETE`. A
text is its length in bytes and the kind of characters in it, as far as a validator or the
database tells them apart; a date is its days, a revision or cursor the number it is read
as, or `Garbage`; a time is its day in UTC. From PostgreSQL come the largest entry of an
index, that a text has no
NUL, and the first day that a date can be. `Readable` is what `format_timestamp` can tell; a
command reads its own row back before it commits (`Verdict`), and the lists and rollups of an
initiative read it later (`Passes`). `Accepts` is what a handler checks after
`authorize`, `RowStorable` and `ReceiptStorable` what the tables demand.

**`AgentTools`** wraps a call of `PluginCall` in an execution of a tool: `Execute`
finds the tool by its name, decodes the arguments and invokes; `Report` translates
what the call is told; `Depart` is the agent's. Both adapters are one
module: they differ in their catalogs, their instance and their error maps. The
store's failures pass two translations, `Named` and `AnswerOf`, each with a
catch-all.

## 3. What the runs check

| Run | Question | Distinct states |
|---|---|---|
| `LedgerMembership` | Do all sequences of membership commands keep the order and the membership revisions? Every project, position 0 to 2, expected revision 1 to 5 and membership revision 1 to 3 | 265,304 |
| `StoreMembership` | Two connections: is what is staged current at commit, are refusals true, is nothing lost, does every request end? | 235,332 |
| `StoreUpdates` | Two connections, three initiatives, one update id: do the transactions implement the one-step commands, and do health, update rows and the archived flag stay in step? | 473,421 |
| `StoreRetries` | Three connections and one key: one effect, one receipt, one answer? | 89,500 |
| `RollupFresh` | What does a rollup guarantee while commands commit? | 54,208 |
| `RollupTorn` | (violation) Is a rollup that of one version? | |
| `ReorderRows` | Does any complete order of up to three projects meet a taken position on its way? | 27,000 |
| `Pages` | What does a list guarantee to a reader who follows its cursors while it changes? | 466,828 |
| `CallsAuthorized` | What reaches the store, and what is a caller told, when callers, assertions and requests are wrong, rights are withdrawn and the plugin is deactivated and activated meanwhile? | 465,984 |
| `CallsInStore` | Two calls of one command, and a read, over two connections, with callers that go, transactions that fail, a deactivation and a crash: do calls over transactions do what calls over one-step commands do, does every lock go, does the deactivation end, and is no connection of its pool out then? | 93,530 |
| `Requests` | What is accepted and cannot be stored, or stored and cannot be named or shown? Each field of each operation at, and just past, its bounds | 1,663 |
| `ToolAnswers` | What are agents answered that execute two tools side by side, and what may their tools change? | 223,148 |

**Bounds.** In `LedgerMembership` and `RollupFresh` `MaxProjects` is 2 and there are
three projects, so the limit is reached and refused; positions are 0 to 2, so a
reordering can swap, and collide;
requests name revisions below, at and beyond the current one. Requests are sets
from `PortfolioInputs`; as every request has a key of a finite set, the number of
effective commands is bounded, and no other bound is needed. Two connections
are enough for every pairwise wait, and `StoreMembership` has one of each kind: for a
receipt, for an initiative and, across two initiatives, for an `update_id`; `StoreRetries` has three, so that two wait for
the owner of one key and one of them gets it after a rollback. `StoreUpdates` has
two organizations, so that one `update_id` is refused within one and allowed
across them. In `LedgerMembership` deadlock is not checked: when all
keys are used up, commands really can do no more.

`ReorderRows` has an offset of 3 beyond a `MaxPosition` of 2, the least that the
assumption `OffsetBeyondPositions` allows; every arrangement of up to three
projects and every complete order begins a behaviour, and each ends, so deadlock is not checked.
`Pages` has four rows and limits of 1 and 2: lists of no page, of one and of
several, full and not; `MaxRowSeq` is one more than the rows, so that one number can be lost.
`CallsAuthorized` has one call, because a call's rights concern no other, and a
membership or permission may change at each of its awaits; its invocations are wrong in
each way that a handler distinguishes; and it has two activations (`MaxActivations`), so that a
call of the first may meet the second. `CallsInStore` has two calls and two
connections, so that one call waits for the other's receipt, finds no
connection, or holds one while the pool is closed; both run the same command with the same
key, which is where they meet; one activation; and nobody's rights change (`Settled`), because
`CallsAuthorized` has that and it multiplies the states by eight. `Requests` has two
requests that are right, everything as short and everything as long as may be, and
each with one field changed; revisions go up to 4 (`MaxRevision`), so that a row
is written several times by requests of both; times are on the first and the last day of
RFC 3339's years and on the days beyond. `ToolAnswers` has two executions side by side, because nothing in the adapters keeps tools
apart, not even those that are declared exclusive; the two may change names (`SymmetricCalls`), and
nobody's rights change (`Settled`, as in `CallsInStore`; the proofs are about `AgentSpec`, in which they do).

**Fairness.** In `PortfolioStore`, `FairSpec` adds strong fairness of each session's own steps. Strong,
because what a waiting statement needs may be free and taken again by others;
PostgreSQL queues the waiters of a lock and grants it in turn, and the
runtime polls every call. Nothing is assumed of callers (`Begin`) or failures
(`Abort`). `Rollback` is a session's step: sqlx rolls a dropped transaction back when
the connection returns to its pool. In `PluginStore`, `Fairness` is strong for what
a session is owed (`Serve`: its call's next statement, the drop of what was abandoned, the
rollback), for the same reason, and weak for a call that waits for a
connection or reads, and for `Close`, which the deactivation itself awaits. Nothing is
assumed of callers, of services, or of a caller ever hearing its answer: `DeactivationEnds`
and `LocksGo` hold although everybody goes away.

**The finding.** `RollupTorn`: `read_rollup` (`PG/src/storage.rs:433-448`) reads the initiative and its
projects in separate statements on the pool, with no common snapshot.
`src/docs/plugin-card.md:6-7` promises "a stable rollup under concurrent edits". The
counterexample: an initiative at revision 2 with one project; the reader gets the
row; an attachment commits; the reader lists two projects and reports them under
revision 2. What does hold is `RollupIsFresh`: the revision and health belong
together, are no older than the call, and the projects are those of that version
or a later one.

**A day the database does not know.** `parse_date_window` reads a year with its sign, down to
-9999; a date of PostgreSQL begins in 4714 BC. A request with a date before that is accepted
and then fails in the `INSERT` or `UPDATE`, as a failure of the plugin. `RequestChecks`
models it and keeps it apart from other failures ("date out of range");
`AcceptedIsStorable` is about the others. Nothing in the repository says that it must not be so.

**A time that cannot be told.** `observed_at` is parsed with the offset of its text, stored as
an instant and formatted in UTC; `0000-01-01T00:00:00+01:00` is the year before the first that
`format_timestamp` can write. The command that brings it fails as it reads its row back, and
rolls back ("time out of range"; past the last year it may fail before that, with the same
end). What `AcceptedIsStorable` says is that such a row never stays: a response made of the
request instead of the row (`VerdictUnread`) would commit it, and every later list of the initiative's projects and
every rollup of it would fail.

## 4. What is proved

All results hold for every value of the constants that satisfies the `ASSUME`s
of the modules: of `Portfolio`, that requests are typed, an organization owns each
initiative, projects are finitely many, limits are naturals and `None` is no other
value; of `ReorderSteps`, that the offset is beyond every position that a handler lets in (in
the code 1000000, and 10000); of `Pagination`, that limits are positive, and that the rows a list
may meet are finitely many; of `PluginCall`, that invocations are typed, that a
receipt's scope is a caller and an actor, and that `None` is none of the things sent;
of `AgentTools`, that `None` is no tool's name; of `RequestChecks`, that
requests decode as the contract's types say. The sets of requests, sessions, readers, calls
and connections are arbitrary.

**Tables** (`PortfolioTablesProofs`). `Correct` is the conjunction of the types and
`RevisionCountsCommits`, `EveryCommandSawItsRevision`, `ReceiptsRecordEffects`,
`ArchiveIsFinal`, `HealthIsLogged`, `UpdatesAreLogged`,
`ProjectsAreOrdered` and `MembershipCountsTouches`. `HealthIsLogged` is `HealthIsLatestUpdate` told of the
log, which is what a step keeps; that the update rows are the updates of the log, with
their revisions, carries it over to the table (`HealthShown`). None of them but the first is
inductive alone: that the
revision counts the log (`RevisionCountsCommits`) is what makes compare-and-set talk about the log, what
gives update rows different revisions, and what ties a receipt's revision to a
position of the log; archiving is final because the flag refuses every
later command. For `MembershipCountsTouches` the log is cut at the last attachment of the
project: a command that does not touch it adds nothing to what comes after the cut, one that does adds
one entry, an attachment moves the cut, and the refusals say whether the project is there
(`Counted`, project by project). `ApplyCorrect` proves that one-step commands preserve `Correct`;
`RollupReadProofs` draws the theorems of the ledger from it.

**Transactions** (`PortfolioStoreProofs`). The invariant is `TypeOK /\ TwoPhase`:
a lock has one owner, and each session, by where it is, holds the locks that keep
true what it has read. So a session at `"commit"` still has no
refusal and its staged effect is what the command would write now
(`StagedIsCurrent`, a consequence). This is what is needed for the refinement:
`Commit` is `Apply` of its request (`Refinement`, `Spec => LedgerSpec`), every
other action a stutter. `Correct` then carries over (`StoreIsCorrect`), and with it
`RevisionCountsCommits`, `EveryCommandSawItsRevision`,
`ReceiptsRecordEffects`, `MembershipCountsTouches`. `ReceiptsAreImmutable` is proved as an action property.
`Honesty` is `RefusalsAreTrue`: its invariant `Reasons` gives for every refused session the
reason that was true when it was refused, and `CommitReasoned` shows that no commit of another
session takes it away, because the locks are still held, because a receipt
once there stays, and because an update id once taken stays taken. The proof that a step keeps
`TwoPhase` has one lemma per action. `StepOutcome` sums up what a step of a
session can come to, for whoever has the session: it goes on, it is refused for a reason the tables
give at that very step, it fails, it replays, or its command has been applied.

**Reordering** (`ReorderStepsProofs`). The inductive invariant `RowByRow`, which only the proofs need, says what each row is by what has
been done to it: as it was, staged, or written. Staged rows are beyond
every written one and apart from each other as they were before, so no
position is ever taken (`NoCollision`), and at the end every row is the item's
(`WholeOrder`).

**Rollups** (`RollupReadProofs`). `versions` has the rows after each command, one
for each revision (`History`). A reader past its first statement has the row of a
version that is not older than its beginning (`SawVersion`); at its end it has, besides,
the projects of that or a later version (`Fresh`). Commands only append to `versions`, which is why no
commit between the statements takes either away. `Freshness` also
needs that there are never more projects than the list asks for, which is
`ProjectsAreOrdered`; `Failing` needs that an initiative, once there, stays.

**Lists** (`PaginationProofs`). The invariant `Paging` says what is listed by where the
cursor is: a row that stays has been listed once if its key is at or before the cursor, and
otherwise not. A page keeps that because it is all the rows between the cursor and its
own last key, none left out: the rows fetched are the first ones of a finite set. For updates (`Logged`) the log is in
the order of the keys, and what is inserted and not committed is beyond everything
committed and every cursor, because one insert runs at a time: so pages have no gaps
(`Gapless`). For initiatives this is not so, and not claimed.

**Calls** (`PluginCallProofs`). `Typing` is the type invariant of the plugin's own
variables, in which the pool that handlers take is always one that is open; the
tables are left to the theorems above. `Authorization` is `OnlyTheAuthorized`,
through an invariant that says for every await what has been seen true on the way to
it, with `truths` only growing during a call. `Naming` rests on a lemma that
every refusal of an operation is one its error type has a name for: nothing ends
in the catch-all. `Ending` is `NoStoreAfterDeactivation`, abandoned commands included.
`Serving` is that the tables stay `Correct` under the handlers: what a call runs is a request
of the store, because it was authorized for its scope.

**Agent tools** (`PluginCallProofs`). An execution of a tool is a call of the plugin
(`Composition`, `AgentSpec => Spec`). `AgentsLearning` takes a failure through both
translations: it reaches the adapter as one of those that the handler of the call has a name
for (`Heard`), and the adapter has a name for each of those (`NamesAreTranslated`); the invariant `Adapted` keeps the
answer with the call that it translates. `KeepingPlace` is the action property
`ToolsKeepTheirPlace`: the tables change only in a step of `RunCommand` or `EndAbandoned`, and the operation
of that call is that of the tool, also when the agent has given up.

**Handlers over transactions** (`PluginStoreProofs`). `Calling` is `CallSpec`. Its
invariant `Tied` has four parts: what the calls have shown (`Shown`, of `PluginCall`); what the sessions rely on
(`Sound`, of the instance of `PortfolioStore`); `Connections`, that a command in the store, or
abandoned there, has a session of its own that works for its scoped request and is out of
the pool the call has taken, and that a read's session has no transaction; and `Seen`,
that what holds of a call now is among its `truths`, so that a step of a session that
changes nothing a caller sees is a stutter. The refinements need each other: a session
takes a step of `PortfolioStore` because the request it begins with is that of an authorized
call (`SessionMoves`), and a call takes a step of `PluginCall` because a session at work
comes to one of the outcomes that `RunCommand` has (`HearIsRun`), a dropped one to
a commit or nothing (`DropIsEnd`). `Closed` is justified by `owner`: each
call in the store has a connection of its pool out. So everything proved of the calls holds
over interleaved transactions (`CallsOverStore`), everything proved of the transactions
holds under the calls (`Underneath`, `StoreUnderCalls`), and the tables take the
steps of one-step commands (`Serializing`). `PoolsEnd` is `ConnectionsEndWithTheirPool`.

The theorems of `PortfolioStore` are cited for its instance. The module instantiates it through
`PluginStore` and again through its proofs; the first section of `PluginStoreProofs` shows
that the operators of both are the same.

**Requests** (`RequestChecksProofs`). The invariant `Known` says what a row is made of:
ids that are valid, texts within their bounds, a window that holds, whichever
requests wrote it. From it, that every row an accepted request makes is storable
(`Storing`), the sums of the widths included, and that its names pass every
operation's checks again (`Reaching`). That a row that stays is `Readable` is a conjunct of
`Known` of its own: accepted requests may bring a time that is not.

**Only model-checked:** the liveness properties `EveryRequestEnds`, `DeactivationEnds` and
`LocksGo`: they need fairness, and `ENABLED` of actions of several conjuncts, which is beyond the
prover. Every other property of a passing run is stated by a theorem. `RollupTorn` is a
violation: there is nothing to prove.

## 5. Plan

Done, in this order: the command engine, its abstract specification and the
refinement; the rollup; the statements of `reorder_projects`; the lists; the
handlers; the agent tools; the handlers over the transactions, with callers that
go away; the checks of requests against the constraints of the tables; the proof that
refusals are true; the proofs of membership revisions, rollups, lists and agent tools; the proof that
the handlers over transactions implement the handlers over commands.

Next:

1. The agent tools over the transactions: that an execution over `PluginStore` is one over
   `PluginCall` follows from `Calling`, once `AgentTools` takes the calls as an instance.
2. A rollup over transactions: `RollupRead` takes commands of one step; `Refinement` says that
   the tables move as they do, and a specification that has readers beside `PortfolioStore` would say
   it of the rollups.
3. An abstract statement of what a list promises, of which `Pagination` is an implementation.

## 6. Not modelled

- The database operator (`operator.rs`, `schema.rs`): it hands the one migration to an
  external kit, before any plugin serves; it has no state and no logic of its own.
- The two contract crates: generated message types, clients and descriptors. Their types are
  the requests and errors of the models; there is no behaviour in them.
- CI and release scripts: no part of the running system.
- Within the handlers: the verification of an assertion's signature and lifetime
  (an external crate; an assertion verifies or does not), the syntax of a secret reference, and
  the serialization of answers. A request's SHA-256 is the request.
- Timestamps, but for `observed_at` in `RequestChecks`: they are the database's clock, written
  and returned, and nothing depends on them.
