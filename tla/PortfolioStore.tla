--------------------------- MODULE PortfolioStore ----------------------------
(***************************************************************************)
(* The command engine of storage.rs over PostgreSQL.  A session is a pool  *)
(* connection that runs one request at a time through the statements of    *)
(* its operation:                                                          *)
(*                                                                         *)
(*   begin, admit_command's SELECT .. FOR UPDATE          Begin, Admit*    *)
(*   admit_command's INSERT of the receipt                Reserve*         *)
(*   lock_initiative, require_mutable_revision            Lock*            *)
(*   the operation's statements and finish_command        one action each  *)
(*   .. those after an INSERT that may wait               Finish           *)
(*   commit                                               Commit*          *)
(*                                                                         *)
(* Transactions run at READ COMMITTED, the default: a statement sees the   *)
(* committed tables and the writes of its own transaction.  A transaction  *)
(* keeps what it writes in staged until Commit publishes it; of a row that *)
(* it has inserted before, only the key counts for others.  The row locks  *)
(* and the uncommitted unique keys it owns are in held, until Commit or    *)
(* Rollback: a SELECT .. FOR UPDATE waits for the owner of the row, an     *)
(* INSERT for the owner of the same uncommitted key.                       *)
(*                                                                         *)
(* An early return of the code drops the transaction: the caller has its   *)
(* answer, but the connection rolls back later (Rollback), and until then  *)
(* its locks stay.  A statement may fail, the call be cancelled, the       *)
(* connection or the process die at any point before the commit (Abort).   *)
(* The answer of a committed transaction may be lost (End covers both).    *)
(* A caller may send any request again at any time, to any session, also   *)
(* while an earlier attempt still runs (Begin).                            *)
(***************************************************************************)
EXTENDS PortfolioTables

CONSTANT Sessions

VARIABLES
  pc,        \* where a session is in its operation
  request,   \* the request it runs
  held,      \* the locks and uncommitted keys its transaction owns
  staged,    \* what its transaction wrote
  answer,    \* the response its caller gets, once there is one
  failure    \* or the failure

vars == <<initiatives, projects, updates, receipts, ledger,
          pc, request, held, staged, answer, failure>>

(* What a transaction may own of the database. *)
ReceiptLock(r) == <<"receipt", KeyOf(r)>>
InitiativeLock(r) == <<"initiative", r.initiative>>
UpdateLock(r) == <<"update", <<OrganizationOf[r.initiative], r.update>>>>

Locks ==
  ({"receipt"} \X ReceiptKeys)
    \cup ({"initiative"} \X Initiatives)
    \cup ({"update"} \X (Organizations \X UpdateIds))

(* A mistake: nothing waits. *)
FreeForAll(s, lock) == TRUE

(* No other transaction owns the lock: the statement that needs it goes on *)
(* at once.  While it is not free the statement waits.                     *)
Free(s, lock) == \A t \in Sessions \ {s} : lock \notin held[t]

(* A request that is not a create runs lock_initiative before it writes.   *)
Locking(r) == r.op # "create_initiative"

Points ==
  {"idle", "admit", "reserve", "lock", "write", "finish", "commit", "replay",
   "rollback", "done"}

Internal == "Internal"   \* StorageError::Database: no domain failure

TypeOK ==
  /\ TablesOK
  /\ pc \in [Sessions -> Points]
  /\ request \in [Sessions -> Requests \cup {None}]
  /\ held \in [Sessions -> SUBSET Locks]
  /\ staged \in [Sessions -> Effect \cup {None}]
  /\ answer \in [Sessions -> Response \cup {None}]
  /\ failure \in [Sessions -> Failures \cup {Internal, None}]

Init ==
  /\ TablesInit
  /\ pc = [s \in Sessions |-> "idle"]
  /\ request = [s \in Sessions |-> None]
  /\ held = [s \in Sessions |-> {}]
  /\ staged = [s \in Sessions |-> None]
  /\ answer = [s \in Sessions |-> None]
  /\ failure = [s \in Sessions |-> None]

-----------------------------------------------------------------------------
(* Steps that several operations share *)

Goto(s, point) == pc' = [pc EXCEPT ![s] = point]

(* A mistake: the statement runs outside the transaction and its lock ends *)
(* with it.                                                                *)
AcquireForStatement(s, lock) == UNCHANGED held

Acquire(s, lock) == held' = [held EXCEPT ![s] = @ \cup {lock}]

(* Return Err: the caller has the failure, the transaction is dropped. *)
Refuse(s, why) ==
  /\ failure' = [failure EXCEPT ![s] = why]
  /\ answer' = [answer EXCEPT ![s] = None]
  /\ staged' = [staged EXCEPT ![s] = None]
  /\ Goto(s, "rollback")
  /\ UNCHANGED request

(* A caller sends r, anew or again; the operation begins its transaction. *)
BeginWith(s, r) ==
  /\ pc[s] = "idle"
  /\ request' = [request EXCEPT ![s] = r]
  /\ Goto(s, "admit")
  /\ UNCHANGED <<tables, held, staged, answer, failure>>

Begin(s) == \E r \in Requests : BeginWith(s, r)

-----------------------------------------------------------------------------
(* admit_command *)

(* SELECT .. FOR UPDATE finds no committed receipt. *)
AdmitNew(s) ==
  /\ pc[s] = "admit"
  /\ receipts[KeyOf(request[s])] = None
  /\ Goto(s, "reserve")
  /\ UNCHANGED <<tables, request, held, staged, answer, failure>>

(* A mistake: the hash of the request is not compared. *)
ReceiptRefusalIgnoringHash(r, receipt) ==
  IF receipt.response = None THEN "OperationInProgress" ELSE None

(* Why a receipt found does not answer the request, if it does not. *)
ReceiptRefusal(r, receipt) ==
  IF receipt.hash # r THEN "IdempotencyConflict"
  ELSE IF receipt.response = None THEN "OperationInProgress"
  ELSE None

(* SELECT .. FOR UPDATE finds a receipt, locks it, and returns its response *)
(* for the caller to have once the transaction has committed.              *)
AdmitReplay(s) ==
  LET r == request[s]
      receipt == receipts[KeyOf(r)]
  IN  /\ pc[s] = "admit"
      /\ receipt # None
      /\ Free(s, ReceiptLock(r))
      /\ ReceiptRefusal(r, receipt) = None
      /\ answer' = [answer EXCEPT ![s] = receipt.response]
      /\ Acquire(s, ReceiptLock(r))
      /\ Goto(s, "replay")
      /\ UNCHANGED <<tables, request, staged, failure>>

AdmitRefused(s) ==
  LET r == request[s]
      receipt == receipts[KeyOf(r)]
  IN  /\ pc[s] = "admit"
      /\ receipt # None
      /\ Free(s, ReceiptLock(r))
      /\ ReceiptRefusal(r, receipt) # None
      /\ Refuse(s, ReceiptRefusal(r, receipt))
      /\ Acquire(s, ReceiptLock(r))
      /\ UNCHANGED tables

(* A mistake: portfolio_commands has no primary key. *)
ReserveUnchecked(s) ==
  /\ pc[s] = "reserve"
  /\ Acquire(s, ReceiptLock(request[s]))
  /\ Goto(s, IF Locking(request[s]) THEN "lock" ELSE "write")
  /\ UNCHANGED <<tables, request, staged, answer, failure>>

(* A mistake: ON CONFLICT DO NOTHING. *)
ReserveOverCommitted(s) ==
  /\ pc[s] = "reserve"
  /\ Free(s, ReceiptLock(request[s]))
  /\ Acquire(s, ReceiptLock(request[s]))
  /\ Goto(s, IF Locking(request[s]) THEN "lock" ELSE "write")
  /\ UNCHANGED <<tables, request, staged, answer, failure>>

(* INSERT the receipt.  A command committed since the SELECT makes it a    *)
(* unique violation at once; one that has not ended makes it wait.         *)
Reserve(s) ==
  /\ pc[s] = "reserve"
  /\ receipts[KeyOf(request[s])] = None
  /\ Free(s, ReceiptLock(request[s]))
  /\ Acquire(s, ReceiptLock(request[s]))
  /\ Goto(s, IF Locking(request[s]) THEN "lock" ELSE "write")
  /\ UNCHANGED <<tables, request, staged, answer, failure>>

ReserveRefused(s) ==
  /\ pc[s] = "reserve"
  /\ receipts[KeyOf(request[s])] # None
  /\ Refuse(s, "OperationInProgress")
  /\ UNCHANGED <<tables, held>>

-----------------------------------------------------------------------------
(* lock_initiative and require_mutable_revision *)

(* No committed row: SELECT .. FOR UPDATE returns nothing and locks        *)
(* nothing, also while a create has not committed.                         *)
LockMissing(s) ==
  /\ pc[s] = "lock"
  /\ initiatives[request[s].initiative] = None
  /\ Refuse(s, "NotFound")
  /\ UNCHANGED <<tables, held>>

(* A mistake: the SELECT has no FOR UPDATE. *)
LockWithoutForUpdate(s) ==
  LET r == request[s]
      row == initiatives[r.initiative]
  IN  /\ pc[s] = "lock"
      /\ row # None
      /\ IF LockRefusal(r, row) = None
         THEN Goto(s, "write") /\ UNCHANGED <<request, staged, answer, failure>>
         ELSE Refuse(s, LockRefusal(r, row))
      /\ UNCHANGED <<tables, held>>

(* The row is locked and read as last committed; then it is checked. *)
Lock(s) ==
  LET r == request[s]
      row == initiatives[r.initiative]
  IN  /\ pc[s] = "lock"
      /\ row # None
      /\ Free(s, InitiativeLock(r))
      /\ Acquire(s, InitiativeLock(r))
      /\ IF LockRefusal(r, row) = None
         THEN Goto(s, "write") /\ UNCHANGED <<request, staged, answer, failure>>
         ELSE Refuse(s, LockRefusal(r, row))
      /\ UNCHANGED tables

-----------------------------------------------------------------------------
(* The statements of each operation, on the committed rows, up to          *)
(* finish_command; the transaction keeps what they write.                  *)

Writing(s, op) == pc[s] = "write" /\ request[s].op = op

Stage(s) ==
  LET r == request[s]
  IN  /\ staged' = [staged EXCEPT ![s] =
                      EffectOf(r, initiatives[r.initiative], projects[r.initiative])]
      /\ Goto(s, "commit")
      /\ UNCHANGED <<request, answer, failure>>

(* What refuses the operation's statements now. *)
Verdict(s) ==
  LET r == request[s]
  IN  WriteRefusal(r, initiatives[r.initiative], projects[r.initiative],
                   TakenUpdate(r))

(* The initiative row is locked, and with it everything the operation      *)
(* reads and writes: nothing waits.                                        *)
WriteLocked(s) ==
  /\ IF Verdict(s) = None THEN Stage(s) ELSE Refuse(s, Verdict(s))
  /\ UNCHANGED <<tables, held>>

(* A mistake: the table has no unique key. *)
WriteInsertingUnchecked(s, lock) ==
  /\ Acquire(s, lock)
  /\ Goto(s, "finish")
  /\ UNCHANGED <<tables, request, staged, answer, failure>>

(* An INSERT on a unique key: refused at once when the key is committed,   *)
(* otherwise it waits for whoever else is inserting it, then owns it.  The *)
(* statements after it may still fail.                                     *)
WriteInserting(s, lock) ==
  /\ \/ /\ Verdict(s) # None
        /\ Refuse(s, Verdict(s))
        /\ UNCHANGED held
     \/ /\ Verdict(s) = None
        /\ Free(s, lock)
        /\ Acquire(s, lock)
        /\ Goto(s, "finish")
        /\ UNCHANGED <<request, staged, answer, failure>>
  /\ UNCHANGED tables

CreateInitiative(s) ==
  /\ Writing(s, "create_initiative")
  /\ WriteInserting(s, InitiativeLock(request[s]))

(* A mistake: the update is inserted on the pool, not in the transaction. *)
AddUpdateOnPool(s) ==
  LET r == request[s]
  IN  /\ Writing(s, "add_initiative_update")
      /\ Verdict(s) = None
      /\ updates' = [updates EXCEPT ![OrganizationOf[r.initiative]][r.update] =
                       UpdateAfter(r, initiatives[r.initiative])]
      /\ Goto(s, "finish")
      /\ UNCHANGED <<initiatives, projects, receipts, ledger,
                     request, held, staged, answer, failure>>

(* The row of the update; its initiative is advanced by Finish. *)
AddUpdate(s) ==
  /\ Writing(s, "add_initiative_update")
  /\ WriteInserting(s, UpdateLock(request[s]))

(* What follows the INSERT: add_update advances the initiative, and both   *)
(* operations read their row back and write their response.                *)
Finish(s) ==
  /\ pc[s] = "finish"
  /\ Stage(s)
  /\ UNCHANGED <<tables, held>>

UpdateInitiative(s) == Writing(s, "update_initiative") /\ WriteLocked(s)

ArchiveInitiative(s) == Writing(s, "archive_initiative") /\ WriteLocked(s)

AttachProject(s) == Writing(s, "attach_project") /\ WriteLocked(s)

UpdateProjectSnapshot(s) ==
  Writing(s, "update_project_snapshot") /\ WriteLocked(s)

DetachProject(s) == Writing(s, "detach_project") /\ WriteLocked(s)

ReorderProjects(s) == Writing(s, "reorder_projects") /\ WriteLocked(s)

Write(s) ==
  \/ CreateInitiative(s) \/ UpdateInitiative(s) \/ AddUpdate(s)
  \/ ArchiveInitiative(s) \/ AttachProject(s) \/ UpdateProjectSnapshot(s)
  \/ DetachProject(s) \/ ReorderProjects(s)

-----------------------------------------------------------------------------
(* The end of a transaction *)

(* The staged writes become visible together and the locks go. *)
Commit(s) ==
  /\ pc[s] = "commit"
  /\ Publish(request[s], staged[s])
  /\ answer' = [answer EXCEPT ![s] = staged[s].response]
  /\ staged' = [staged EXCEPT ![s] = None]
  /\ held' = [held EXCEPT ![s] = {}]
  /\ Goto(s, "done")
  /\ UNCHANGED <<request, failure>>

(* A replay commits a transaction that wrote nothing. *)
CommitReplay(s) ==
  /\ pc[s] = "replay"
  /\ held' = [held EXCEPT ![s] = {}]
  /\ Goto(s, "done")
  /\ UNCHANGED <<tables, request, staged, answer, failure>>

(* A database error, a cancellation, or the death of the connection or of  *)
(* the process before the commit: the caller gets no domain answer.        *)
Abort(s) ==
  /\ pc[s] \in {"admit", "reserve", "lock", "write", "finish", "commit", "replay"}
  /\ Refuse(s, Internal)
  /\ UNCHANGED <<tables, held>>

(* A mistake: a refused command leaves its transaction open. *)
RollbackOnErrorOnly(s) ==
  /\ pc[s] = "rollback"
  /\ failure[s] = Internal
  /\ held' = [held EXCEPT ![s] = {}]
  /\ Goto(s, "done")
  /\ UNCHANGED <<tables, request, staged, answer, failure>>

(* The dropped transaction rolls back and its locks go. *)
Rollback(s) ==
  /\ pc[s] = "rollback"
  /\ held' = [held EXCEPT ![s] = {}]
  /\ Goto(s, "done")
  /\ UNCHANGED <<tables, request, staged, answer, failure>>

(* The caller has the answer, or it was lost on the way; the connection is *)
(* free.                                                                   *)
End(s) ==
  /\ pc[s] = "done"
  /\ request' = [request EXCEPT ![s] = None]
  /\ answer' = [answer EXCEPT ![s] = None]
  /\ failure' = [failure EXCEPT ![s] = None]
  /\ Goto(s, "idle")
  /\ UNCHANGED <<tables, held, staged>>

(* What a session does by itself, once a request has begun. *)
Step(s) ==
  \/ AdmitNew(s) \/ AdmitReplay(s) \/ AdmitRefused(s)
  \/ Reserve(s) \/ ReserveRefused(s)
  \/ LockMissing(s) \/ Lock(s)
  \/ Write(s) \/ Finish(s)
  \/ Commit(s) \/ CommitReplay(s) \/ Rollback(s) \/ End(s)

Next == \E s \in Sessions : Begin(s) \/ Step(s) \/ Abort(s)

Spec == Init /\ [][Next]_vars

(* The runtime polls every operation, and PostgreSQL grants a lock to its  *)
(* waiters in turn, so a step that is possible again and again is taken.   *)
(* Nothing makes a caller send a request or a transaction fail.            *)
FairSpec == Spec /\ \A s \in Sessions : SF_vars(Step(s))

-----------------------------------------------------------------------------
(* Properties *)

(* The transactions implement the one-step commands of PortfolioLedger:    *)
(* whatever interleaves, every commit is a command applied to the tables   *)
(* as they are when it commits.                                            *)
Ledger == INSTANCE PortfolioLedger
LedgerSpec == Ledger!LedgerSpec

(* The two-phase discipline of storage.rs (receipt, then initiative, then  *)
(* rows) keeps what a transaction staged current until it commits: it is   *)
(* still what the command would write, and nothing refuses the command.    *)
StagedIsCurrent ==
  \A s \in Sessions :
    pc[s] = "commit" =>
      LET r == request[s]
      IN  /\ receipts[KeyOf(r)] = None
          /\ Refusal(r) = None
          /\ staged[s] = EffectOf(r, initiatives[r.initiative],
                                  projects[r.initiative])

(* A caller refused under the initiative's lock, or for a key that is in   *)
(* use, was told the truth: until the dropped transaction has rolled back  *)
(* the committed tables refuse the request for the same reason.            *)
RefusalsAreTrue ==
  \A s \in Sessions :
    pc[s] = "rollback" =>
      LET r == request[s]
      IN  CASE failure[s] = "IdempotencyConflict" -> receipts[KeyOf(r)].hash # r
            [] failure[s] = "OperationInProgress" -> receipts[KeyOf(r)] # None
            [] failure[s] \in {"NotFound", Internal} -> TRUE
            [] OTHER -> /\ receipts[KeyOf(r)] = None
                        /\ Refusal(r) = failure[s]

(* A caller told of success has what the one effect of its request left:   *)
(* the first answer and every replay are the stored response, also after   *)
(* a lost answer and a retry on another connection.                        *)
AnswersAreReceipts ==
  \A s \in Sessions :
    pc[s] = "done" /\ answer[s] # None =>
      receipts[KeyOf(request[s])] = [hash |-> request[s], response |-> answer[s]]

(* A committed receipt never changes, so a key answers the same for ever.  *)
ReceiptsAreImmutable ==
  [][\A k \in ReceiptKeys : receipts[k] # None => receipts'[k] = receipts[k]]_vars

(* Every request that has begun ends and frees its connection: no set of   *)
(* transactions waits for each other (receipt, then initiative, then       *)
(* update_id is the one order in which storage.rs takes them), and none    *)
(* keeps what the others wait for.                                         *)
EveryRequestEnds == \A s \in Sessions : pc[s] # "idle" ~> pc[s] = "idle"

-----------------------------------------------------------------------------
(* The inductive invariant behind those properties *)

(* A lock, or an uncommitted unique key, has one owner. *)
LocksAreExclusive ==
  \A s, t \in Sessions : s # t => held[s] \cap held[t] = {}

(* What a session may rely on where it is, because of the locks it holds.  *)
Disciplined(s) ==
  LET r == request[s]
      k == KeyOf(r)
      row == initiatives[r.initiative]
  IN  /\ pc[s] # "idle" => r # None
      /\ pc[s] \in {"lock", "write", "finish", "commit"} =>
           ReceiptLock(r) \in held[s] /\ receipts[k] = None
      /\ pc[s] = "write" /\ Locking(r) =>
           InitiativeLock(r) \in held[s] /\ LockRefusal(r, row) = None
      /\ pc[s] \in {"finish", "commit"} =>
           /\ InitiativeLock(r) \in held[s]
           /\ r.op = "add_initiative_update" => UpdateLock(r) \in held[s]
           /\ Refusal(r) = None
      /\ pc[s] = "commit" =>
           staged[s] = EffectOf(r, row, projects[r.initiative])
      /\ pc[s] = "replay" \/ (pc[s] = "done" /\ answer[s] # None) =>
           receipts[k] = [hash |-> r, response |-> answer[s]]
      /\ pc[s] = "rollback" => answer[s] = None

(* Two-phase locking: each lock of storage.rs is taken before what it      *)
(* guards is read, and kept until the transaction ends, so what a session  *)
(* has read and staged stays true whatever the other sessions commit.      *)
TwoPhase == LocksAreExclusive /\ \A s \in Sessions : Disciplined(s)

=============================================================================
