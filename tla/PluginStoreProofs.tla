--------------------------- MODULE PluginStoreProofs ---------------------------
(* The handlers over interleaved transactions: they use the sessions as    *)
(* PortfolioStore lets them be used, so its theorems hold below them; and  *)
(* what they do over transactions is what PluginCall has them do over      *)
(* commands of one step, so its theorems hold above them.                  *)
EXTENDS PluginStore, PluginCallProofs

(* The transactions with their theorems. *)
Engine == INSTANCE PortfolioStoreProofs WITH failure <- outcome

-----------------------------------------------------------------------------
(* The operators of the instances are those of PluginCall *)

(* Store and Engine are two instances of one module with the same names    *)
(* for everything; that they mean the same has to be said operator by      *)
(* operator, from those without operands on.                               *)
LEMMA SameCount ==
  ASSUME NEW rows
  PROVE  /\ Engine!Count(rows) = Count(rows) /\ Engine!Attached(rows) = Attached(rows)
         /\ Store!Count(rows) = Count(rows) /\ Store!Attached(rows) = Attached(rows)
<1>1. Engine!Attached(rows) = Attached(rows) /\ Store!Attached(rows) = Attached(rows)
  BY DEF Attached, Engine!Attached, Store!Attached
<1> QED
  BY <1>1 DEF Count, Engine!Count, Store!Count,
              Cardinality, Engine!Cardinality, Store!Cardinality

(* They refuse the same commands, for the same reasons. *)
LEMMA SameRefusals ==
  ASSUME NEW r, NEW row, NEW rows, NEW update
  PROVE  /\ /\ Engine!LockRefusal(r, row) = LockRefusal(r, row)
            /\ Store!LockRefusal(r, row) = LockRefusal(r, row)
         /\ /\ Engine!WriteRefusal(r, row, rows, update)
                 = WriteRefusal(r, row, rows, update)
            /\ Store!WriteRefusal(r, row, rows, update)
                 = WriteRefusal(r, row, rows, update)
<1>1. /\ Engine!LockRefusal(r, row) = LockRefusal(r, row)
      /\ Store!LockRefusal(r, row) = LockRefusal(r, row)
  BY DEF LockRefusal, RevisionChecked, Operations, Engine!LockRefusal,
         Engine!RevisionChecked, Engine!Operations, Store!LockRefusal,
         Store!RevisionChecked, Store!Operations
<1>2. /\ Engine!AttachRefusal(r, rows) = AttachRefusal(r, rows)
      /\ Store!AttachRefusal(r, rows) = AttachRefusal(r, rows)
  BY SameCount DEF AttachRefusal, Engine!AttachRefusal, Store!AttachRefusal
<1>3. /\ Engine!SnapshotRefusal(r, rows) = SnapshotRefusal(r, rows)
      /\ Store!SnapshotRefusal(r, rows) = SnapshotRefusal(r, rows)
      /\ Engine!DetachRefusal(r, rows) = DetachRefusal(r, rows)
      /\ Store!DetachRefusal(r, rows) = DetachRefusal(r, rows)
  BY DEF SnapshotRefusal, DetachRefusal, Engine!SnapshotRefusal,
         Engine!DetachRefusal, Store!SnapshotRefusal, Store!DetachRefusal
<1>4. /\ Engine!CompleteOrder(r.items, rows) <=> CompleteOrder(r.items, rows)
      /\ Store!CompleteOrder(r.items, rows) <=> CompleteOrder(r.items, rows)
  BY SameCount DEF CompleteOrder, Engine!CompleteOrder, Store!CompleteOrder
<1>5. /\ Engine!ReorderRefusal(r, rows) = ReorderRefusal(r, rows)
      /\ Store!ReorderRefusal(r, rows) = ReorderRefusal(r, rows)
  BY <1>4 DEF ReorderRefusal, Engine!ReorderRefusal, Store!ReorderRefusal
<1>6. Engine!WriteRefusal(r, row, rows, update) = WriteRefusal(r, row, rows, update)
  BY <1>2, <1>3, <1>5 DEF WriteRefusal, Engine!WriteRefusal
<1>7. Store!WriteRefusal(r, row, rows, update) = WriteRefusal(r, row, rows, update)
  BY <1>2, <1>3, <1>5 DEF WriteRefusal, Store!WriteRefusal
<1> QED
  BY <1>1, <1>6, <1>7

(* They look the same rows up to refuse a command. *)
LEMMA SameRefusal ==
  ASSUME NEW r
  PROVE  /\ Engine!KeyOf(r) = KeyOf(r) /\ Store!KeyOf(r) = KeyOf(r)
         /\ Engine!TakenUpdate(r) = TakenUpdate(r) /\ Store!TakenUpdate(r) = TakenUpdate(r)
         /\ Engine!Refusal(r) = Refusal(r)
<1>1. /\ Engine!KeyOf(r) = KeyOf(r) /\ Store!KeyOf(r) = KeyOf(r)
      /\ Engine!TakenUpdate(r) = TakenUpdate(r) /\ Store!TakenUpdate(r) = TakenUpdate(r)
  BY DEF KeyOf, Engine!KeyOf, Store!KeyOf, TakenUpdate, Engine!TakenUpdate,
         Store!TakenUpdate
<1> QED
  BY <1>1, SameRefusals DEF Refusal, Engine!Refusal

(* A command has the same effect in them. *)
LEMMA SameEffects ==
  ASSUME NEW r, NEW row, NEW rows
  PROVE  /\ Engine!EffectOf(r, row, rows) = EffectOf(r, row, rows)
         /\ Store!EffectOf(r, row, rows) = EffectOf(r, row, rows)
<1> DEFINE after == RowAfter(r, row)
           left == MembersAfter(r, rows)
<1>1. /\ Engine!Patched(r, row) = Patched(r, row)
      /\ Store!Patched(r, row) = Patched(r, row)
      /\ \A x : Engine!Bumped(x) = Bumped(x)
      /\ \A x : Store!Bumped(x) = Bumped(x)
  BY DEF Patched, Engine!Patched, Store!Patched, Bumped, Engine!Bumped, Store!Bumped
<1>2. Engine!RowAfter(r, row) = after /\ Store!RowAfter(r, row) = after
  BY <1>1 DEF RowAfter, Engine!RowAfter, Store!RowAfter
<1>3. /\ Engine!Attachment(r) = Attachment(r)
      /\ Store!Attachment(r) = Attachment(r)
      /\ Engine!Reordered(r.items, rows) = Reordered(r.items, rows)
      /\ Store!Reordered(r.items, rows) = Reordered(r.items, rows)
  BY DEF Attachment, Engine!Attachment, Store!Attachment, Reordered,
         Engine!Reordered, Store!Reordered
<1>4. Engine!MembersAfter(r, rows) = left
  BY <1>3 DEF MembersAfter, Engine!MembersAfter
<1>5. Store!MembersAfter(r, rows) = left
  BY <1>3 DEF MembersAfter, Store!MembersAfter
<1>6. /\ Engine!UpdateAfter(r, row) = UpdateAfter(r, row)
      /\ Store!UpdateAfter(r, row) = UpdateAfter(r, row)
  BY DEF UpdateAfter, Engine!UpdateAfter, Store!UpdateAfter
<1>7. Engine!Body(r, after, left) = Body(r, after, left)
  BY SameCount DEF Body, Engine!Body
<1>8. Store!Body(r, after, left) = Body(r, after, left)
  BY SameCount DEF Body, Store!Body
<1>9. /\ Engine!ResponseOf(r, after, left) = ResponseOf(r, after, left)
      /\ Store!ResponseOf(r, after, left) = ResponseOf(r, after, left)
  BY <1>7, <1>8 DEF ResponseOf, Engine!ResponseOf, Store!ResponseOf
<1> QED
  BY <1>2, <1>4, <1>5, <1>6, <1>9 DEF EffectOf, Engine!EffectOf, Store!EffectOf

(* They publish an effect in the same tables. *)
LEMMA SamePublish ==
  ASSUME NEW r, NEW effect
  PROVE  /\ Engine!Publish(r, effect) <=> Publish(r, effect)
         /\ Store!Publish(r, effect) <=> Publish(r, effect)
BY SameRefusal DEF Publish, Engine!Publish, Store!Publish

(* A transaction applies what PluginCall applies in one step. *)
LEMMA SameApply ==
  ASSUME NEW r
  PROVE  Engine!Apply(r) <=> Apply(r)
BY SameRefusal, SameEffects, SamePublish DEF Apply, Engine!Apply

(* They have the same variables, and begin alike. *)
LEMMA SameTables ==
  /\ Engine!tables = tables /\ Store!tables = tables
  /\ Engine!vars = Store!vars
  /\ Engine!ReceiptKeys = Store!ReceiptKeys
  /\ Engine!Init <=> Store!Init
BY DEF tables, Engine!tables, Store!tables, Engine!vars, Store!vars, Engine!ReceiptKeys,
  Store!ReceiptKeys, Engine!Operations, Store!Operations, Engine!Init, Store!Init,
  Engine!TablesInit, Store!TablesInit

-----------------------------------------------------------------------------
(* The actions of the two instances are the same *)

(* The steps that look for the receipt and reserve it. *)
LEMMA SameAdmit ==
  ASSUME NEW s, NEW r
  PROVE  /\ Store!BeginWith(s, r) <=> Engine!BeginWith(s, r)
         /\ Store!AdmitNew(s) <=> Engine!AdmitNew(s)
         /\ Store!AdmitReplay(s) <=> Engine!AdmitReplay(s)
         /\ Store!AdmitRefused(s) <=> Engine!AdmitRefused(s)
         /\ Store!Reserve(s) <=> Engine!Reserve(s)
         /\ Store!ReserveRefused(s) <=> Engine!ReserveRefused(s)
<1>1. /\ \A q, receipt :
           Store!ReceiptRefusal(q, receipt) = Engine!ReceiptRefusal(q, receipt)
      /\ \A q : Store!ReceiptLock(q) = Engine!ReceiptLock(q)
      /\ \A t, lock : Store!Free(t, lock) <=> Engine!Free(t, lock)
  BY SameRefusal DEF Store!ReceiptRefusal, Engine!ReceiptRefusal, Store!ReceiptLock,
     Engine!ReceiptLock, Store!Free, Engine!Free
<1>2. /\ \A why : Store!Refuse(s, why) <=> Engine!Refuse(s, why)
      /\ \A lock : Store!Acquire(s, lock) <=> Engine!Acquire(s, lock)
      /\ \A point : Store!Goto(s, point) <=> Engine!Goto(s, point)
  BY DEF Store!Refuse, Engine!Refuse, Store!Acquire, Engine!Acquire,
     Store!Goto, Engine!Goto
<1>3. /\ Store!BeginWith(s, r) <=> Engine!BeginWith(s, r)
      /\ Store!AdmitNew(s) <=> Engine!AdmitNew(s)
  BY <1>2, SameRefusal, SameTables
  DEF Store!BeginWith, Engine!BeginWith, Store!AdmitNew, Engine!AdmitNew,
      Store!tables, Engine!tables
<1>4. Store!AdmitReplay(s) <=> Engine!AdmitReplay(s)
  BY <1>1, <1>2, SameRefusal, SameTables
  DEF Store!AdmitReplay, Engine!AdmitReplay, Store!tables, Engine!tables
<1>5. Store!AdmitRefused(s) <=> Engine!AdmitRefused(s)
  BY <1>1, <1>2, SameRefusal, SameTables
  DEF Store!AdmitRefused, Engine!AdmitRefused, Store!tables, Engine!tables
<1>6. Store!Reserve(s) <=> Engine!Reserve(s)
  BY <1>1, <1>2, SameRefusal, SameTables
  DEF Store!Reserve, Engine!Reserve, Store!Locking, Engine!Locking,
      Store!tables, Engine!tables
<1>7. Store!ReserveRefused(s) <=> Engine!ReserveRefused(s)
  BY <1>1, <1>2, SameRefusal, SameTables
  DEF Store!ReserveRefused, Engine!ReserveRefused, Store!tables, Engine!tables
<1> QED
  BY <1>3, <1>4, <1>5, <1>6, <1>7

(* The steps that lock and write. *)
LEMMA SameWrite ==
  ASSUME NEW s
  PROVE  /\ Store!LockMissing(s) <=> Engine!LockMissing(s)
         /\ Store!Lock(s) <=> Engine!Lock(s)
         /\ Store!Write(s) <=> Engine!Write(s)
         /\ Store!Finish(s) <=> Engine!Finish(s)
<1>1. /\ \A q : Store!InitiativeLock(q) = Engine!InitiativeLock(q)
      /\ \A q : Store!UpdateLock(q) = Engine!UpdateLock(q)
      /\ \A t, lock : Store!Free(t, lock) <=> Engine!Free(t, lock)
  BY DEF Store!InitiativeLock, Engine!InitiativeLock, Store!UpdateLock,
     Engine!UpdateLock, Store!Free, Engine!Free
<1>2. /\ \A why : Store!Refuse(s, why) <=> Engine!Refuse(s, why)
      /\ \A lock : Store!Acquire(s, lock) <=> Engine!Acquire(s, lock)
      /\ \A point : Store!Goto(s, point) <=> Engine!Goto(s, point)
  BY DEF Store!Refuse, Engine!Refuse, Store!Acquire, Engine!Acquire,
     Store!Goto, Engine!Goto
<1>3. Store!LockMissing(s) <=> Engine!LockMissing(s)
  BY <1>2 DEF Store!LockMissing, Engine!LockMissing, Store!tables, Engine!tables
<1>4. Store!Lock(s) <=> Engine!Lock(s)
  BY <1>1, <1>2, SameRefusals
  DEF Store!Lock, Engine!Lock, Store!tables, Engine!tables
<1>5. /\ Store!Verdict(s) = Engine!Verdict(s)
      /\ Store!Stage(s) <=> Engine!Stage(s)
  BY <1>2, SameRefusals, SameRefusal, SameEffects
  DEF Store!Verdict, Engine!Verdict, Store!Stage, Engine!Stage
<1>6. /\ Store!WriteLocked(s) <=> Engine!WriteLocked(s)
      /\ \A lock : Store!WriteInserting(s, lock) <=> Engine!WriteInserting(s, lock)
      /\ \A op : Store!Writing(s, op) <=> Engine!Writing(s, op)
  BY <1>1, <1>2, <1>5
  DEF Store!WriteLocked, Engine!WriteLocked, Store!WriteInserting,
      Engine!WriteInserting, Store!Writing, Engine!Writing,
      Store!tables, Engine!tables
<1>7. Store!Write(s) <=> Engine!Write(s)
  BY <1>1, <1>6
  DEF Store!Write, Store!CreateInitiative, Store!UpdateInitiative, Store!AddUpdate,
      Store!ArchiveInitiative, Store!AttachProject, Store!UpdateProjectSnapshot,
      Store!DetachProject, Store!ReorderProjects, Engine!Write,
      Engine!CreateInitiative, Engine!UpdateInitiative, Engine!AddUpdate,
      Engine!ArchiveInitiative, Engine!AttachProject, Engine!UpdateProjectSnapshot,
      Engine!DetachProject, Engine!ReorderProjects
<1>8. Store!Finish(s) <=> Engine!Finish(s)
  BY <1>5 DEF Store!Finish, Engine!Finish, Store!tables, Engine!tables
<1> QED
  BY <1>3, <1>4, <1>7, <1>8

(* The steps that end a transaction. *)
LEMMA SameEnd ==
  ASSUME NEW s
  PROVE  /\ Store!Commit(s) <=> Engine!Commit(s)
         /\ Store!CommitReplay(s) <=> Engine!CommitReplay(s)
         /\ Store!Abort(s) <=> Engine!Abort(s)
         /\ Store!Rollback(s) <=> Engine!Rollback(s)
         /\ Store!End(s) <=> Engine!End(s)
<1>1. Store!Commit(s) <=> Engine!Commit(s)
  BY SamePublish DEF Store!Commit, Engine!Commit, Store!Goto, Engine!Goto
<1>2. Store!Abort(s) <=> Engine!Abort(s)
  BY DEF Store!Abort, Engine!Abort, Store!Refuse, Engine!Refuse, Store!Internal,
     Engine!Internal, Store!Goto, Engine!Goto, Store!tables, Engine!tables
<1>3. /\ Store!CommitReplay(s) <=> Engine!CommitReplay(s)
      /\ Store!Rollback(s) <=> Engine!Rollback(s)
      /\ Store!End(s) <=> Engine!End(s)
  BY DEF Store!CommitReplay, Engine!CommitReplay, Store!Rollback, Engine!Rollback,
     Store!End, Engine!End, Store!Goto, Engine!Goto, Store!tables, Engine!tables
<1> QED
  BY <1>1, <1>2, <1>3

(* A session of Store is a session of Engine. *)
LEMMA SameSteps ==
  ASSUME NEW s
  PROVE  /\ Store!Step(s) <=> Engine!Step(s)
         /\ Store!Begin(s) <=> Engine!Begin(s)
BY SameAdmit, SameWrite, SameEnd
DEF Store!Step, Engine!Step, Store!Begin, Engine!Begin

(* All sessions together. *)
LEMMA SameNext == Store!Next <=> Engine!Next
BY SameSteps, SameEnd DEF Store!Next, Engine!Next

-----------------------------------------------------------------------------
(* The theorems of the transactions, here *)

(* What PortfolioStoreProofs assumes of the constants. *)
LEMMA Assumed ==
  /\ Requests \subseteq Engine!Request
  /\ OrganizationOf \in [Initiatives -> Organizations]
  /\ Engine!IsFiniteSet(Projects)
  /\ MaxPosition \in Nat /\ MaxProjects \in Nat
  /\ /\ None \notin Engine!Initiative
     /\ None \notin Engine!Member
     /\ None \notin Engine!Update
     /\ None \notin Engine!Response
     /\ None \notin Engine!Receipt
     /\ None \notin Engine!Effect
     /\ None \notin Engine!Failures
     /\ None \notin Requests
<1>1. /\ Engine!Initiative = Initiative
      /\ Engine!Member = Member
      /\ Engine!Update = Update
      /\ Engine!Response = Response
      /\ Engine!Receipt = Receipt
      /\ Engine!Effect = Effect
      /\ Engine!Failures = Failures
      /\ Engine!Request = Request
  BY DEF Initiative, Engine!Initiative, Member, Engine!Member, Update, Engine!Update,
     Response, Engine!Response, Receipt, Engine!Receipt, Effect, Engine!Effect,
     Failures, Engine!Failures, Bodies, Engine!Bodies, Positions, Engine!Positions,
     Members, Engine!Members, Request, Engine!Request, CreateRequest,
     Engine!CreateRequest, UpdateRequest, Engine!UpdateRequest, AddUpdateRequest,
     Engine!AddUpdateRequest, ArchiveRequest, Engine!ArchiveRequest, AttachRequest,
     Engine!AttachRequest, SnapshotRequest, Engine!SnapshotRequest, DetachRequest,
     Engine!DetachRequest, OrderItem, Engine!OrderItem, ReorderRequest,
     Engine!ReorderRequest
<1>2. Engine!IsFiniteSet(Projects)
  BY ProjectsFinite DEF IsFiniteSet, Engine!IsFiniteSet
<1> QED
  BY <1>1, <1>2, RequestsAreTyped, OrganizationsOwnInitiatives, LimitsAreNatural,
     NoneIsNoValue

(* What the sessions rely on holds when nothing has begun. *)
LEMMA EngineInit == Store!Init => Engine!Sound
BY Assumed, Engine!InitSound, SameTables

(* It holds after every step that PortfolioStore has for them. *)
LEMMA EngineNext ==
  ASSUME Engine!Sound, [Store!Next]_(Store!vars)
  PROVE  Engine!Sound'
<1>1. [Engine!Next]_(Engine!vars)
  BY SameNext DEF Engine!vars, Store!vars
<1> QED
  BY <1>1, Assumed, Engine!NextSound

(* A refusal that the tables have a reason for. *)
Reasonable(r, why) ==
  LET receipt == receipts[KeyOf(r)]
  IN  \/ receipt = None /\ Refusal(r) # None /\ why = Refusal(r)
      \/ receipt # None /\ receipt.hash # r /\ why = "IdempotencyConflict"
      \/ receipt # None /\ why = "OperationInProgress"

(* What comes of a step of a session that is at work. *)
LEMMA SessionSteps ==
  ASSUME Engine!Sound, NEW s \in Sessions, pc[s] \in Engine!Working,
         Store!Step(s) \/ Store!Abort(s)
  PROVE  /\ request' = request
         /\ \A t \in Sessions : t # s => pc'[t] = pc[t]
         /\ \/ pc'[s] \in Engine!Working /\ UNCHANGED tables
            \/ /\ pc'[s] = "rollback" /\ UNCHANGED tables
               /\ outcome'[s] = Store!Internal \/ Reasonable(request[s], outcome'[s])
            \/ /\ pc'[s] = "done" /\ UNCHANGED tables
               /\ receipts[KeyOf(request[s])] # None
               /\ receipts[KeyOf(request[s])].hash = request[s]
            \/ pc'[s] = "done" /\ Apply(request[s])
<1>1. Engine!Step(s) \/ Engine!Abort(s)
  BY SameSteps, SameEnd
<1>2. /\ request' = request
      /\ \A t \in Sessions : t # s => pc'[t] = pc[t]
  BY <1>1, Assumed, Engine!StepIsLocal
<1>3. Engine!Outcome(s)
  BY <1>1, Assumed, Engine!StepOutcome
<1>4. \A why : Engine!Founded(request[s], why) => Reasonable(request[s], why)
  BY SameRefusal DEF Engine!Founded, Reasonable
<1>5. UNCHANGED Engine!tables => UNCHANGED tables
  BY DEF Engine!tables, tables
<1> QED
  BY <1>2, <1>3, <1>4, <1>5, SameRefusal, SameApply
  DEF Engine!Outcome, Engine!Internal, Store!Internal

-----------------------------------------------------------------------------
(* Who has which session *)

InUse(c) == at[c] \in {"store", "abandoned"}

(* The session of a command in the store, also of one that is abandoned,   *)
(* works for that command; it comes from the pool the call has taken.  The *)
(* session of a read has no transaction.  Other calls have none.           *)
Linked(c) ==
  IF InUse(c)
  THEN /\ conn[c] \in Sessions
       /\ pool[c] # None => owner[conn[c]] = pool[c]
       /\ at[c] = "abandoned" => IsCommand(c)
       /\ IF IsCommand(c)
          THEN /\ request[conn[c]] = Scoped(call[c])
               /\ pc[conn[c]] \in Engine!Working
          ELSE pc[conn[c]] = "idle"
  ELSE conn[c] = None

(* No two calls have one session. *)
Connections ==
  /\ conn \in [Calls -> Sessions \cup {None}]
  /\ owner \in [Sessions -> Nat \cup {None}]
  /\ \A c \in Calls : Linked(c)
  /\ \A c, d \in Calls : c # d /\ InUse(c) /\ InUse(d) => conn[c] # conn[d]

(* What holds of a call now is known of it. *)
Seen ==
  \A c \in Calls :
    truths[c] = IF call[c] = None THEN {} ELSE truths[c] \cup Holding(call[c])

(* What the handlers rely on, and what the transactions do. *)
Tied == Shown /\ Engine!Sound /\ Connections /\ Seen

-----------------------------------------------------------------------------
(* The transactions below the handlers *)

(* A call touches the tables only through a session. *)
LEMMA TablesAside ==
  ASSUME \/ \E c \in Calls : Approach(c) \/ Read(c) \/ GoAway(c) \/ Connect(c)
         \/ Runtime \/ Elsewhere \/ Close \/ Die
  PROVE  UNCHANGED tables
BY DEF Approach, Invoke, InvokeWith, CheckMembership, CheckAccess,
   MembershipReplies, AccessReplies, Reply, ServiceFails, Read, RunRead,
   StoreRefuses, GoAway, Leave, Connect, Runtime, BeginActivation,
   ActivationFails, Activate, Deactivate, Elsewhere, ChangeMembership,
   ChangeGrant, Close, CloseWhen, Die, Crash

(* Whatever the handlers do, the sessions take the steps of PortfolioStore. *)
LEMMA SessionMoves ==
  ASSUME Tied, [ComposedNext]_allVars
  PROVE  Store!Next \/ UNCHANGED Store!vars
<1>1. UNCHANGED <<tables, sessions>> => UNCHANGED Store!vars
  BY DEF tables, sessions, Store!vars
<1>2. ASSUME NEW c \in Calls, Approach(c) \/ Read(c) \/ GoAway(c)
      PROVE  UNCHANGED Store!vars
  BY <1>1, <1>2, TablesAside DEF Approach, Read, GoAway
<1>3. ASSUME Runtime \/ Elsewhere \/ Close \/ Die
      PROVE  UNCHANGED Store!vars
  BY <1>1, <1>3, TablesAside DEF Runtime, Elsewhere, Close, CloseWhen, Die
<1>4. ASSUME NEW c \in Calls, TakeConnection(c)
      PROVE  Store!Next \/ UNCHANGED Store!vars
  <2>1. at[c] = "connection" /\ UNCHANGED tables
    BY <1>4, TablesAside DEF TakeConnection, Connect
  <2>2. ASSUME NEW s \in Sessions, IsCommand(c), Store!BeginWith(s, Scoped(call[c]))
        PROVE  Store!Next
    BY <2>1, <2>2, ScopedRequest DEF Tied, IsCommand, Store!Begin, Store!Next
  <2> QED
    BY <1>1, <1>4, <2>1, <2>2 DEF TakeConnection
<1>5. ASSUME NEW c \in Calls, Command(c) \/ CommandFails(c) \/ DropAbandoned(c)
      PROVE  Store!Next
  <2>1. conn[c] \in Sessions
    BY <1>5 DEF Command, CommandFails, DropAbandoned, InStore, Tied, Connections,
                Linked, InUse
  <2> QED
    BY <1>5, <2>1 DEF Command, CommandFails, DropAbandoned, Store!Step, Store!Next
<1>6. ASSUME NEW s \in Sessions, GiveBack(s)
      PROVE  Store!Next
  BY <1>6 DEF GiveBack, Store!Step, Store!Next
<1>7. UNCHANGED allVars => UNCHANGED Store!vars
  BY <1>1 DEF allVars, vars
<1> QED
  BY <1>2, <1>3, <1>4, <1>5, <1>6, <1>7 DEF ComposedNext, PluginNext

-----------------------------------------------------------------------------
(* What the calls amount to *)

(* What is known of the calls is known after every step. *)
LEMMA ObserveSees == Observe => Seen'
BY DEF Observe, Seen

(* Nothing is new of calls and services that stay what they are. *)
LEMMA NothingNew ==
  ASSUME Tied, Observe, UNCHANGED <<services, call>>
  PROVE  truths' = truths
<1>1. \A c \in Calls :
        truths[c] = IF call[c] = None THEN {} ELSE truths[c] \cup Holding(call[c])'
  BY DEF Tied, Seen, services, Holding, IsMember, IsPermitted
<1>2. truths' = [c \in Calls |-> truths[c]]
  BY <1>1 DEF Observe
<1> QED
  BY <1>2 DEF Tied, Shown, TypeOK

(* A call that hears of its session's step: it goes on, and nothing has    *)
(* happened yet; or its command has.                                       *)
LEMMA HearIsRun ==
  ASSUME Tied, NEW c \in Calls, InStore(c),
         Store!Step(conn[c]) \/ Store!Abort(conn[c]), Hear(c, conn[c])
  PROVE  RunCommand(c) \/ UNCHANGED vars
<1> DEFINE s == conn[c]
           r == Scoped(call[c])
           receipt == receipts[KeyOf(r)]
<1>1. s \in Sessions /\ pc[s] \in Engine!Working /\ request[s] = r
  BY DEF Tied, Connections, Linked, InUse, InStore
<1>2. /\ UNCHANGED <<services, plugin, call, reply, pool>>
      /\ Observe
  BY DEF Hear
<1>3. CASE pc'[s] \in Engine!Working /\ UNCHANGED tables
  <2>1. UNCHANGED <<at, failure, told>>
    BY <1>3 DEF Hear, Engine!Working
  <2>2. truths' = truths
    BY <1>2, NothingNew
  <2> QED
    BY <1>2, <1>3, <2>1, <2>2 DEF vars, calls
<1>4. CASE pc'[s] = "rollback" /\ UNCHANGED tables /\ outcome'[s] = Store!Internal
  <2>1. Tell(c, "Runtime") /\ UNCHANGED failure
    BY <1>4 DEF Hear
  <2> QED
    BY <1>2, <1>4, <2>1 DEF RunCommand, InStore, IsCommand
<1>5. CASE /\ pc'[s] = "rollback" /\ UNCHANGED tables
           /\ outcome'[s] # Store!Internal /\ Reasonable(r, outcome'[s])
  <2>1. StoreRefuses(c, outcome'[s])
    BY <1>5 DEF Hear, StoreRefuses
  <2>2. \/ receipt = None /\ Refusal(r) # None /\ StoreRefuses(c, Refusal(r))
        \/ receipt # None /\ receipt.hash # r /\ StoreRefuses(c, "IdempotencyConflict")
        \/ receipt # None /\ StoreRefuses(c, "OperationInProgress")
    BY <1>5, <2>1 DEF Reasonable
  <2> QED
    BY <1>2, <2>2 DEF RunCommand, InStore, IsCommand
<1>6. CASE pc'[s] = "done"
  <2>1. UNCHANGED failure
    BY <1>6, <1>1 DEF Hear, Engine!Working
  <2>2. PICK what \in {"ok", "Runtime"} : Tell(c, what)
    BY <1>6 DEF Hear
  <2>3. CASE Apply(r)
    <3>1. told' \in {[told EXCEPT ![c] = w] : w \in {"ok", "Runtime"}}
          /\ Wait(c, "return")
      BY <2>2 DEF Tell
    <3> QED
      BY <1>2, <2>1, <2>3, <3>1 DEF RunCommand, InStore, IsCommand
  <2>4. CASE UNCHANGED tables /\ receipt # None /\ receipt.hash = r
    BY <1>2, <2>1, <2>2, <2>4 DEF RunCommand, InStore, IsCommand
  <2> QED
    BY <1>1, <1>6, <2>3, <2>4, SessionSteps DEF Tied, Engine!Working
<1> QED
  BY <1>1, <1>3, <1>4, <1>5, <1>6, SessionSteps DEF Tied

(* What is dropped when its caller has gone has committed, or never will. *)
LEMMA DropIsEnd ==
  ASSUME Tied, NEW c \in Calls, DropAbandoned(c)
  PROVE  EndAbandoned(c)
<1> DEFINE s == conn[c]
<1>1. s \in Sessions /\ pc[s] \in Engine!Working /\ request[s] = Scoped(call[c])
  BY DEF Tied, Connections, Linked, InUse, DropAbandoned
<1>2. Apply(Scoped(call[c])) \/ UNCHANGED tables
  BY <1>1, SessionSteps DEF DropAbandoned, Tied, Store!Step
<1> QED
  BY <1>2 DEF DropAbandoned, EndAbandoned

(* close() waits for the connections, and every call in the store has one. *)
LEMMA CloseIsClosed ==
  ASSUME Tied, Close
  PROVE  Closed
<1>1. ASSUME NEW c \in Calls, InUse(c)
      PROVE  pool[c] # activation
  <2>1. /\ conn[c] \in Sessions
        /\ pool[c] # None => owner[conn[c]] = pool[c]
    BY <1>1 DEF Tied, Connections, Linked
  <2>2. activation # None
    BY NoneIsNotSent DEF Tied, Shown, TypeOK
  <2> QED
    BY <2>1, <2>2 DEF Close, CloseWhen
<1> QED
  BY <1>1 DEF Close, CloseWhen, Closed, InUse

(* A step of the composition is a step of the calls, or nothing to them. *)
LEMMA CallMoves ==
  ASSUME Tied, [ComposedNext]_allVars
  PROVE  Next \/ UNCHANGED vars
<1>1. ASSUME NEW c \in Calls, Approach(c) \/ TakeConnection(c) \/ Read(c) \/ GoAway(c)
      PROVE  Next
  BY <1>1 DEF Approach, TakeConnection, Read, GoAway, Next, Run
<1>2. ASSUME NEW c \in Calls, Command(c) \/ CommandFails(c)
      PROVE  Next \/ UNCHANGED vars
  BY <1>2, HearIsRun DEF Command, CommandFails, Next, Run
<1>3. ASSUME NEW c \in Calls, DropAbandoned(c)
      PROVE  Next
  BY <1>3, DropIsEnd DEF Next
<1>4. ASSUME NEW s \in Sessions, GiveBack(s)
      PROVE  UNCHANGED vars
  BY <1>4 DEF GiveBack, Store!Rollback, Store!End, Store!tables, vars, tables
<1>5. Runtime \/ Elsewhere \/ Die => Next
  BY DEF Runtime, Elsewhere, Die, Next
<1>6. Close => Next
  BY CloseIsClosed DEF Next
<1>7. UNCHANGED allVars => UNCHANGED vars
  BY DEF allVars
<1> QED
  BY <1>1, <1>2, <1>3, <1>4, <1>5, <1>6, <1>7 DEF ComposedNext, PluginNext

-----------------------------------------------------------------------------
(* The connections *)

(* A call that is left alone, with its session, stays linked to it. *)
LEMMA LinkedOn ==
  ASSUME NEW d \in Calls, Linked(d),
         at'[d] = at[d], call'[d] = call[d], pool'[d] = pool[d], conn'[d] = conn[d],
         InUse(d) => /\ owner'[conn[d]] = owner[conn[d]]
                     /\ request'[conn[d]] = request[conn[d]]
                     /\ pc'[conn[d]] = pc[conn[d]]
  PROVE  Linked(d)'
BY DEF Linked, InUse, IsCommand, Scoped

(* Calls that keep their sessions keep them apart. *)
LEMMA ConnectionsOn ==
  ASSUME Connections,
         conn' \in [Calls -> Sessions \cup {None}],
         owner' \in [Sessions -> Nat \cup {None}],
         \A c \in Calls : Linked(c)',
         \A c \in Calls : InUse(c)' => InUse(c) /\ conn'[c] = conn[c]
  PROVE  Connections'
BY DEF Connections

(* One call changes, and it keeps its session, or has none any more. *)
LEMMA OneCallOn ==
  ASSUME Tied, NEW c \in Calls, UNCHANGED owner,
         \A d \in Calls : d # c =>
           /\ at'[d] = at[d] /\ call'[d] = call[d] /\ pool'[d] = pool[d]
           /\ InUse(d) => /\ request'[conn[d]] = request[conn[d]]
                          /\ pc'[conn[d]] = pc[conn[d]],
         Linked(c)',
         conn' = conn \/ (conn' = [conn EXCEPT ![c] = None] /\ ~InUse(c)'),
         InUse(c)' => InUse(c)
  PROVE  Connections'
<1>1. /\ Connections
      /\ \A d \in Calls : d # c => conn'[d] = conn[d]
      /\ conn' \in [Calls -> Sessions \cup {None}]
      /\ owner' \in [Sessions -> Nat \cup {None}]
  BY DEF Tied, Connections
<1>2. ASSUME NEW d \in Calls, d # c
      PROVE  Linked(d)' /\ (InUse(d)' => InUse(d))
  BY <1>1, <1>2, LinkedOn DEF Connections, InUse
<1>3. InUse(c)' => conn'[c] = conn[c]
  OBVIOUS
<1> QED
  BY <1>1, <1>2, <1>3, ConnectionsOn

(* A call that has no session yet, and still has none. *)
LEMMA AloneOn ==
  ASSUME Tied, NEW c \in Calls, ~InUse(c), ~InUse(c)',
         UNCHANGED <<sessions, owner, conn>>,
         \A d \in Calls : d # c =>
           at'[d] = at[d] /\ call'[d] = call[d] /\ pool'[d] = pool[d]
  PROVE  Connections'
<1>1. conn[c] = None
  BY DEF Tied, Connections, Linked
<1>2. Linked(c)'
  BY <1>1 DEF Linked
<1> QED
  BY <1>2, OneCallOn DEF sessions

(* On its way to the pool a call has no connection. *)
LEMMA ApproachConnects ==
  ASSUME Tied, NEW c \in Calls, Approach(c)
  PROVE  Connections'
<1>1. at \in [Calls -> Stages] /\ call \in [Calls -> Invocations \cup {None}]
      /\ pool \in [Calls -> Nat \cup {None}]
  BY DEF Tied, Shown, TypeOK
<1>2. UNCHANGED <<sessions, owner, conn>>
  BY DEF Approach
<1>3. /\ at[c] \notin {"store", "abandoned"} /\ at'[c] \notin {"store", "abandoned"}
      /\ \A d \in Calls : d # c =>
           at'[d] = at[d] /\ call'[d] = call[d] /\ pool'[d] = pool[d]
  <2>1. CASE Invoke(c)
    BY <1>1, <2>1 DEF Invoke, InvokeWith, Tell, Wait
  <2>2. CASE CheckMembership(c)
    <3>1. reply[c] \in {"yes", "no", "failed"}
      BY <2>2 DEF CheckMembership, Tied, Shown, TypeOK
    <3> QED
      BY <1>1, <2>2, <3>1 DEF CheckMembership, Tell, Wait
  <2>3. CASE CheckAccess(c)
    <3>1. reply[c] \in {"yes", "no", "failed"}
      BY <2>3 DEF CheckAccess, Tied, Shown, TypeOK
    <3> QED
      BY <1>1, <2>3, <3>1 DEF CheckAccess, Decision, Tell, Wait
  <2>4. CASE MembershipReplies(c) \/ AccessReplies(c) \/ ServiceFails(c)
    BY <2>4 DEF MembershipReplies, AccessReplies, ServiceFails, Reply
  <2> QED
    BY <2>1, <2>2, <2>3, <2>4 DEF Approach
<1> QED
  BY <1>2, <1>3, AloneOn DEF InUse

(* The call that gets a connection gets one that no other call has, and no *)
(* transaction is on.                                                      *)
LEMMA TakingConnects ==
  ASSUME Tied, NEW c \in Calls, TakeConnection(c)
  PROVE  Connections'
<1>1. /\ at \in [Calls -> Stages] /\ pool \in [Calls -> Nat \cup {None}]
      /\ conn \in [Calls -> Sessions \cup {None}]
      /\ owner \in [Sessions -> Nat \cup {None}]
      /\ \A d \in Calls : Linked(d)
  BY DEF Tied, Shown, TypeOK, Connections
<1>2. /\ at[c] = "connection" /\ UNCHANGED <<call, pool>>
      /\ at' = [at EXCEPT ![c] = at'[c]] /\ at'[c] \in {"store", "return"}
  BY <1>1 DEF TakeConnection, Connect, Wait, Tell
<1>3. CASE at'[c] # "store"
  BY <1>1, <1>2, <1>3, AloneOn DEF TakeConnection, InUse
<1>4. CASE at'[c] = "store"
  <2>1. PICK s \in Sessions :
          /\ Available(s)
          /\ conn' = [conn EXCEPT ![c] = s]
          /\ owner' = [owner EXCEPT ![s] = pool[c]]
          /\ \/ IsCommand(c) /\ Store!BeginWith(s, Scoped(call[c]))
             \/ ~IsCommand(c) /\ UNCHANGED sessions
    BY <1>4 DEF TakeConnection
  <2>2. /\ request \in [Sessions -> Requests \cup {None}]
        /\ pc \in [Sessions -> Engine!Points]
    BY DEF Tied, Engine!Sound, Engine!TypeOK
  <2>3. /\ conn' \in [Calls -> Sessions \cup {None}]
        /\ owner' \in [Sessions -> Nat \cup {None}]
    BY <1>1, <2>1
  <2>4. \A t \in Sessions : t # s =>
          owner'[t] = owner[t] /\ request'[t] = request[t] /\ pc'[t] = pc[t]
    BY <1>1, <2>1, <2>2 DEF Store!BeginWith, Store!Goto, sessions
  <2>5. \A d \in Calls : d # c =>
          /\ at'[d] = at[d] /\ call'[d] = call[d] /\ pool'[d] = pool[d]
          /\ conn'[d] = conn[d] /\ conn[d] # s
    BY <1>1, <1>2, <2>1 DEF Available
  <2>6. \A d \in Calls : d # c => Linked(d)'
    <3> SUFFICES ASSUME NEW d \in Calls, d # c
                 PROVE  Linked(d)'
      OBVIOUS
    <3>1. InUse(d) => conn[d] \in Sessions
      BY <1>1 DEF Linked
    <3> QED
      BY <1>1, <2>4, <2>5, <3>1, LinkedOn
  <2>7. Linked(c)'
    <3>1. /\ at'[c] = "store" /\ conn'[c] = s /\ owner'[s] = pool'[c]
      BY <1>1, <1>2, <1>4, <2>1
    <3>2. CASE IsCommand(c)
      <4>1. request'[s] = Scoped(call[c]) /\ pc'[s] = "admit"
        BY <2>1, <2>2, <3>2 DEF Store!BeginWith, Store!Goto
      <4>2. IsCommand(c)' /\ Scoped(call[c])' = Scoped(call[c])
        BY <1>2, <3>2 DEF IsCommand, Scoped
      <4> QED
        BY <2>1, <3>1, <4>1, <4>2 DEF Linked, InUse, Engine!Working
    <3>3. CASE ~IsCommand(c)
      <4>1. ~IsCommand(c)' /\ pc'[s] = "idle"
        BY <1>2, <2>1, <3>3 DEF IsCommand, Available, sessions
      <4> QED
        BY <2>1, <3>1, <4>1 DEF Linked, InUse
    <3> QED
      BY <3>2, <3>3
  <2>8. \A d, e \in Calls : d # e /\ InUse(d)' /\ InUse(e)' => conn'[d] # conn'[e]
    BY <1>1, <2>1, <2>5 DEF InUse, Tied, Connections
  <2> QED
    BY <2>3, <2>6, <2>7, <2>8 DEF Connections
<1> QED
  BY <1>3, <1>4

(* Each session that a call uses is its own. *)
LEMMA OwnSession ==
  ASSUME Tied, NEW c \in Calls, NEW d \in Calls, c # d, InUse(c), InUse(d)
  PROVE  /\ conn[c] \in Sessions /\ conn[d] \in Sessions
         /\ conn[c] # conn[d]
BY DEF Tied, Connections, Linked

(* A read is over, or its caller has gone: its connection goes back. *)
LEMMA LettingGo ==
  ASSUME Tied, NEW c \in Calls, InUse(c), ~InUse(c)', HangUp(c),
         owner' = [owner EXCEPT ![conn[c]] = None], UNCHANGED sessions,
         \A d \in Calls : d # c =>
           at'[d] = at[d] /\ call'[d] = call[d] /\ pool'[d] = pool[d]
  PROVE  Connections'
<1>1. /\ conn \in [Calls -> Sessions \cup {None}]
      /\ owner \in [Sessions -> Nat \cup {None}]
      /\ \A d \in Calls : Linked(d)
  BY DEF Tied, Connections
<1>2. /\ conn' \in [Calls -> Sessions \cup {None}]
      /\ owner' \in [Sessions -> Nat \cup {None}]
      /\ conn'[c] = None
      /\ \A d \in Calls : d # c => conn'[d] = conn[d]
  BY <1>1 DEF HangUp
<1>3. Linked(c)'
  BY <1>2 DEF Linked
<1>4. ASSUME NEW d \in Calls, d # c
      PROVE  Linked(d)'
  <2>1. InUse(d) => owner'[conn[d]] = owner[conn[d]]
    BY <1>1, <1>4, OwnSession
  <2> QED
    BY <1>1, <1>2, <1>4, <2>1, LinkedOn DEF sessions
<1>5. \A d \in Calls : InUse(d)' => InUse(d) /\ conn'[d] = conn[d]
  BY <1>2 DEF InUse
<1> QED
  BY <1>2, <1>3, <1>4, <1>5, ConnectionsOn DEF Tied

(* A statement of a read: its connection goes back at once. *)
LEMMA ReadConnects ==
  ASSUME Tied, NEW c \in Calls, Read(c)
  PROVE  Connections'
<1>1. at \in [Calls -> Stages]
  BY DEF Tied, Shown, TypeOK
<1>2. /\ at[c] = "store" /\ UNCHANGED <<call, pool>>
      /\ at'[c] \in {"return", "connection"}
      /\ \A d \in Calls : d # c => at'[d] = at[d]
  BY <1>1 DEF Read, RunRead, StoreRefuses, Tell, Wait
<1> QED
  BY <1>2, LettingGo DEF Read, InUse

(* A step of a session at work leaves the other calls' sessions. *)
LEMMA OthersStay ==
  ASSUME Tied, NEW c \in Calls, InUse(c), IsCommand(c),
         Store!Step(conn[c]) \/ Store!Abort(conn[c])
  PROVE  /\ request' = request
         /\ \A d \in Calls : d # c /\ InUse(d) => pc'[conn[d]] = pc[conn[d]]
<1>1. conn[c] \in Sessions /\ pc[conn[c]] \in Engine!Working
  BY DEF Tied, Connections, Linked
<1>2. /\ request' = request
      /\ \A t \in Sessions : t # conn[c] => pc'[t] = pc[t]
  BY <1>1, SessionSteps DEF Tied
<1> QED
  BY <1>2, OwnSession

(* A command keeps its session until its caller is told. *)
LEMMA CommandConnects ==
  ASSUME Tied, NEW c \in Calls, Command(c) \/ CommandFails(c)
  PROVE  Connections'
<1> DEFINE s == conn[c]
<1>1. /\ at[c] = "store" /\ IsCommand(c) /\ InUse(c)
      /\ Store!Step(s) \/ Store!Abort(s)
      /\ Hear(c, s)
  BY DEF Command, CommandFails, InStore, InUse
<1>2. /\ s \in Sessions /\ pc[s] \in Engine!Working
      /\ request[s] = Scoped(call[c])
      /\ pool[c] # None => owner[s] = pool[c]
  BY <1>1 DEF Tied, Connections, Linked
<1>3. pc'[s] \in Engine!Working \/ pc'[s] \in {"rollback", "done"}
  BY <1>1, <1>2, SessionSteps DEF Tied
<1>4. /\ request' = request
      /\ \A d \in Calls : d # c /\ InUse(d) => pc'[conn[d]] = pc[conn[d]]
  BY <1>1, OthersStay
<1>5. at \in [Calls -> Stages] /\ conn \in [Calls -> Sessions \cup {None}]
  BY DEF Tied, Shown, TypeOK, Connections
<1>6. UNCHANGED <<call, pool, owner>>
  BY <1>1 DEF Hear, plugin
<1>7. CASE pc'[s] \in Engine!Working
  <2>1. UNCHANGED <<at, conn>>
    BY <1>1, <1>7 DEF Hear, Engine!Working
  <2>2. Linked(c)'
    BY <1>1, <1>2, <1>4, <1>6, <1>7, <2>1 DEF Linked, InUse, IsCommand, Scoped
  <2> QED
    BY <1>1, <1>4, <1>6, <2>1, <2>2, OneCallOn
<1>8. CASE pc'[s] \in {"rollback", "done"}
  <2>1. HangUp(c) /\ at' = [at EXCEPT ![c] = "return"]
    BY <1>1, <1>8 DEF Hear, Tell, Wait
  <2>2. ~InUse(c)' /\ conn'[c] = None
    BY <1>5, <2>1 DEF InUse, HangUp
  <2>3. Linked(c)'
    BY <2>2 DEF Linked
  <2>4. \A d \in Calls : d # c => at'[d] = at[d]
    BY <1>5, <2>1
  <2> QED
    BY <1>1, <1>4, <1>6, <2>1, <2>2, <2>3, <2>4, OneCallOn DEF HangUp
<1> QED
  BY <1>3, <1>7, <1>8

(* What is dropped has no call any more. *)
LEMMA DroppingConnects ==
  ASSUME Tied, NEW c \in Calls, DropAbandoned(c)
  PROVE  Connections'
<1>1. /\ InUse(c) /\ IsCommand(c)
      /\ Store!Step(conn[c]) \/ Store!Abort(conn[c])
  BY DEF DropAbandoned, InUse, Tied, Connections, Linked, Store!Step
<1>2. /\ request' = request
      /\ \A d \in Calls : d # c /\ InUse(d) => pc'[conn[d]] = pc[conn[d]]
  BY <1>1, OthersStay
<1>3. /\ at'[c] = "idle"
      /\ \A d \in Calls : d # c =>
           at'[d] = at[d] /\ call'[d] = call[d] /\ pool'[d] = pool[d]
      /\ UNCHANGED owner /\ HangUp(c)
  BY DEF DropAbandoned, Forget, Tied, Shown, TypeOK
<1>4. ~InUse(c)' /\ conn'[c] = None
  BY <1>3 DEF InUse, HangUp, Tied, Connections
<1>5. Linked(c)'
  BY <1>4 DEF Linked
<1> QED
  BY <1>2, <1>3, <1>4, <1>5, OneCallOn DEF HangUp

(* A caller that goes leaves a command its session, a read nothing. *)
LEMMA GoingConnects ==
  ASSUME Tied, NEW c \in Calls, GoAway(c)
  PROVE  Connections'
<1>1. /\ at[c] \notin {"idle", "abandoned"}
      /\ at'[c] = IF UnderWay(c) THEN "abandoned" ELSE "idle"
      /\ UnderWay(c) => call'[c] = call[c] /\ pool'[c] = pool[c]
      /\ \A d \in Calls : d # c =>
           at'[d] = at[d] /\ call'[d] = call[d] /\ pool'[d] = pool[d]
      /\ UNCHANGED sessions
  BY DEF GoAway, Leave, Forget, Tied, Shown, TypeOK
<1>2. UnderWay(c) <=> at[c] = "store" /\ IsCommand(c)
  BY <1>1 DEF UnderWay, IsCommand
<1>3. CASE at[c] = "store" /\ IsCommand(c)
  <2>1. /\ InUse(c) /\ at'[c] = "abandoned" /\ UNCHANGED <<owner, conn>>
        /\ call'[c] = call[c] /\ pool'[c] = pool[c]
    BY <1>1, <1>2, <1>3 DEF GoAway, InUse
  <2>2. Linked(c)
    BY DEF Tied, Connections
  <2>3. Linked(c)'
    BY <1>1, <1>3, <2>1, <2>2 DEF Linked, InUse, IsCommand, Scoped, sessions
  <2> QED
    BY <1>1, <2>1, <2>3, OneCallOn DEF sessions
<1>4. CASE at[c] = "store" /\ ~IsCommand(c)
  BY <1>1, <1>2, <1>4, LettingGo DEF GoAway, InUse
<1>5. CASE at[c] # "store"
  BY <1>1, <1>2, <1>5, AloneOn DEF GoAway, InUse
<1> QED
  BY <1>3, <1>4, <1>5

(* The connection that is given back is no call's. *)
LEMMA GivingConnects ==
  ASSUME Tied, NEW s \in Sessions, GiveBack(s)
  PROVE  Connections'
<1>1. pc[s] \in {"rollback", "done"} /\ UNCHANGED <<calls, conn>>
  BY DEF GiveBack, Store!Rollback, Store!End
<1>2. /\ request \in [Sessions -> Requests \cup {None}]
      /\ pc \in [Sessions -> Engine!Points]
      /\ owner \in [Sessions -> Nat \cup {None}]
      /\ conn \in [Calls -> Sessions \cup {None}]
      /\ \A d \in Calls : Linked(d)
  BY DEF Tied, Engine!Sound, Engine!TypeOK, Connections
<1>3. /\ owner' \in [Sessions -> Nat \cup {None}]
      /\ \A t \in Sessions : t # s =>
           owner'[t] = owner[t] /\ request'[t] = request[t] /\ pc'[t] = pc[t]
  BY <1>2 DEF GiveBack, Store!Rollback, Store!End, Store!Goto
<1>4. ASSUME NEW d \in Calls, InUse(d)
      PROVE  conn[d] \in Sessions /\ conn[d] # s
  BY <1>1, <1>2, <1>4 DEF Linked, Engine!Working
<1>5. \A d \in Calls : Linked(d)'
  BY <1>1, <1>2, <1>3, <1>4, LinkedOn DEF calls
<1>6. \A d \in Calls : InUse(d)' => InUse(d) /\ conn'[d] = conn[d]
  BY <1>1 DEF calls, InUse
<1> QED
  BY <1>1, <1>2, <1>3, <1>5, <1>6, ConnectionsOn DEF Tied

(* The transactions of a dead process keep their sessions. *)
LEMMA DyingConnects ==
  ASSUME Tied, Die
  PROVE  Connections'
<1>1. /\ conn \in [Calls -> Sessions \cup {None}]
      /\ \A d \in Calls : Linked(d)
  BY DEF Tied, Connections
<1>2. /\ conn' \in [Calls -> Sessions \cup {None}]
      /\ owner' \in [Sessions -> Nat \cup {None}]
  BY <1>1 DEF Die
<1>3. ASSUME NEW d \in Calls
      PROVE  Linked(d)' /\ (InUse(d)' => InUse(d) /\ conn'[d] = conn[d])
  <2>1. /\ at'[d] = IF UnderWay(d) THEN "abandoned" ELSE "idle"
        /\ UnderWay(d) => call'[d] = call[d]
        /\ pool'[d] = None /\ UNCHANGED sessions
        /\ conn'[d] = IF UnderWay(d) THEN conn[d] ELSE None
    BY DEF Die, Crash, Forget
  <2>2. UnderWay(d) => InUse(d) /\ IsCommand(d)
    BY DEF UnderWay, InUse, IsCommand
  <2>3. CASE UnderWay(d)
    BY <1>1, <2>1, <2>2, <2>3 DEF Linked, InUse, IsCommand, Scoped, sessions
  <2>4. CASE ~UnderWay(d)
    BY <2>1, <2>4 DEF Linked, InUse
  <2> QED
    BY <2>3, <2>4
<1> QED
  BY <1>2, <1>3, ConnectionsOn DEF Tied

(* What happens beside the calls leaves them their connections. *)
LEMMA AsideConnects ==
  ASSUME Tied, Runtime \/ Elsewhere \/ Close \/ UNCHANGED allVars
  PROVE  Connections'
<1>1. UNCHANGED <<at, call, pool, sessions, owner, conn>>
  BY DEF Runtime, BeginActivation, ActivationFails, Activate, Deactivate,
     Elsewhere, ChangeMembership, ChangeGrant, Close, CloseWhen,
     allVars, vars, calls, plugin
<1>2. \A d \in Calls : Linked(d)'
  BY <1>1, LinkedOn DEF Tied, Connections, sessions
<1> QED
  BY <1>1, <1>2, ConnectionsOn DEF Tied, Connections, InUse

(* Every step keeps the calls and their sessions together. *)
LEMMA NextConnects ==
  ASSUME Tied, [ComposedNext]_allVars
  PROVE  Connections'
BY ApproachConnects, TakingConnects, ReadConnects, CommandConnects,
   GoingConnects, DroppingConnects, GivingConnects, AsideConnects,
   DyingConnects DEF ComposedNext, PluginNext

-----------------------------------------------------------------------------
(* The composition *)

(* In the beginning nothing is in use. *)
LEMMA InitTied == ComposedInit => Tied
<1> SUFFICES ASSUME ComposedInit
             PROVE  Tied
  OBVIOUS
<1>1. Init /\ Store!Init
  BY DEF ComposedInit
<1>2. Shown
  BY <1>1, InitShown
<1>3. Engine!Sound
  BY <1>1, EngineInit
<1>4. Connections
  BY <1>1 DEF ComposedInit, Init, Connections, Linked, InUse
<1>5. Seen
  BY <1>1 DEF Init, Seen
<1> QED
  BY <1>2, <1>3, <1>4, <1>5 DEF Tied

(* The two refinements need each other's invariant: the calls rely on what *)
(* the sessions answer, the sessions on the requests that calls make.      *)
LEMMA NextTied ==
  ASSUME Tied, [ComposedNext]_allVars
  PROVE  Tied'
<1>1. Shown'
  BY CallMoves, NextShows DEF Tied
<1>2. Engine!Sound'
  BY SessionMoves, EngineNext DEF Tied
<1>3. Connections'
  BY NextConnects
<1>4. Seen'
  <2>1. ASSUME UNCHANGED vars
        PROVE  Seen'
    BY <2>1 DEF Tied, Seen, vars, calls, services, Holding, IsMember, IsPermitted
  <2>2. ASSUME Next
        PROVE  Observe
    BY <2>2 DEF Next, Run, Invoke, InvokeWith, CheckMembership, CheckAccess,
       Connect, RunCommand, RunRead, Leave, EndAbandoned, MembershipReplies,
       AccessReplies, ServiceFails, Reply, ChangeMembership, ChangeGrant,
       BeginActivation, ActivationFails, Activate, Deactivate, Closed, Crash
  <2> QED
    BY <2>1, <2>2, CallMoves, ObserveSees
<1> QED
  BY <1>1, <1>2, <1>3, <1>4 DEF Tied

(* The invariant that both refinements rest on. *)
LEMMA Tying == ComposedSpec => []Tied
BY InitTied, NextTied, PTL DEF ComposedSpec

(* The handlers use the sessions of the database as PortfolioStore has     *)
(* them used: one request after the other on each, and begun anew only     *)
(* when the one before has ended, whoever has gone meanwhile.              *)
THEOREM Underneath == ComposedSpec => Store!Spec
<1>1. ComposedInit => Store!Init
  BY DEF ComposedInit
<1>2. Tied /\ [ComposedNext]_allVars => [Store!Next]_(Store!vars)
  BY SessionMoves
<1> QED
  BY <1>1, <1>2, Tying, PTL DEF ComposedSpec, Store!Spec

(* What the handlers do over transactions that interleave, wait, fail,     *)
(* roll back late and are left behind is what PluginCall has them do over  *)
(* commands of one step.                                                   *)
THEOREM Calling == ComposedSpec => CallSpec
<1>1. ComposedInit => Init
  BY DEF ComposedInit
<1>2. Tied /\ [ComposedNext]_allVars => [Next]_vars
  BY CallMoves
<1> QED
  BY <1>1, <1>2, Tying, PTL DEF ComposedSpec, CallSpec, Spec

(* So the properties of the calls hold over interleaved transactions: only *)
(* the authorized reach the store or learn of it, a failure keeps its      *)
(* name, no call is in the store of an activation that has ended, and the  *)
(* tables are correct.                                                     *)
THEOREM CallsOverStore ==
  ComposedSpec => [](/\ OnlyTheAuthorized /\ FailuresKeepTheirNames
                     /\ NoStoreAfterDeactivation /\ Correct)
<1>1. ComposedSpec => Spec
  BY Calling DEF CallSpec
<1> QED
  BY <1>1, Authorization, Naming, Ending, Serving, PTL

(* So the theorems of the transactions may be used. *)
LEMMA Underlying == ComposedSpec => Engine!Spec
<1>1. Store!Init => Engine!Init
  BY SameTables
<1>2. [Store!Next]_(Store!vars) => [Engine!Next]_(Engine!vars)
  BY SameNext DEF Engine!vars, Store!vars
<1> QED
  BY <1>1, <1>2, Underneath, PTL DEF Store!Spec, Engine!Spec

(* And those of the transactions hold under the handlers: nothing staged   *)
(* is stale, an answer on its way is what the receipt has, and a refusal   *)
(* is one that the tables gave a reason for.                               *)
THEOREM StoreUnderCalls ==
  ComposedSpec => [](/\ Engine!StagedIsCurrent /\ Engine!AnswersAreReceipts
                     /\ Engine!RefusalsAreTrue)
<1>1. Engine!Spec => /\ []Engine!StagedIsCurrent /\ []Engine!AnswersAreReceipts
                     /\ []Engine!RefusalsAreTrue
  BY Assumed, Engine!NothingStale, Engine!Answering, Engine!Honesty
<1> QED
  BY <1>1, Underlying, PTL

(* What calls do to the tables, however their transactions interleave, is  *)
(* what one command after the other does.                                  *)
THEOREM Serializing == ComposedSpec => Engine!LedgerSpec
<1>1. Engine!Spec => Engine!LedgerSpec
  BY Assumed, Engine!Refinement
<1> QED
  BY <1>1, Underlying, PTL

-----------------------------------------------------------------------------
(* The connections of a pool *)

(* A connection is taken from the pool that is open, which is that of the  *)
(* activation that lasts; it is none of a pool that close() has waited for. *)
LEMMA NextOwned ==
  ASSUME Tied, ConnectionsEndWithTheirPool, [ComposedNext]_allVars
  PROVE  ConnectionsEndWithTheirPool'
<1>1. /\ activation \in Nat
      /\ open = IF prepared = None THEN {} ELSE {prepared}
      /\ prepared = IF lifecycle = "active" THEN activation ELSE None
      /\ owner \in [Sessions -> Nat \cup {None}]
      /\ conn \in [Calls -> Sessions \cup {None}]
  BY DEF Tied, Shown, TypeOK, Connections
<1>2. ASSUME UNCHANGED plugin,
             \A s \in Sessions : owner'[s] \in {owner[s], None}
      PROVE  ConnectionsEndWithTheirPool'
  BY <1>2 DEF ConnectionsEndWithTheirPool, plugin
<1>3. ASSUME NEW c \in Calls, Approach(c)
      PROVE  ConnectionsEndWithTheirPool'
  BY <1>2, <1>3 DEF Approach, Invoke, InvokeWith, CheckMembership, CheckAccess,
     MembershipReplies, AccessReplies, ServiceFails, Reply
<1>4. ASSUME NEW c \in Calls, TakeConnection(c)
      PROVE  ConnectionsEndWithTheirPool'
  <2>1. UNCHANGED plugin
    BY <1>4 DEF TakeConnection, Connect
  <2>2. CASE at'[c] # "store"
    BY <1>2, <1>4, <2>1, <2>2 DEF TakeConnection
  <2>3. CASE at'[c] = "store"
    <3>1. PICK s \in Sessions : owner' = [owner EXCEPT ![s] = pool[c]]
      BY <1>4, <2>3 DEF TakeConnection
    <3>2. pool[c] \in open
      BY <1>4, <2>3 DEF TakeConnection, Connect, Tell, Wait, Tied, Shown, TypeOK
    <3>3. pool[c] = activation /\ lifecycle = "active"
      BY <1>1, <3>2
    <3> QED
      BY <1>1, <2>1, <3>1, <3>3 DEF ConnectionsEndWithTheirPool, plugin
  <2> QED
    BY <2>2, <2>3
<1>5. ASSUME NEW c \in Calls,
             Read(c) \/ Command(c) \/ CommandFails(c) \/ GoAway(c) \/ DropAbandoned(c)
      PROVE  ConnectionsEndWithTheirPool'
  <2>1. UNCHANGED plugin
    BY <1>5 DEF Read, RunRead, Command, CommandFails, Hear, GoAway, Leave, DropAbandoned
  <2>2. owner' = owner \/ owner' = [owner EXCEPT ![conn[c]] = None]
    BY <1>5 DEF Read, Command, CommandFails, Hear, GoAway, DropAbandoned
  <2> QED
    BY <1>1, <1>2, <2>1, <2>2
<1>6. ASSUME NEW s \in Sessions, GiveBack(s)
      PROVE  ConnectionsEndWithTheirPool'
  BY <1>1, <1>2, <1>6 DEF GiveBack
<1>7. ASSUME Runtime
      PROVE  ConnectionsEndWithTheirPool'
  BY <1>7 DEF Runtime, BeginActivation, ActivationFails, Activate, Deactivate,
     ConnectionsEndWithTheirPool
<1>8. ASSUME Close
      PROVE  ConnectionsEndWithTheirPool'
  BY <1>8 DEF Close, CloseWhen, ConnectionsEndWithTheirPool
<1>9. ASSUME Die
      PROVE  ConnectionsEndWithTheirPool'
  BY <1>9 DEF Die, ConnectionsEndWithTheirPool
<1>10. ASSUME Elsewhere \/ UNCHANGED allVars
       PROVE  ConnectionsEndWithTheirPool'
  BY <1>2, <1>10 DEF Elsewhere, ChangeMembership, ChangeGrant, allVars, vars
<1> QED
  BY <1>3, <1>4, <1>5, <1>6, <1>7, <1>8, <1>9, <1>10 DEF ComposedNext, PluginNext

(* Once deactivate has returned, no connection of its pool is out, be it   *)
(* that of a command that was refused and has yet to roll back.            *)
THEOREM PoolsEnd == ComposedSpec => []ConnectionsEndWithTheirPool
<1>1. ComposedInit => ConnectionsEndWithTheirPool
  BY DEF ComposedInit, ConnectionsEndWithTheirPool
<1> QED
  BY <1>1, NextOwned, Tying, PTL DEF ComposedSpec

=============================================================================
