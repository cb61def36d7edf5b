------------------------ MODULE PortfolioStoreProofs --------------------------
(* Proofs that the transactions of PortfolioStore keep the two-phase       *)
(* discipline, and therefore implement the one-step commands of            *)
(* PortfolioLedger, for any number of sessions and every choice of the     *)
(* other constants.                                                        *)
EXTENDS PortfolioStore, PortfolioTablesProofs

-----------------------------------------------------------------------------
(* Steps that leave the tables alone *)

(* A step of s is about s. *)
Local(s) ==
  \A t \in Sessions :
    t # s => /\ pc'[t] = pc[t]
             /\ request'[t] = request[t]
             /\ held'[t] = held[t]
             /\ staged'[t] = staged[t]
             /\ answer'[t] = answer[t]

(* The locks that s gains are free. *)
Gains(s) == \A lock \in held'[s] : lock \in held[s] \/ Free(s, lock)

(* Gaining free locks keeps the locks exclusive. *)
LEMMA ExclusiveFrame ==
  ASSUME LocksAreExclusive, NEW s \in Sessions, Local(s), Gains(s)
  PROVE  LocksAreExclusive'
BY DEF LocksAreExclusive, Local, Gains, Free

(* A step that leaves the tables alone keeps what the others rely on. *)
LEMMA LocalFrame ==
  ASSUME TwoPhase, NEW s \in Sessions, Local(s), Gains(s),
         UNCHANGED tables, Disciplined(s)'
  PROVE  TwoPhase'
<1>1. ASSUME NEW t \in Sessions, t # s
      PROVE  Disciplined(t)'
  <2>1. /\ pc'[t] = pc[t]
        /\ request'[t] = request[t]
        /\ held'[t] = held[t]
        /\ staged'[t] = staged[t]
        /\ answer'[t] = answer[t]
    BY <1>1 DEF Local
  <2>2. /\ initiatives' = initiatives
        /\ projects' = projects
        /\ updates' = updates
        /\ receipts' = receipts
    BY DEF tables
  <2>3. Disciplined(t)
    BY DEF TwoPhase
  <2> QED
    BY <2>1, <2>2, <2>3 DEF Disciplined, Refusal, TakenUpdate
<1> QED
  BY <1>1, ExclusiveFrame DEF TwoPhase

(* The tables stay well formed if they stay. *)
LEMMA TablesFrame ==
  ASSUME TypeOK, UNCHANGED tables
  PROVE  TablesOK'
BY DEF TypeOK, TablesOK, tables

(* The locks of a request are locks. *)
LEMMA LocksTyped ==
  ASSUME NEW r \in Requests
  PROVE  /\ ReceiptLock(r) \in Locks
         /\ InitiativeLock(r) \in Locks
         /\ r.op = "add_initiative_update" => UpdateLock(r) \in Locks
BY RequestShape, RequestFields, OrganizationsOwnInitiatives
DEF ReceiptLock, InitiativeLock, UpdateLock, Locks, AddUpdateRequest

(* A session that is not idle runs a request. *)
LEMMA Running ==
  ASSUME TypeOK, TwoPhase, NEW s \in Sessions, pc[s] # "idle"
  PROVE  request[s] \in Requests
BY DEF TypeOK, TwoPhase, Disciplined

(* Every refusal of an operation is a domain failure. *)
LEMMA RefusalsTyped ==
  ASSUME NEW r, NEW row, NEW members, NEW update, NEW receipt
  PROVE  /\ LockRefusal(r, row) \in Failures \cup {None}
         /\ WriteRefusal(r, row, members, update) \in Failures \cup {None}
         /\ ReceiptRefusal(r, receipt) \in Failures \cup {None}
<1>1. LockRefusal(r, row) \in Failures \cup {None}
  BY DEF LockRefusal, Failures
<1>2. ReceiptRefusal(r, receipt) \in Failures \cup {None}
  BY DEF ReceiptRefusal, Failures
<1>3. /\ AttachRefusal(r, members) \in Failures \cup {None}
      /\ SnapshotRefusal(r, members) \in Failures \cup {None}
      /\ DetachRefusal(r, members) \in Failures \cup {None}
      /\ ReorderRefusal(r, members) \in Failures \cup {None}
  BY DEF AttachRefusal, SnapshotRefusal, DetachRefusal, ReorderRefusal, Failures
<1>4. WriteRefusal(r, row, members, update) \in Failures \cup {None}
  BY <1>3 DEF WriteRefusal, Failures
<1> QED
  BY <1>1, <1>2, <1>4

(* A refused request ends its transaction; it may keep the locks it has.   *)
LEMMA RefuseKeeps ==
  ASSUME TypeOK, TwoPhase, NEW s \in Sessions, pc[s] # "idle",
         NEW why \in Failures \cup {Internal},
         Refuse(s, why), UNCHANGED tables,
         held' \in [Sessions -> SUBSET Locks],
         \A t \in Sessions : t # s => held'[t] = held[t],
         Gains(s)
  PROVE  TypeOK' /\ TwoPhase'
<1>1. TypeOK'
  BY TablesFrame DEF TypeOK, Refuse, Goto, Points
<1>2. Local(s)
  BY DEF Local, Refuse, Goto, TypeOK
<1>3. Disciplined(s)'
  <2>1. pc'[s] = "rollback" /\ answer'[s] = None /\ request' = request
    BY DEF Refuse, Goto, TypeOK
  <2> QED
    BY <2>1, Running, NoneIsNoValue DEF Disciplined
<1> QED
  BY <1>1, <1>2, <1>3, LocalFrame

-----------------------------------------------------------------------------
(* Admission *)

(* A request begins with no lock. *)
LEMMA BeginKeeps ==
  ASSUME TypeOK, TwoPhase, NEW s \in Sessions, NEW r \in Requests, BeginWith(s, r)
  PROVE  TypeOK' /\ TwoPhase'
<1>1. TypeOK'
  BY TablesFrame DEF TypeOK, BeginWith, Goto, Points
<1>2. Local(s) /\ Gains(s)
  BY DEF Local, Gains, BeginWith, Goto, TypeOK
<1>3. Disciplined(s)'
  <2>1. pc'[s] = "admit" /\ request'[s] \in Requests
    BY DEF BeginWith, Goto, TypeOK
  <2> QED
    BY <2>1, NoneIsNoValue DEF Disciplined
<1> QED
  BY <1>1, <1>2, <1>3, LocalFrame DEF BeginWith

(* A key without a committed receipt goes on to its INSERT. *)
LEMMA AdmitNewKeeps ==
  ASSUME TypeOK, TwoPhase, NEW s \in Sessions, AdmitNew(s)
  PROVE  TypeOK' /\ TwoPhase'
<1>1. TypeOK'
  BY TablesFrame DEF TypeOK, AdmitNew, Goto, Points
<1>2. Local(s) /\ Gains(s)
  BY DEF Local, Gains, AdmitNew, Goto, TypeOK
<1>3. Disciplined(s)'
  <2>1. pc'[s] = "reserve" /\ request'[s] \in Requests
    BY Running DEF AdmitNew, Goto, TypeOK
  <2> QED
    BY <2>1, NoneIsNoValue DEF Disciplined
<1> QED
  BY <1>1, <1>2, <1>3, LocalFrame DEF AdmitNew

(* A replay answers with the receipt that it has locked. *)
LEMMA AdmitReplayKeeps ==
  ASSUME TypeOK, TwoPhase, NEW s \in Sessions, AdmitReplay(s)
  PROVE  TypeOK' /\ TwoPhase'
<1> DEFINE r == request[s]
           receipt == receipts[KeyOf(r)]
<1>1. /\ r \in Requests
      /\ KeyOf(r) \in ReceiptKeys
      /\ ReceiptLock(r) \in Locks
  BY Running, RequestShape, LocksTyped DEF AdmitReplay
<1>2. receipt \in Receipt
  BY <1>1 DEF AdmitReplay, TypeOK, TablesOK
<1>3. /\ receipt.hash = r
      /\ receipt = [hash |-> r, response |-> receipt.response]
      /\ receipt.response \in Response
  BY <1>2, NoneIsNoValue DEF AdmitReplay, ReceiptRefusal, Receipt, Failures
<1>4. TypeOK'
  BY <1>1, <1>3, TablesFrame DEF TypeOK, AdmitReplay, Acquire, Goto, Points
<1>5. Local(s) /\ Gains(s)
  BY DEF Local, Gains, AdmitReplay, Acquire, Goto, TypeOK
<1>6. Disciplined(s)'
  <2>1. /\ pc'[s] = "replay"
        /\ request'[s] = r
        /\ answer'[s] = receipt.response
        /\ receipts' = receipts
    BY DEF AdmitReplay, Goto, TypeOK, tables
  <2> QED
    BY <1>1, <1>3, <2>1, NoneIsNoValue DEF Disciplined
<1> QED
  BY <1>4, <1>5, <1>6, LocalFrame DEF AdmitReplay

(* Another request under the key is refused. *)
LEMMA AdmitRefusedKeeps ==
  ASSUME TypeOK, TwoPhase, NEW s \in Sessions, AdmitRefused(s)
  PROVE  TypeOK' /\ TwoPhase'
<1> DEFINE r == request[s]
           why == ReceiptRefusal(r, receipts[KeyOf(r)])
<1>1. r \in Requests /\ ReceiptLock(r) \in Locks
  BY Running, LocksTyped DEF AdmitRefused
<1>2. why \in Failures \cup {Internal} /\ Refuse(s, why)
  BY RefusalsTyped DEF AdmitRefused
<1>3. /\ held' \in [Sessions -> SUBSET Locks]
      /\ \A t \in Sessions : t # s => held'[t] = held[t]
      /\ Gains(s)
  BY <1>1 DEF AdmitRefused, Acquire, TypeOK, Gains
<1> QED
  BY <1>2, <1>3, RefuseKeeps DEF AdmitRefused

(* The INSERT of the receipt owns the key from here to the end. *)
LEMMA ReserveKeeps ==
  ASSUME TypeOK, TwoPhase, NEW s \in Sessions, Reserve(s)
  PROVE  TypeOK' /\ TwoPhase'
<1> DEFINE r == request[s]
<1>1. r \in Requests /\ ReceiptLock(r) \in Locks
  BY Running, LocksTyped DEF Reserve
<1>2. TypeOK'
  BY <1>1, TablesFrame DEF TypeOK, Reserve, Acquire, Goto, Points
<1>3. Local(s) /\ Gains(s)
  BY DEF Local, Gains, Reserve, Acquire, Goto, TypeOK
<1>4. Disciplined(s)'
  <2>1. /\ pc'[s] = IF Locking(r) THEN "lock" ELSE "write"
        /\ request'[s] = r
        /\ ReceiptLock(r) \in held'[s]
        /\ receipts' = receipts
        /\ receipts[KeyOf(r)] = None
    BY DEF Reserve, Acquire, Goto, TypeOK, tables
  <2> QED
    BY <1>1, <2>1, NoneIsNoValue DEF Disciplined
<1> QED
  BY <1>2, <1>3, <1>4, LocalFrame DEF Reserve

(* The INSERT meets a receipt committed since the SELECT. *)
LEMMA ReserveRefusedKeeps ==
  ASSUME TypeOK, TwoPhase, NEW s \in Sessions, ReserveRefused(s)
  PROVE  TypeOK' /\ TwoPhase'
<1>1. /\ "OperationInProgress" \in Failures \cup {Internal}
      /\ Refuse(s, "OperationInProgress")
      /\ Gains(s)
  BY DEF ReserveRefused, Failures, Gains
<1> QED
  BY <1>1, RefuseKeeps DEF ReserveRefused, TypeOK

-----------------------------------------------------------------------------
(* lock_initiative *)

(* No row: nothing to lock. *)
LEMMA LockMissingKeeps ==
  ASSUME TypeOK, TwoPhase, NEW s \in Sessions, LockMissing(s)
  PROVE  TypeOK' /\ TwoPhase'
<1>1. /\ "NotFound" \in Failures \cup {Internal}
      /\ Refuse(s, "NotFound")
      /\ Gains(s)
  BY DEF LockMissing, Failures, Gains
<1> QED
  BY <1>1, RefuseKeeps DEF LockMissing, TypeOK

(* The locked row is the one that was checked. *)
LEMMA LockKeeps ==
  ASSUME TypeOK, TwoPhase, NEW s \in Sessions, Lock(s)
  PROVE  TypeOK' /\ TwoPhase'
<1> DEFINE r == request[s]
           why == LockRefusal(r, initiatives[r.initiative])
<1>1. r \in Requests /\ InitiativeLock(r) \in Locks
  BY Running, LocksTyped DEF Lock
<1>2. /\ held' \in [Sessions -> SUBSET Locks]
      /\ \A t \in Sessions : t # s => held'[t] = held[t]
      /\ held'[s] = held[s] \cup {InitiativeLock(r)}
      /\ Gains(s)
  BY <1>1 DEF Lock, Acquire, TypeOK, Gains
<1>3. CASE why # None
  <2>1. why \in Failures \cup {Internal} /\ Refuse(s, why)
    BY <1>3, RefusalsTyped DEF Lock
  <2> QED
    BY <1>2, <2>1, RefuseKeeps DEF Lock
<1>4. CASE why = None
  <2>1. /\ pc' = [pc EXCEPT ![s] = "write"]
        /\ UNCHANGED <<request, staged, answer, failure, tables>>
    BY <1>4 DEF Lock, Goto
  <2>2. TypeOK'
    BY <1>2, <2>1, TablesFrame DEF TypeOK, Points
  <2>3. Local(s)
    BY <1>2, <2>1 DEF Local, TypeOK
  <2>4. Disciplined(s)'
    <3>1. Disciplined(s) /\ pc[s] = "lock"
      BY DEF TwoPhase, Lock
    <3>2. ReceiptLock(r) \in held[s] /\ receipts[KeyOf(r)] = None
      BY <3>1 DEF Disciplined
    <3>3. /\ pc'[s] = "write"
          /\ request'[s] = r
          /\ receipts' = receipts
          /\ initiatives' = initiatives
      BY <2>1 DEF TypeOK, tables
    <3> QED
      BY <1>1, <1>2, <1>4, <3>2, <3>3, NoneIsNoValue DEF Disciplined
  <2> QED
    BY <1>2, <2>1, <2>2, <2>3, <2>4, LocalFrame
<1> QED
  BY <1>3, <1>4

-----------------------------------------------------------------------------
(* The statements of an operation *)

(* Where a verdict is passed, nothing refuses the request. *)
LEMMA VerdictPassed ==
  ASSUME TwoPhase, NEW s \in Sessions, pc[s] = "write", Verdict(s) = None
  PROVE  Refusal(request[s]) = None
<1> DEFINE r == request[s]
<1>1. r.op # "create_initiative" => LockRefusal(r, initiatives[r.initiative]) = None
  BY DEF TwoPhase, Disciplined, Locking
<1> QED
  BY <1>1 DEF Verdict, Refusal

(* What is staged under the locks is what the command does to the tables. *)
LEMMA StageKeeps ==
  ASSUME TypeOK, TwoPhase, NEW s \in Sessions, pc[s] \in {"write", "finish"},
         Stage(s), UNCHANGED <<tables, held>>,
         Refusal(request[s]) = None,
         InitiativeLock(request[s]) \in held[s],
         request[s].op = "add_initiative_update" =>
           UpdateLock(request[s]) \in held[s]
  PROVE  TypeOK' /\ TwoPhase'
<1> DEFINE r == request[s]
           row == initiatives[r.initiative]
           members == projects[r.initiative]
<1>1. r \in Requests /\ r.initiative \in Initiatives
  BY Running, RequestShape
<1>2. Disciplined(s)
  BY DEF TwoPhase
<1>3. ReceiptLock(r) \in held[s] /\ receipts[KeyOf(r)] = None
  BY <1>2 DEF Disciplined
<1>4. EffectOf(r, row, members) \in Effect
  BY <1>1, NotRefused DEF TypeOK
<1>5. TypeOK'
  BY <1>4, TablesFrame DEF TypeOK, Stage, Goto, Points
<1>6. Local(s) /\ Gains(s)
  BY DEF Local, Gains, Stage, Goto, TypeOK
<1>7. Disciplined(s)'
  <2>1. /\ pc'[s] = "commit"
        /\ request'[s] = r
        /\ staged'[s] = EffectOf(r, row, members)
    BY DEF Stage, Goto, TypeOK
  <2>2. /\ initiatives' = initiatives
        /\ projects' = projects
        /\ updates' = updates
        /\ receipts' = receipts
        /\ held' = held
    BY DEF tables
  <2>3. request' = request
    BY DEF Stage
  <2>4. Refusal(r)' = Refusal(r)
    BY <2>2, <2>3 DEF Refusal, TakenUpdate
  <2> QED
    BY <1>1, <1>3, <2>1, <2>2, <2>3, <2>4, NoneIsNoValue DEF Disciplined
<1> QED
  BY <1>5, <1>6, <1>7, LocalFrame

(* Under the initiative's lock: staged or refused. *)
LEMMA WriteLockedKeeps ==
  ASSUME TypeOK, TwoPhase, NEW s \in Sessions, pc[s] = "write",
         request[s].op \notin {"create_initiative", "add_initiative_update"},
         WriteLocked(s)
  PROVE  TypeOK' /\ TwoPhase'
<1>1. InitiativeLock(request[s]) \in held[s]
  BY DEF TwoPhase, Disciplined, Locking
<1>2. /\ held' = held
      /\ held' \in [Sessions -> SUBSET Locks]
      /\ Gains(s)
      /\ UNCHANGED tables
  BY DEF WriteLocked, TypeOK, Gains
<1>3. CASE Verdict(s) = None
  BY <1>1, <1>2, <1>3, VerdictPassed, StageKeeps DEF WriteLocked
<1>4. CASE Verdict(s) # None
  <2>1. Verdict(s) \in Failures \cup {Internal} /\ Refuse(s, Verdict(s))
    BY <1>4, RefusalsTyped DEF WriteLocked, Verdict
  <2> QED
    BY <1>2, <2>1, RefuseKeeps
<1> QED
  BY <1>3, <1>4

(* On a unique key: inserted with the key, or refused. *)
LEMMA WriteInsertingKeeps ==
  ASSUME TypeOK, TwoPhase, NEW s \in Sessions, pc[s] = "write",
         NEW lock \in Locks, WriteInserting(s, lock),
         InitiativeLock(request[s]) \in held[s] \cup {lock},
         request[s].op = "add_initiative_update" => UpdateLock(request[s]) = lock
  PROVE  TypeOK' /\ TwoPhase'
<1> DEFINE r == request[s]
<1>1. CASE Verdict(s) # None
  <2>1. /\ Verdict(s) \in Failures \cup {Internal}
        /\ Refuse(s, Verdict(s))
        /\ held' = held
        /\ UNCHANGED tables
    BY <1>1, RefusalsTyped DEF WriteInserting, Verdict
  <2> QED
    BY <2>1, RefuseKeeps DEF TypeOK, Gains
<1>2. CASE Verdict(s) = None
  <2>1. /\ Free(s, lock)
        /\ held' = [held EXCEPT ![s] = held[s] \cup {lock}]
        /\ pc' = [pc EXCEPT ![s] = "finish"]
        /\ UNCHANGED <<tables, request, staged, answer, failure>>
    BY <1>2 DEF WriteInserting, Acquire, Goto
  <2>2. /\ held' \in [Sessions -> SUBSET Locks]
        /\ \A t \in Sessions : t # s => held'[t] = held[t]
        /\ held'[s] = held[s] \cup {lock}
    BY <2>1 DEF TypeOK
  <2>3. TypeOK'
    BY <2>1, <2>2, TablesFrame DEF TypeOK, Points
  <2>4. Local(s) /\ Gains(s)
    BY <2>1, <2>2 DEF Local, Gains, TypeOK
  <2>5. Disciplined(s)'
    <3>1. /\ ReceiptLock(r) \in held[s]
          /\ receipts[KeyOf(r)] = None
          /\ r # None
      BY DEF TwoPhase, Disciplined
    <3>2. Refusal(r) = None
      BY <1>2, VerdictPassed
    <3>3. /\ pc'[s] = "finish"
          /\ request' = request
          /\ initiatives' = initiatives
          /\ projects' = projects
          /\ updates' = updates
          /\ receipts' = receipts
      BY <2>1 DEF TypeOK, tables
    <3>4. Refusal(r)' = Refusal(r)
      BY <3>3 DEF Refusal, TakenUpdate
    <3> QED
      BY <2>2, <3>1, <3>2, <3>3, <3>4 DEF Disciplined
  <2> QED
    BY <2>1, <2>3, <2>4, <2>5, LocalFrame
<1> QED
  BY <1>1, <1>2

(* What follows the INSERT finds everything as the INSERT left it. *)
LEMMA FinishKeeps ==
  ASSUME TypeOK, TwoPhase, NEW s \in Sessions, Finish(s)
  PROVE  TypeOK' /\ TwoPhase'
<1>1. Disciplined(s) /\ pc[s] = "finish"
  BY DEF TwoPhase, Finish
<1>2. /\ InitiativeLock(request[s]) \in held[s]
      /\ request[s].op = "add_initiative_update" =>
           UpdateLock(request[s]) \in held[s]
      /\ Refusal(request[s]) = None
  BY <1>1 DEF Disciplined
<1> QED
  BY <1>1, <1>2, StageKeeps DEF Finish

(* Every operation keeps the discipline. *)
LEMMA WriteKeeps ==
  ASSUME TypeOK, TwoPhase, NEW s \in Sessions, Write(s)
  PROVE  TypeOK' /\ TwoPhase'
<1>1. CASE CreateInitiative(s)
  <2>1. pc[s] = "write" /\ WriteInserting(s, InitiativeLock(request[s]))
    BY <1>1 DEF CreateInitiative, Writing
  <2>2. request[s].op # "add_initiative_update"
    BY <1>1 DEF CreateInitiative, Writing
  <2>3. InitiativeLock(request[s]) \in Locks
    BY <2>1, Running, LocksTyped
  <2> QED
    BY <2>1, <2>2, <2>3, WriteInsertingKeeps
<1>2. CASE AddUpdate(s)
  <2>1. /\ pc[s] = "write"
        /\ request[s].op = "add_initiative_update"
        /\ WriteInserting(s, UpdateLock(request[s]))
    BY <1>2 DEF AddUpdate, Writing
  <2>2. UpdateLock(request[s]) \in Locks
    BY <2>1, Running, LocksTyped
  <2>3. InitiativeLock(request[s]) \in held[s]
    BY <2>1 DEF TwoPhase, Disciplined, Locking
  <2> QED
    BY <2>1, <2>2, <2>3, WriteInsertingKeeps
<1>3. CASE \/ UpdateInitiative(s) \/ ArchiveInitiative(s) \/ AttachProject(s)
           \/ UpdateProjectSnapshot(s) \/ DetachProject(s) \/ ReorderProjects(s)
  <2>1. /\ pc[s] = "write"
        /\ request[s].op \notin {"create_initiative", "add_initiative_update"}
        /\ WriteLocked(s)
    BY <1>3 DEF UpdateInitiative, ArchiveInitiative, AttachProject,
                UpdateProjectSnapshot, DetachProject, ReorderProjects, Writing
  <2> QED
    BY <2>1, WriteLockedKeeps
<1> QED
  BY <1>1, <1>2, <1>3 DEF Write

-----------------------------------------------------------------------------
(* The end of a transaction *)

(* Because of the discipline, a commit is a command applied to the tables  *)
(* as they are when it commits.                                            *)
LEMMA CommitApplies ==
  ASSUME TypeOK, TwoPhase, NEW s \in Sessions, Commit(s)
  PROVE  request[s] \in Requests /\ Apply(request[s])
<1>1. request[s] \in Requests
  BY Running DEF Commit
<1>2. Disciplined(s)
  BY DEF TwoPhase
<1> QED
  BY <1>1, <1>2 DEF Commit, Disciplined, Apply

(* What a commit leaves of the tables. *)
LEMMA CommitTouches ==
  ASSUME TypeOK, TwoPhase, NEW s \in Sessions, Commit(s)
  PROVE  LET r == request[s]
         IN  /\ \A j \in Initiatives :
                  j # r.initiative => /\ initiatives'[j] = initiatives[j]
                                      /\ projects'[j] = projects[j]
             /\ \A k \in ReceiptKeys : k # KeyOf(r) => receipts'[k] = receipts[k]
             /\ \A o \in Organizations, u \in UpdateIds :
                  ~(/\ r.op = "add_initiative_update"
                    /\ o = OrganizationOf[r.initiative]
                    /\ u = r.update) => updates'[o][u] = updates[o][u]
             /\ receipts[KeyOf(r)] = None
             /\ receipts'[KeyOf(r)] = [hash |-> r, response |-> staged[s].response]
             /\ staged[s].response \in Response
<1> DEFINE r == request[s]
<1>1. /\ r \in Requests
      /\ r.initiative \in Initiatives
      /\ KeyOf(r) \in ReceiptKeys
      /\ OrganizationOf[r.initiative] \in Organizations
      /\ Apply(r)
  BY CommitApplies, RequestShape, OrganizationsOwnInitiatives
<1>2. /\ staged[s] = EffectOf(r, initiatives[r.initiative], projects[r.initiative])
      /\ Publish(r, staged[s])
      /\ receipts[KeyOf(r)] = None
      /\ TablesOK
  BY DEF TwoPhase, Disciplined, Commit, TypeOK
<1>3. staged[s] \in Effect
  BY <1>1, <1>2, NotRefused DEF Apply
<1>4. ASSUME NEW o \in Organizations, NEW u \in UpdateIds,
             ~(/\ r.op = "add_initiative_update"
               /\ o = OrganizationOf[r.initiative]
               /\ u = r.update)
      PROVE  updates'[o][u] = updates[o][u]
  <2>1. CASE r.op = "add_initiative_update"
    BY <1>1, <1>2, <1>4, <2>1 DEF Publish, TablesOK
  <2>2. CASE r.op # "add_initiative_update"
    <3>1. staged[s].update = None
      BY <1>2, <2>2 DEF EffectOf, UpdateAfter
    <3> QED
      BY <1>2, <3>1 DEF Publish
  <2> QED
    BY <2>1, <2>2
<1>5. /\ \A j \in Initiatives :
           j # r.initiative => /\ initiatives'[j] = initiatives[j]
                               /\ projects'[j] = projects[j]
      /\ \A k \in ReceiptKeys : k # KeyOf(r) => receipts'[k] = receipts[k]
      /\ receipts'[KeyOf(r)] = [hash |-> r, response |-> staged[s].response]
  BY <1>1, <1>2 DEF Publish, TablesOK
<1> QED
  BY <1>2, <1>3, <1>4, <1>5 DEF Effect

(* A commit does not touch what another session's locks guard. *)
LEMMA CommitSpares ==
  ASSUME TypeOK, TwoPhase, NEW s \in Sessions, Commit(s),
         NEW t \in Sessions, t # s
  PROVE  Disciplined(t)'
<1> DEFINE r == request[s]
           q == request[t]
           j == q.initiative
           o == OrganizationOf[j]
<1>1. /\ pc'[t] = pc[t]
      /\ request'[t] = q
      /\ held'[t] = held[t]
      /\ staged'[t] = staged[t]
      /\ answer'[t] = answer[t]
  BY DEF Commit, Goto, TypeOK
<1>2. /\ Disciplined(s)
      /\ Disciplined(t)
      /\ \A lock : ~(lock \in held[s] /\ lock \in held[t])
  BY DEF TwoPhase, LocksAreExclusive
<1>3. /\ ReceiptLock(r) \in held[s]
      /\ InitiativeLock(r) \in held[s]
      /\ r.op = "add_initiative_update" => UpdateLock(r) \in held[s]
  BY <1>2 DEF Disciplined, Commit
<1>4. CASE pc[t] = "idle"
  BY <1>1, <1>4 DEF Disciplined
<1>5. CASE pc[t] # "idle"
  <2>1. /\ q \in Requests
        /\ j \in Initiatives
        /\ KeyOf(q) \in ReceiptKeys
        /\ o \in Organizations
        /\ q # None
    BY <1>5, Running, RequestShape, OrganizationsOwnInitiatives, NoneIsNoValue
  <2>2. ReceiptLock(q) \in held[t] => receipts'[KeyOf(q)] = receipts[KeyOf(q)]
    BY <1>2, <1>3, <2>1, CommitTouches DEF ReceiptLock
  <2>3. InitiativeLock(q) \in held[t] =>
          initiatives'[j] = initiatives[j] /\ projects'[j] = projects[j]
    BY <1>2, <1>3, <2>1, CommitTouches DEF InitiativeLock
  <2>4. q.op = "add_initiative_update" /\ UpdateLock(q) \in held[t] =>
          updates'[o][q.update] = updates[o][q.update]
    <3> SUFFICES ASSUME q.op = "add_initiative_update",
                        UpdateLock(q) \in held[t]
                 PROVE  updates'[o][q.update] = updates[o][q.update]
      OBVIOUS
    <3>1. q.update \in UpdateIds
      BY <2>1, RequestFields DEF AddUpdateRequest
    <3>2. ~(/\ r.op = "add_initiative_update"
            /\ o = OrganizationOf[r.initiative]
            /\ q.update = r.update)
      BY <1>2, <1>3 DEF UpdateLock
    <3>3. \A p \in Organizations, u \in UpdateIds :
             ~(/\ r.op = "add_initiative_update"
               /\ p = OrganizationOf[r.initiative]
               /\ u = r.update) => updates'[p][u] = updates[p][u]
      BY CommitTouches
    <3> HIDE DEF q, o
    <3> QED
      BY <2>1, <3>1, <3>2, <3>3
  <2>5. CASE pc[t] \in {"lock", "write", "finish", "commit"}
    <3>1. ReceiptLock(q) \in held'[t] /\ receipts'[KeyOf(q)] = None
      BY <1>1, <1>2, <2>2, <2>5 DEF Disciplined
    <3>2. pc[t] = "write" /\ Locking(q) =>
            /\ InitiativeLock(q) \in held'[t]
            /\ LockRefusal(q, initiatives'[j]) = None
      BY <1>1, <1>2, <2>3 DEF Disciplined
    <3>3. CASE pc[t] \in {"finish", "commit"}
      <4>1. /\ InitiativeLock(q) \in held[t]
            /\ q.op = "add_initiative_update" => UpdateLock(q) \in held[t]
            /\ Refusal(q) = None
            /\ pc[t] = "commit" =>
                 staged[t] = EffectOf(q, initiatives[j], projects[j])
        BY <1>2, <3>3 DEF Disciplined
      <4>2. initiatives'[j] = initiatives[j] /\ projects'[j] = projects[j]
        BY <2>3, <4>1
      <4>3. Refusal(q)' = Refusal(q)
        BY <1>1, <2>4, <4>1, <4>2 DEF Refusal, TakenUpdate
      <4> QED
        BY <1>1, <2>1, <3>1, <3>3, <4>1, <4>2, <4>3 DEF Disciplined
    <3>4. CASE pc[t] \notin {"finish", "commit"}
      BY <1>1, <2>1, <2>5, <3>1, <3>2, <3>4 DEF Disciplined
    <3> QED
      BY <3>3, <3>4
  <2>6. CASE pc[t] = "replay" \/ (pc[t] = "done" /\ answer[t] # None)
    <3>1. receipts[KeyOf(q)] = [hash |-> q, response |-> answer[t]]
      BY <1>2, <2>6 DEF Disciplined
    <3>2. receipts[KeyOf(q)] # None
      BY <2>1, <3>1, NoneIsNoValue DEF Receipt, TypeOK
    <3>3. receipts'[KeyOf(q)] = receipts[KeyOf(q)]
      BY <2>1, <3>2, CommitTouches
    <3> QED
      BY <1>1, <2>1, <2>6, <3>1, <3>3 DEF Disciplined
  <2>7. CASE pc[t] \notin {"lock", "write", "finish", "commit", "replay"}
               /\ ~(pc[t] = "done" /\ answer[t] # None)
    BY <1>1, <1>2, <2>1, <2>7 DEF Disciplined
  <2> QED
    BY <2>5, <2>6, <2>7
<1> QED
  BY <1>4, <1>5

(* A commit keeps the discipline. *)
LEMMA CommitKeeps ==
  ASSUME TypeOK, TwoPhase, NEW s \in Sessions, Commit(s)
  PROVE  TypeOK' /\ TwoPhase'
<1> DEFINE r == request[s]
<1>1. /\ r \in Requests
      /\ KeyOf(r) \in ReceiptKeys
      /\ Apply(r)
  BY CommitApplies, RequestShape
<1>2. staged[s].response \in Response
  BY CommitTouches
<1>3. TypeOK'
  <2>1. TablesOK'
    BY <1>1, ApplyTyped DEF TypeOK
  <2> QED
    BY <1>2, <2>1 DEF TypeOK, Commit, Goto, Points
<1>4. LocksAreExclusive'
  <2>1. held'[s] = {} /\ \A t \in Sessions : t # s => held'[t] = held[t]
    BY DEF Commit, TypeOK
  <2> QED
    BY <2>1 DEF TwoPhase, LocksAreExclusive
<1>5. Disciplined(s)'
  <2>1. /\ pc'[s] = "done"
        /\ request'[s] = r
        /\ answer'[s] = staged[s].response
    BY DEF Commit, Goto, TypeOK
  <2> QED
    BY <1>1, <2>1, CommitTouches, NoneIsNoValue DEF Disciplined
<1> QED
  BY <1>3, <1>4, <1>5, CommitSpares DEF TwoPhase

(* Nothing is written by a replay. *)
LEMMA CommitReplayKeeps ==
  ASSUME TypeOK, TwoPhase, NEW s \in Sessions, CommitReplay(s)
  PROVE  TypeOK' /\ TwoPhase'
<1>1. TypeOK'
  BY TablesFrame DEF TypeOK, CommitReplay, Goto, Points
<1>2. Local(s) /\ Gains(s)
  BY DEF Local, Gains, CommitReplay, Goto, TypeOK
<1>3. Disciplined(s)'
  <2>1. /\ pc'[s] = "done"
        /\ request' = request
        /\ answer' = answer
        /\ receipts' = receipts
    BY DEF CommitReplay, Goto, TypeOK, tables
  <2>2. receipts[KeyOf(request[s])] = [hash |-> request[s], response |-> answer[s]]
    BY DEF TwoPhase, Disciplined, CommitReplay
  <2>3. request[s] # None
    BY DEF TwoPhase, Disciplined, CommitReplay
  <2> QED
    BY <2>1, <2>2, <2>3 DEF Disciplined
<1> QED
  BY <1>1, <1>2, <1>3, LocalFrame DEF CommitReplay

(* An error before the commit changes nothing. *)
LEMMA AbortKeeps ==
  ASSUME TypeOK, TwoPhase, NEW s \in Sessions, Abort(s)
  PROVE  TypeOK' /\ TwoPhase'
<1>1. /\ Refuse(s, Internal)
      /\ Gains(s)
      /\ pc[s] # "idle"
  BY DEF Abort, Gains
<1> QED
  BY <1>1, RefuseKeeps DEF Abort, TypeOK

(* A rollback gives the locks back. *)
LEMMA RollbackKeeps ==
  ASSUME TypeOK, TwoPhase, NEW s \in Sessions, Rollback(s)
  PROVE  TypeOK' /\ TwoPhase'
<1>1. TypeOK'
  BY TablesFrame DEF TypeOK, Rollback, Goto, Points
<1>2. Local(s) /\ Gains(s)
  BY DEF Local, Gains, Rollback, Goto, TypeOK
<1>3. Disciplined(s)'
  <2>1. pc'[s] = "done" /\ request' = request /\ answer' = answer
    BY DEF Rollback, Goto, TypeOK
  <2>2. answer[s] = None /\ request[s] # None
    BY DEF TwoPhase, Disciplined, Rollback
  <2> QED
    BY <2>1, <2>2 DEF Disciplined
<1> QED
  BY <1>1, <1>2, <1>3, LocalFrame DEF Rollback

(* An answered session forgets its request. *)
LEMMA EndKeeps ==
  ASSUME TypeOK, TwoPhase, NEW s \in Sessions, End(s)
  PROVE  TypeOK' /\ TwoPhase'
<1>1. TypeOK'
  BY TablesFrame DEF TypeOK, End, Goto, Points
<1>2. Local(s) /\ Gains(s)
  BY DEF Local, Gains, End, Goto, TypeOK
<1>3. Disciplined(s)'
  <2>1. pc'[s] = "idle"
    BY DEF End, Goto, TypeOK
  <2> QED
    BY <2>1 DEF Disciplined
<1> QED
  BY <1>1, <1>2, <1>3, LocalFrame DEF End

-----------------------------------------------------------------------------
(* The theorems *)

(* Every step keeps the discipline. *)
LEMMA NextKeeps ==
  ASSUME TypeOK, TwoPhase, Next
  PROVE  TypeOK' /\ TwoPhase'
<1>1. PICK s \in Sessions : Begin(s) \/ Step(s) \/ Abort(s)
  BY DEF Next
<1> QED
  BY <1>1, BeginKeeps, AdmitNewKeeps, AdmitReplayKeeps, AdmitRefusedKeeps,
     ReserveKeeps, ReserveRefusedKeeps, LockMissingKeeps, LockKeeps, WriteKeeps,
     FinishKeeps, CommitKeeps, CommitReplayKeeps, RollbackKeeps, EndKeeps, AbortKeeps
  DEF Begin, Step

(* What the empty tables and idle sessions keep, and a step of others. *)
LEMMA InitKeeps == Init => TypeOK /\ TwoPhase
<1> SUFFICES ASSUME Init PROVE TypeOK /\ TwoPhase
  OBVIOUS
<1>1. TablesOK
  BY InitCorrect DEF Init, Correct
<1>2. TypeOK
  BY <1>1 DEF Init, TypeOK, Points
<1>3. TwoPhase
  BY DEF Init, TwoPhase, LocksAreExclusive, Disciplined
<1> QED
  BY <1>2, <1>3

(* Where nothing changes, nothing is lost. *)
LEMMA StutterKeeps ==
  ASSUME TypeOK, TwoPhase, UNCHANGED vars
  PROVE  TypeOK' /\ TwoPhase'
<1>1. TypeOK'
  BY TablesFrame DEF TypeOK, vars, tables
<1>2. ASSUME NEW s \in Sessions
      PROVE  Disciplined(s)'
  BY <1>2 DEF TwoPhase, Disciplined, Refusal, TakenUpdate, vars
<1>3. LocksAreExclusive'
  BY DEF TwoPhase, LocksAreExclusive, vars
<1> QED
  BY <1>1, <1>2, <1>3 DEF TwoPhase

(* The rows, the sessions and what they stage are well formed; every lock  *)
(* has one owner, and what a session read under its locks is still true:   *)
(* the transactions of storage.rs are two-phase.                           *)
THEOREM Discipline == Spec => [](TypeOK /\ TwoPhase)
BY InitKeeps, NextKeeps, StutterKeeps, PTL DEF Spec

(* What a transaction staged is current until it commits: no command is    *)
(* checked against one state and committed on another.                     *)
THEOREM NothingStale == Spec => []StagedIsCurrent
<1>1. TwoPhase => StagedIsCurrent
  BY DEF TwoPhase, Disciplined, StagedIsCurrent
<1> QED
  BY <1>1, Discipline, PTL

(* First answers and replays are the stored receipt of the request.        *)
THEOREM Answering == Spec => []AnswersAreReceipts
<1>1. TwoPhase => AnswersAreReceipts
  BY DEF TwoPhase, Disciplined, AnswersAreReceipts
<1> QED
  BY <1>1, Discipline, PTL

(* A step of the store is a command on the tables, or leaves them.         *)
LEMMA StepIsCommand ==
  ASSUME TypeOK, TwoPhase, [Next]_vars
  PROVE  UNCHANGED tables \/ \E r \in Requests : Apply(r)
<1>1. ASSUME NEW s \in Sessions, Begin(s) \/ Step(s) \/ Abort(s), ~Commit(s)
      PROVE  UNCHANGED tables
  BY <1>1 DEF Begin, BeginWith, Step, Abort, AdmitNew, AdmitReplay, AdmitRefused, Reserve,
     ReserveRefused, LockMissing, Lock, Write, CreateInitiative, AddUpdate,
     UpdateInitiative, ArchiveInitiative, AttachProject, UpdateProjectSnapshot,
     DetachProject, ReorderProjects, WriteLocked, WriteInserting, Finish, CommitReplay,
     Rollback, End
<1>2. ASSUME UNCHANGED vars
      PROVE  UNCHANGED tables
  BY <1>2 DEF vars, tables
<1> QED
  BY <1>1, <1>2, CommitApplies DEF Next

(* The transactions keep the tables as correct as one-step commands do.    *)
THEOREM StoreIsCorrect == Spec => []Correct
<1>1. Init => Correct
  BY InitCorrect DEF Init
<1>2. TypeOK /\ TwoPhase /\ Correct /\ [Next]_vars => Correct'
  BY StepIsCommand, ApplyCorrect, StutterCorrect
<1> QED
  BY <1>1, <1>2, Discipline, PTL DEF Spec

(* No concurrent command is lost: revisions count the commits.             *)
THEOREM Counting == Spec => []RevisionCountsCommits
BY StoreIsCorrect, PTL DEF Correct

(* Every command that names a revision took effect on that revision.       *)
THEOREM CompareAndSet == Spec => []EveryCommandSawItsRevision
BY StoreIsCorrect, PTL DEF Correct

(* A membership's revision counts the commands that touched it.            *)
THEOREM MembershipCounting == Spec => []MembershipCountsTouches
BY StoreIsCorrect, PTL DEF Correct

(* A key has one effect, however often and wherever it is sent; its        *)
(* receipt is committed with that effect.                                  *)
THEOREM Idempotence == Spec => []ReceiptsRecordEffects
BY StoreIsCorrect, PTL DEF Correct

(* A receipt, once committed, never changes.                               *)
THEOREM Immutability == Spec => ReceiptsAreImmutable
<1>1. TypeOK /\ TwoPhase /\ [Next]_vars =>
        [\A k \in ReceiptKeys : receipts[k] # None => receipts'[k] = receipts[k]]_vars
  <2> SUFFICES ASSUME TypeOK, TwoPhase, [Next]_vars,
                      NEW k \in ReceiptKeys, receipts[k] # None
               PROVE  receipts'[k] = receipts[k]
    OBVIOUS
  <2>1. CASE UNCHANGED tables
    BY <2>1 DEF tables
  <2>2. ASSUME NEW r \in Requests, Apply(r)
        PROVE  receipts'[k] = receipts[k]
    BY <2>2, RequestShape DEF Apply, Publish, TypeOK, TablesOK
  <2> QED
    BY <2>1, <2>2, StepIsCommand
<1> QED
  BY <1>1, Discipline, PTL DEF Spec, ReceiptsAreImmutable

-----------------------------------------------------------------------------
(* What a caller was told of a refusal stays true until the rollback *)

(* Why the refusal that s is about to roll back was given, and what keeps  *)
(* the reason: a receipt or a row, which nobody removes, or the lock under *)
(* which it was read.                                                       *)
Reason(s) ==
  LET r == request[s]
      receipt == receipts[KeyOf(r)]
  IN  \/ failure[s] \in {"NotFound", Internal}
      \/ /\ failure[s] \in {"IdempotencyConflict", "OperationInProgress"}
         /\ receipt # None
         /\ failure[s] = "IdempotencyConflict" => receipt.hash # r
      \/ /\ failure[s] \in Failures \ {"IdempotencyConflict", "OperationInProgress"}
         /\ failure[s] # None
         /\ receipt = None
         /\ ReceiptLock(r) \in held[s]
         /\ Locking(r) => InitiativeLock(r) \in held[s]
         /\ Refusal(r) = failure[s]

Reasoned(s) ==
  /\ pc[s] = "lock" => Locking(request[s])
  /\ pc[s] = "rollback" => Reason(s)

Reasons == \A s \in Sessions : Reasoned(s)

(* A step that leaves the tables alone leaves the reasons of the others. *)
LEMMA ReasonsFrame ==
  ASSUME Reasons, NEW s \in Sessions, Local(s), UNCHANGED tables, Reasoned(s)',
         \A t \in Sessions : t # s => failure'[t] = failure[t]
  PROVE  Reasons'
<1> SUFFICES ASSUME NEW t \in Sessions, t # s
             PROVE  Reasoned(t)'
  BY DEF Reasons
<1>1. /\ pc'[t] = pc[t]
      /\ request'[t] = request[t]
      /\ held'[t] = held[t]
      /\ failure'[t] = failure[t]
  BY DEF Local
<1>2. /\ initiatives' = initiatives
      /\ projects' = projects
      /\ updates' = updates
      /\ receipts' = receipts
  BY DEF tables
<1>3. Reasoned(t)
  BY DEF Reasons
<1> QED
  BY <1>1, <1>2, <1>3 DEF Reasoned, Reason, Refusal, TakenUpdate

(* A refusal with a reason. *)
LEMMA RefuseReasoned ==
  ASSUME TypeOK, Reasons, NEW s \in Sessions, NEW why, Refuse(s, why),
         UNCHANGED tables,
         \A t \in Sessions : t # s => held'[t] = held[t],
         Reason(s)'
  PROVE  Reasons'
<1>1. Local(s)
  BY DEF Local, Refuse, Goto, TypeOK
<1>2. /\ pc'[s] = "rollback"
      /\ \A t \in Sessions : t # s => failure'[t] = failure[t]
  BY DEF Refuse, Goto, TypeOK
<1> QED
  BY <1>1, <1>2, ReasonsFrame DEF Reasoned

(* Refused for its receipt. *)
LEMMA ReceiptReasoned ==
  ASSUME TypeOK, TwoPhase, Reasons, NEW s \in Sessions,
         AdmitRefused(s) \/ ReserveRefused(s)
  PROVE  Reasons'
<1> DEFINE r == request[s]
           receipt == receipts[KeyOf(r)]
<1>1. receipts' = receipts /\ receipt # None
  BY DEF AdmitRefused, ReserveRefused, tables
<1>2. CASE AdmitRefused(s)
  <2>1. Refuse(s, ReceiptRefusal(r, receipt))
    BY <1>2 DEF AdmitRefused
  <2>2. request'[s] = r /\ failure'[s] = ReceiptRefusal(r, receipt)
    BY <2>1 DEF Refuse, TypeOK
  <2>3. ReceiptRefusal(r, receipt) # None
    BY <1>2 DEF AdmitRefused
  <2>4. /\ ReceiptRefusal(r, receipt) \in {"IdempotencyConflict", "OperationInProgress"}
        /\ ReceiptRefusal(r, receipt) = "IdempotencyConflict" => receipt.hash # r
    BY <2>3 DEF ReceiptRefusal
  <2>5. Reason(s)'
    BY <1>1, <2>2, <2>4 DEF Reason
  <2>6. \A t \in Sessions : t # s => held'[t] = held[t]
    BY <1>2 DEF AdmitRefused, Acquire, TypeOK
  <2> QED
    BY <1>2, <2>1, <2>5, <2>6, RefuseReasoned DEF AdmitRefused
<1>3. CASE ReserveRefused(s)
  <2>1. Refuse(s, "OperationInProgress") /\ held' = held
    BY <1>3 DEF ReserveRefused
  <2>2. request'[s] = r /\ failure'[s] = "OperationInProgress"
    BY <2>1 DEF Refuse, TypeOK
  <2>3. Reason(s)'
    BY <1>1, <2>2 DEF Reason
  <2> QED
    BY <1>3, <2>1, <2>3, RefuseReasoned DEF ReserveRefused
<1> QED
  BY <1>2, <1>3

(* Refused under its locks. *)
LEMMA LockedReasoned ==
  ASSUME TypeOK, TwoPhase, Reasons, NEW s \in Sessions, NEW why \in Failures,
         Refuse(s, why), UNCHANGED tables,
         why \notin {None, "IdempotencyConflict", "OperationInProgress"},
         \A t \in Sessions : t # s => held'[t] = held[t],
         held[s] \subseteq held'[s],
         pc[s] \in {"lock", "write"},
         Locking(request[s]) => InitiativeLock(request[s]) \in held'[s],
         Refusal(request[s]) = why
  PROVE  Reasons'
<1> DEFINE r == request[s]
<1>1. ReceiptLock(r) \in held[s] /\ receipts[KeyOf(r)] = None
  BY DEF TwoPhase, Disciplined
<1>2. request' = request /\ failure'[s] = why
  BY DEF Refuse, TypeOK
<1>3. /\ receipts' = receipts
      /\ initiatives' = initiatives
      /\ projects' = projects
      /\ updates' = updates
  BY DEF tables
<1>4. Refusal(r)' = Refusal(r)
  BY <1>2, <1>3 DEF Refusal, TakenUpdate
<1>5. Reason(s)'
  BY <1>1, <1>2, <1>3, <1>4 DEF Reason
<1> QED
  BY <1>5, RefuseReasoned

(* Refused for the initiative's row. *)
LEMMA LockReasoned ==
  ASSUME TypeOK, TwoPhase, Reasons, NEW s \in Sessions, LockMissing(s) \/ Lock(s)
  PROVE  Reasons'
<1> DEFINE r == request[s]
           row == initiatives[r.initiative]
<1>1. CASE LockMissing(s)
  <2>1. Refuse(s, "NotFound") /\ held' = held
    BY <1>1 DEF LockMissing
  <2>2. Reason(s)'
    BY <2>1 DEF Refuse, Reason, TypeOK
  <2> QED
    BY <1>1, <2>1, <2>2, RefuseReasoned DEF LockMissing
<1>2. CASE Lock(s) /\ LockRefusal(r, row) = None
  <2>1. /\ pc' = [pc EXCEPT ![s] = "write"]
        /\ UNCHANGED <<request, staged, answer, failure, tables>>
        /\ held' = [held EXCEPT ![s] = @ \cup {InitiativeLock(r)}]
    BY <1>2 DEF Lock, Goto, Acquire
  <2>2. Local(s) /\ pc'[s] = "write"
    BY <2>1 DEF Local, TypeOK
  <2> QED
    BY <2>1, <2>2, ReasonsFrame DEF Reasoned
<1>3. CASE Lock(s) /\ LockRefusal(r, row) # None
  <2>1. /\ Refuse(s, LockRefusal(r, row))
        /\ held' = [held EXCEPT ![s] = @ \cup {InitiativeLock(r)}]
        /\ pc[s] = "lock" /\ row # None /\ UNCHANGED tables
    BY <1>3 DEF Lock, Acquire
  <2>2. /\ LockRefusal(r, row) \in Failures
        /\ LockRefusal(r, row) \notin {None, "IdempotencyConflict", "OperationInProgress"}
    BY <1>3 DEF LockRefusal, Failures
  <2>3. r.op # "create_initiative"
    BY <2>1 DEF Reasons, Reasoned, Locking
  <2>4. Refusal(r) = LockRefusal(r, row)
    BY <1>3, <2>3 DEF Refusal
  <2>5. /\ held'[s] = held[s] \cup {InitiativeLock(r)}
        /\ \A t \in Sessions : t # s => held'[t] = held[t]
    BY <2>1 DEF TypeOK
  <2> QED
    BY <2>1, <2>2, <2>4, <2>5, LockedReasoned
<1> QED
  BY <1>1, <1>2, <1>3

(* Refused by the operation's own statements. *)
LEMMA WriteReasoned ==
  ASSUME TypeOK, TwoPhase, Reasons, NEW s \in Sessions, Write(s)
  PROVE  Reasons'
<1> DEFINE r == request[s]
<1>1. pc[s] = "write" /\ UNCHANGED tables
  BY DEF Write, CreateInitiative, AddUpdate, UpdateInitiative, ArchiveInitiative,
     AttachProject, UpdateProjectSnapshot, DetachProject, ReorderProjects,
     WriteLocked, WriteInserting, Writing
<1>2. CASE \/ Stage(s)
           \/ Goto(s, "finish") /\ UNCHANGED <<request, staged, answer, failure>>
  <2>1. \A t \in Sessions : t # s => held'[t] = held[t]
    BY DEF Write, CreateInitiative, AddUpdate, UpdateInitiative, ArchiveInitiative,
       AttachProject, UpdateProjectSnapshot, DetachProject, ReorderProjects,
       WriteLocked, WriteInserting, Acquire, TypeOK
  <2>2. Local(s) /\ pc'[s] \in {"finish", "commit"} /\ failure' = failure
    BY <1>2, <2>1 DEF Local, Stage, Goto, TypeOK
  <2> QED
    BY <1>1, <2>2, ReasonsFrame DEF Reasoned
<1>3. CASE Verdict(s) # None /\ Refuse(s, Verdict(s)) /\ held' = held
  <2>1. /\ Verdict(s) \in Failures
        /\ Verdict(s) \notin {None, "IdempotencyConflict", "OperationInProgress"}
    BY <1>3 DEF Verdict, WriteRefusal, AttachRefusal, SnapshotRefusal,
                DetachRefusal, ReorderRefusal, Failures
  <2>2. Locking(r) =>
          /\ InitiativeLock(r) \in held[s]
          /\ LockRefusal(r, initiatives[r.initiative]) = None
    BY <1>1 DEF TwoPhase, Disciplined
  <2>3. Refusal(r) = Verdict(s)
    BY <2>2 DEF Refusal, Verdict, Locking
  <2> QED
    BY <1>1, <1>3, <2>1, <2>2, <2>3, LockedReasoned, SMTT(30)
<1>4. \/ WriteLocked(s)
      \/ WriteInserting(s, InitiativeLock(r))
      \/ WriteInserting(s, UpdateLock(r))
  BY DEF Write, CreateInitiative, AddUpdate, UpdateInitiative, ArchiveInitiative,
     AttachProject, UpdateProjectSnapshot, DetachProject, ReorderProjects
<1>5. CASE WriteLocked(s)
  BY <1>2, <1>3, <1>5 DEF WriteLocked
<1>6. ASSUME NEW lock, WriteInserting(s, lock)
      PROVE  Reasons'
  BY <1>2, <1>3, <1>6 DEF WriteInserting
<1> QED
  BY <1>4, <1>5, <1>6

(* A commit takes no other session's reason away. *)
LEMMA CommitReasoned ==
  ASSUME TypeOK, TwoPhase, Reasons, NEW s \in Sessions, Commit(s)
  PROVE  Reasons'
<1> DEFINE r == request[s]
<1>1. pc'[s] = "done" /\ failure' = failure
  BY DEF Commit, Goto, TypeOK
<1>2. /\ r \in Requests /\ Apply(r) /\ Disciplined(s)
      /\ InitiativeLock(r) \in held[s] /\ ReceiptLock(r) \in held[s]
      /\ r.initiative \in Initiatives
  BY CommitApplies, RequestShape DEF TwoPhase, Disciplined, Commit
<1>3. ASSUME NEW t \in Sessions, t # s
      PROVE  Reasoned(t)'
  <2> DEFINE q == request[t]
             j == q.initiative
             o == OrganizationOf[j]
  <2>1. /\ pc'[t] = pc[t]
        /\ request'[t] = q
        /\ held'[t] = held[t]
        /\ failure'[t] = failure[t]
    BY <1>1, <1>3 DEF Commit, Goto, TypeOK
  <2>2. Reasoned(t) /\ \A lock : ~(lock \in held[s] /\ lock \in held[t])
    BY <1>3 DEF Reasons, TwoPhase, LocksAreExclusive
  <2>3. CASE pc[t] # "rollback"
    BY <2>1, <2>2, <2>3 DEF Reasoned
  <2>4. CASE pc[t] = "rollback"
    <3>1. /\ q \in Requests
          /\ j \in Initiatives
          /\ KeyOf(q) \in ReceiptKeys
          /\ o \in Organizations
      BY <2>4, Running, RequestShape, OrganizationsOwnInitiatives
    <3>2. receipts[KeyOf(q)] # None => receipts'[KeyOf(q)] = receipts[KeyOf(q)]
      BY <3>1, CommitTouches
    <3>3. CASE failure[t] \in {"NotFound", Internal, "IdempotencyConflict",
                               "OperationInProgress"}
      BY <2>1, <2>2, <2>4, <3>2, <3>3 DEF Reasoned, Reason
    <3>4. CASE failure[t] \notin {"NotFound", Internal, "IdempotencyConflict",
                                  "OperationInProgress"}
      <4>1. /\ failure[t] \in Failures
            /\ receipts[KeyOf(q)] = None
            /\ ReceiptLock(q) \in held[t]
            /\ Locking(q) => InitiativeLock(q) \in held[t]
            /\ Refusal(q) = failure[t]
            /\ failure[t] # None
        BY <2>2, <2>4, <3>4 DEF Reasoned, Reason
      <4>2. receipts'[KeyOf(q)] = None
        BY <1>2, <2>2, <3>1, <4>1, CommitTouches DEF ReceiptLock
      <4>3. Refusal(q)' = failure[t]
        <5>1. initiatives[j] # None => initiatives'[j] # None
          <6>1. j # r.initiative => initiatives'[j] = initiatives[j]
            BY <3>1, CommitTouches
          <6>2. initiatives' = [initiatives EXCEPT ![r.initiative] = staged[s].row]
            BY DEF Commit, Publish
          <6>3. staged[s] \in Effect
            BY <1>2, NotRefused DEF Apply, Disciplined, Commit, TypeOK
          <6>4. staged[s].row # None
            BY <6>3, NoneIsNoValue DEF Effect
          <6> QED
            BY <1>2, <6>1, <6>2, <6>4 DEF TypeOK, TablesOK
        <5>2. CASE q.op = "create_initiative"
          <6>1. initiatives[j] # None /\ failure[t] = "AlreadyExists"
            BY <4>1, <5>2 DEF Refusal, WriteRefusal
          <6> QED
            BY <2>1, <5>1, <5>2, <6>1 DEF Refusal, WriteRefusal
        <5>3. CASE q.op # "create_initiative"
          <6>1. initiatives'[j] = initiatives[j] /\ projects'[j] = projects[j]
            BY <1>2, <2>2, <3>1, <4>1, <5>3, CommitTouches DEF Locking, InitiativeLock
          <6>2. CASE LockRefusal(q, initiatives[j]) # None
            BY <2>1, <4>1, <5>3, <6>1, <6>2 DEF Refusal
          <6>3. CASE LockRefusal(q, initiatives[j]) = None
            <7>1. TakenUpdate(q)' = TakenUpdate(q)
              <8>1. CASE q.op = "add_initiative_update"
                <9>1. q.update \in UpdateIds /\ updates[o][q.update] # None
                  <10>1. q.update \in UpdateIds
                    BY <3>1, <8>1, RequestFields DEF AddUpdateRequest
                  <10>2. WriteRefusal(q, initiatives[j], projects[j], TakenUpdate(q))
                           = failure[t]
                    BY <4>1, <5>3, <6>3 DEF Refusal
                  <10>3. TakenUpdate(q) # None
                    BY <4>1, <8>1, <10>2 DEF WriteRefusal
                  <10> QED
                    BY <8>1, <10>1, <10>3 DEF TakenUpdate
                <9>2. ~(/\ r.op = "add_initiative_update"
                        /\ o = OrganizationOf[r.initiative]
                        /\ q.update = r.update)
                  <10>1. CASE r.op = "add_initiative_update"
                    <11>1. WriteRefusal(r, initiatives[r.initiative],
                                        projects[r.initiative], TakenUpdate(r)) = None
                      BY <1>2, NotRefused DEF Apply, TypeOK
                    <11>2. TakenUpdate(r) = None
                      BY <10>1, <11>1, NoneIsNoValue DEF WriteRefusal, Failures
                    <11> QED
                      BY <9>1, <10>1, <11>2 DEF TakenUpdate
                  <10> QED
                    BY <10>1
                <9>3. updates'[o][q.update] = updates[o][q.update]
                  <10>1. \A p \in Organizations, u \in UpdateIds :
                           ~(/\ r.op = "add_initiative_update"
                             /\ p = OrganizationOf[r.initiative]
                             /\ u = r.update) => updates'[p][u] = updates[p][u]
                    BY CommitTouches
                  <10> HIDE DEF q, o
                  <10> QED
                    BY <3>1, <9>1, <9>2, <10>1
                <9> QED
                  BY <2>1, <8>1, <9>3 DEF TakenUpdate
              <8>2. CASE q.op # "add_initiative_update"
                BY <2>1, <8>2 DEF TakenUpdate
              <8> QED
                BY <8>1, <8>2
            <7> QED
              BY <2>1, <4>1, <5>3, <6>1, <6>3, <7>1 DEF Refusal
          <6> QED
            BY <6>2, <6>3
        <5> QED
          BY <5>2, <5>3
      <4> QED
        BY <2>1, <2>4, <3>4, <4>1, <4>2, <4>3 DEF Reasoned, Reason
    <3> QED
      BY <3>3, <3>4
  <2> QED
    BY <2>3, <2>4
<1> QED
  BY <1>1, <1>3 DEF Reasons, Reasoned

(* The other steps. *)
LEMMA NextReasoned ==
  ASSUME TypeOK, TwoPhase, Reasons, Next
  PROVE  Reasons'
<1>1. PICK s \in Sessions : Begin(s) \/ Step(s) \/ Abort(s)
  BY DEF Next
<1>2. CASE Abort(s)
  <2>1. Refuse(s, Internal) /\ held' = held /\ UNCHANGED tables
    BY <1>2 DEF Abort
  <2>2. Reason(s)'
    BY <2>1 DEF Refuse, Reason, TypeOK
  <2> QED
    BY <2>1, <2>2, RefuseReasoned
<1>3. CASE Reserve(s)
  <2>1. /\ pc'[s] = IF Locking(request[s]) THEN "lock" ELSE "write"
        /\ request' = request /\ failure' = failure /\ UNCHANGED tables
    BY <1>3 DEF Reserve, Goto, TypeOK
  <2>2. Local(s)
    BY <1>3 DEF Local, Reserve, Acquire, Goto, TypeOK
  <2> QED
    BY <2>1, <2>2, ReasonsFrame DEF Reasoned
<1>4. CASE \/ Begin(s) \/ AdmitNew(s) \/ AdmitReplay(s)
           \/ Finish(s) \/ CommitReplay(s) \/ Rollback(s) \/ End(s)
  <2>1. /\ pc'[s] \notin {"lock", "rollback"} /\ UNCHANGED tables
        /\ \A t \in Sessions : t # s => failure'[t] = failure[t]
    BY <1>4 DEF Begin, BeginWith, AdmitNew, AdmitReplay, Finish, Stage,
                CommitReplay, Rollback, End, Goto, TypeOK
  <2>2. Local(s)
    BY <1>4 DEF Begin, BeginWith, AdmitNew, AdmitReplay, Finish, Stage,
                CommitReplay, Rollback, End, Goto, Acquire, Local, TypeOK
  <2> QED
    BY <2>1, <2>2, ReasonsFrame DEF Reasoned
<1> QED
  BY <1>1, <1>2, <1>3, <1>4, ReceiptReasoned, LockReasoned, WriteReasoned,
     CommitReasoned
  DEF Step

(* Where nothing changes, reasons stay reasons. *)
LEMMA StutterReasoned ==
  ASSUME Reasons, UNCHANGED vars
  PROVE  Reasons'
BY DEF Reasons, Reasoned, Reason, Refusal, TakenUpdate, vars

(* A caller refused by the store was told the truth, and it stays true     *)
(* until the transaction has rolled back, whatever commits meanwhile.      *)
THEOREM Honesty == Spec => []RefusalsAreTrue
<1>1. Init => Reasons
  BY DEF Init, Reasons, Reasoned
<1>2. TypeOK /\ TwoPhase /\ Reasons /\ [Next]_vars => Reasons'
  BY StutterReasoned, NextReasoned
<1>3. Reasons => RefusalsAreTrue
  BY DEF Reasons, Reasoned, Reason, RefusalsAreTrue, Internal
<1> QED
  BY <1>1, <1>2, <1>3, Discipline, PTL DEF Spec

(* The rows, the sessions and what they stage are of their types. *)
THEOREM Typed == Spec => []TypeOK
BY Discipline, PTL

-----------------------------------------------------------------------------
(* What a step of a session amounts to, for whoever has the session *)

(* All that the sessions rely on. *)
Sound == TypeOK /\ TwoPhase /\ Reasons

(* Sessions that have not begun are sound. *)
LEMMA InitSound == Init => Sound
BY InitKeeps DEF Sound, Init, Reasons, Reasoned

(* Every step keeps the sessions sound. *)
LEMMA NextSound == Sound /\ [Next]_vars => Sound'
BY NextKeeps, StutterKeeps, NextReasoned, StutterReasoned DEF Sound

(* Where a session runs a request that it has not answered. *)
Working == {"admit", "reserve", "lock", "write", "finish", "commit", "replay"}

(* A refusal that the tables have a reason for, at the very step. *)
Founded(r, why) ==
  LET receipt == receipts[KeyOf(r)]
  IN  \/ receipt = None /\ Refusal(r) # None /\ why = Refusal(r)
      \/ receipt # None /\ receipt.hash # r /\ why = "IdempotencyConflict"
      \/ receipt # None /\ why = "OperationInProgress"

(* What comes of the next step of a session that is at work. *)
Outcome(s) ==
  LET r == request[s]
      receipt == receipts[KeyOf(r)]
  IN  \/ pc'[s] \in Working /\ UNCHANGED tables
      \/ /\ pc'[s] = "rollback" /\ UNCHANGED tables
         /\ failure'[s] = Internal \/ Founded(r, failure'[s])
      \/ /\ pc'[s] = "done" /\ UNCHANGED tables
         /\ receipt # None /\ receipt.hash = r
      \/ pc'[s] = "done" /\ Apply(r)

(* A refusal that is founded is an outcome. *)
LEMMA RefuseOutcome ==
  ASSUME Sound, NEW s \in Sessions, NEW why, Refuse(s, why), UNCHANGED tables,
         why = Internal \/ Founded(request[s], why)
  PROVE  Outcome(s)
BY DEF Refuse, Goto, Outcome, Sound, TypeOK

(* So is a session that goes on. *)
LEMMA GotoOutcome ==
  ASSUME Sound, NEW s \in Sessions, NEW point \in Working, Goto(s, point),
         UNCHANGED tables
  PROVE  Outcome(s)
BY DEF Goto, Outcome, Sound, TypeOK

(* Every step of a session at work has one of these outcomes. *)
LEMMA StepOutcome ==
  ASSUME Sound, NEW s \in Sessions, pc[s] \in Working, Step(s) \/ Abort(s)
  PROVE  Outcome(s)
<1> DEFINE r == request[s]
           receipt == receipts[KeyOf(r)]
<1>1. CASE AdmitNew(s) \/ AdmitReplay(s) \/ Reserve(s) \/ Finish(s)
  BY <1>1, GotoOutcome DEF AdmitNew, AdmitReplay, Reserve, Finish, Stage, Working
<1>2. CASE AdmitRefused(s)
  <2>1. Founded(r, ReceiptRefusal(r, receipt))
    BY <1>2 DEF AdmitRefused, ReceiptRefusal, Founded
  <2> QED
    BY <1>2, <2>1, RefuseOutcome DEF AdmitRefused
<1>3. CASE ReserveRefused(s)
  BY <1>3, RefuseOutcome DEF ReserveRefused, Founded
<1>4. CASE LockMissing(s)
  <2>1. receipt = None /\ Locking(r)
    BY <1>4 DEF LockMissing, Sound, TwoPhase, Disciplined, Reasons, Reasoned
  <2>2. Refusal(r) = "NotFound"
    BY <1>4, <2>1, NoneIsNoValue DEF LockMissing, Refusal, LockRefusal, Locking, Failures
  <2>3. Founded(r, "NotFound")
    BY <2>1, <2>2, NoneIsNoValue DEF Founded, Failures
  <2> QED
    BY <1>4, <2>3, RefuseOutcome DEF LockMissing
<1>5. CASE Lock(s)
  <2> DEFINE why == LockRefusal(r, initiatives[r.initiative])
  <2>1. receipt = None /\ Locking(r)
    BY <1>5 DEF Lock, Sound, TwoPhase, Disciplined, Reasons, Reasoned
  <2>2. CASE why = None
    BY <1>5, <2>2, GotoOutcome DEF Lock, Working
  <2>3. CASE why # None
    <3>1. Refusal(r) = why
      BY <2>1, <2>3 DEF Refusal, Locking
    <3> QED
      BY <1>5, <2>1, <2>3, <3>1, RefuseOutcome DEF Lock, Founded
  <2> QED
    BY <2>2, <2>3
<1>6. CASE Write(s)
  <2>1. pc[s] = "write" /\ UNCHANGED tables
    BY <1>6 DEF Write, CreateInitiative, AddUpdate, UpdateInitiative,
       ArchiveInitiative, AttachProject, UpdateProjectSnapshot, DetachProject,
       ReorderProjects, WriteLocked, WriteInserting, Writing
  <2>2. Stage(s) \/ Goto(s, "finish") \/ (Verdict(s) # None /\ Refuse(s, Verdict(s)))
    BY <1>6 DEF Write, CreateInitiative, AddUpdate, UpdateInitiative,
       ArchiveInitiative, AttachProject, UpdateProjectSnapshot, DetachProject,
       ReorderProjects, WriteLocked, WriteInserting
  <2>3. CASE Stage(s) \/ Goto(s, "finish")
    BY <2>1, <2>3, GotoOutcome DEF Stage, Working
  <2>4. CASE Verdict(s) # None /\ Refuse(s, Verdict(s))
    <3>1. /\ receipt = None
          /\ Locking(r) => LockRefusal(r, initiatives[r.initiative]) = None
      BY <2>1 DEF Sound, TwoPhase, Disciplined
    <3>2. Refusal(r) = Verdict(s)
      BY <3>1 DEF Refusal, Verdict, Locking
    <3> QED
      BY <2>1, <2>4, <3>1, <3>2, RefuseOutcome DEF Founded
  <2> QED
    BY <2>2, <2>3, <2>4
<1>7. CASE Commit(s)
  BY <1>7, CommitApplies DEF Commit, Goto, Outcome, Sound, TypeOK
<1>8. CASE CommitReplay(s)
  <2>1. receipt = [hash |-> r, response |-> answer[s]] /\ receipt # None
    <3>1. receipt = [hash |-> r, response |-> answer[s]]
      BY <1>8 DEF CommitReplay, Sound, TwoPhase, Disciplined
    <3>2. r \in Requests /\ answer[s] \in Response \cup {None}
      BY <1>8, Running DEF CommitReplay, Sound, TypeOK
    <3> QED
      BY <3>1, <3>2, NoneIsNoValue DEF Receipt
  <2> QED
    BY <1>8, <2>1 DEF CommitReplay, Goto, Outcome, Sound, TypeOK
<1>9. CASE Abort(s)
  BY <1>9, RefuseOutcome DEF Abort
<1> QED
  BY <1>1, <1>2, <1>3, <1>4, <1>5, <1>6, <1>7, <1>8, <1>9
  DEF Step, Working, Rollback, End

(* Until it ends, a session keeps its request, and leaves the others where *)
(* they are.                                                               *)
LEMMA StepIsLocal ==
  ASSUME Sound, NEW s \in Sessions, pc[s] \in Working, Step(s) \/ Abort(s)
  PROVE  /\ request' = request
         /\ \A t \in Sessions : t # s => pc'[t] = pc[t]
BY DEF Step, Abort, AdmitNew, AdmitReplay, AdmitRefused, Reserve,
   ReserveRefused, LockMissing, Lock, Write, CreateInitiative, AddUpdate,
   UpdateInitiative, ArchiveInitiative, AttachProject, UpdateProjectSnapshot,
   DetachProject, ReorderProjects, WriteLocked, WriteInserting, Finish, Stage, Commit,
   CommitReplay, Rollback, End, Refuse, Goto, Working, Sound, TypeOK

-----------------------------------------------------------------------------
(* Refinement: the operators of the instance are those of the store        *)

(* An initiative has as many projects for the ledger as for the store. *)
LEMMA SameCount ==
  ASSUME NEW members
  PROVE  /\ Ledger!Attached(members) = Attached(members)
         /\ Ledger!Count(members) = Count(members)
<1>1. Ledger!Attached(members) = Attached(members)
  BY DEF Attached, Ledger!Attached
<1> QED
  BY <1>1 DEF Count, Ledger!Count, Cardinality, Ledger!Cardinality

(* The ledger refuses what the store refuses. *)
LEMMA SameRefusals ==
  ASSUME NEW r
  PROVE  Ledger!Refusal(r) = Refusal(r)
<1> DEFINE row == initiatives[r.initiative]
           members == projects[r.initiative]
           update == TakenUpdate(r)
<1>1. Ledger!TakenUpdate(r) = update
  BY DEF TakenUpdate, Ledger!TakenUpdate
<1>2. Ledger!LockRefusal(r, row) = LockRefusal(r, row)
  BY DEF LockRefusal, Ledger!LockRefusal, RevisionChecked,
         Ledger!RevisionChecked, Operations, Ledger!Operations
<1>3. Ledger!AttachRefusal(r, members) = AttachRefusal(r, members)
  BY SameCount DEF AttachRefusal, Ledger!AttachRefusal
<1>4. /\ Ledger!SnapshotRefusal(r, members) = SnapshotRefusal(r, members)
      /\ Ledger!DetachRefusal(r, members) = DetachRefusal(r, members)
  BY DEF SnapshotRefusal, DetachRefusal, Ledger!SnapshotRefusal,
         Ledger!DetachRefusal
<1>5. Ledger!CompleteOrder(r.items, members) <=> CompleteOrder(r.items, members)
  BY SameCount DEF CompleteOrder, Ledger!CompleteOrder
<1>6. Ledger!ReorderRefusal(r, members) = ReorderRefusal(r, members)
  BY <1>5 DEF ReorderRefusal, Ledger!ReorderRefusal
<1>7. Ledger!WriteRefusal(r, row, members, update)
        = WriteRefusal(r, row, members, update)
  BY <1>3, <1>4, <1>6 DEF WriteRefusal, Ledger!WriteRefusal
<1> QED
  BY <1>1, <1>2, <1>7 DEF Refusal, Ledger!Refusal

(* The ledger writes what the store writes. *)
LEMMA SameEffects ==
  ASSUME NEW r, NEW row, NEW members
  PROVE  Ledger!EffectOf(r, row, members) = EffectOf(r, row, members)
<1> DEFINE after == RowAfter(r, row)
           left == MembersAfter(r, members)
<1>1. /\ Ledger!Patched(r, row) = Patched(r, row)
      /\ \A x : Ledger!Bumped(x) = Bumped(x)
  BY DEF Patched, Ledger!Patched, Bumped, Ledger!Bumped
<1>2. Ledger!RowAfter(r, row) = after
  BY <1>1 DEF RowAfter, Ledger!RowAfter
<1>3. /\ Ledger!Attachment(r) = Attachment(r)
      /\ Ledger!Reordered(r.items, members) = Reordered(r.items, members)
  BY DEF Attachment, Ledger!Attachment, Reordered, Ledger!Reordered
<1>4. Ledger!MembersAfter(r, members) = left
  BY <1>3 DEF MembersAfter, Ledger!MembersAfter
<1>5. Ledger!UpdateAfter(r, row) = UpdateAfter(r, row)
  BY DEF UpdateAfter, Ledger!UpdateAfter
<1>6. Ledger!Body(r, after, left) = Body(r, after, left)
  BY SameCount DEF Body, Ledger!Body
<1>7. Ledger!ResponseOf(r, after, left) = ResponseOf(r, after, left)
  BY <1>6 DEF ResponseOf, Ledger!ResponseOf
<1> QED
  BY <1>2, <1>4, <1>5, <1>7 DEF EffectOf, Ledger!EffectOf

(* A command of the store is a command of the ledger. *)
LEMMA SameCommands ==
  ASSUME NEW r, Apply(r)
  PROVE  Ledger!Apply(r)
<1> DEFINE effect == EffectOf(r, initiatives[r.initiative],
                              projects[r.initiative])
<1>1. Ledger!KeyOf(r) = KeyOf(r)
  BY DEF KeyOf, Ledger!KeyOf
<1>2. Ledger!Publish(r, effect)
  BY <1>1 DEF Apply, Publish, Ledger!Publish
<1> QED
  BY <1>1, <1>2, SameRefusals, SameEffects DEF Apply, Ledger!Apply

(* The store implements the ledger: the transactions of storage.rs,        *)
(* however they interleave, wait, fail and are retried, do to the tables   *)
(* what the commands do one at a time.                                     *)
THEOREM Refinement == Spec => LedgerSpec
<1>1. Init => Ledger!LedgerInit
  <2>1. ReceiptKeys = Ledger!ReceiptKeys
    BY DEF ReceiptKeys, Ledger!ReceiptKeys, Operations, Ledger!Operations
  <2> QED
    BY <2>1 DEF Init, TablesInit, Ledger!LedgerInit, Ledger!TablesInit
<1>2. TypeOK /\ TwoPhase /\ [Next]_vars => [Ledger!LedgerNext]_(Ledger!tables)
  BY StepIsCommand, SameCommands DEF Ledger!LedgerNext, Ledger!tables, tables
<1> QED
  BY <1>1, <1>2, Discipline, PTL DEF Spec, LedgerSpec, Ledger!LedgerSpec

=============================================================================
