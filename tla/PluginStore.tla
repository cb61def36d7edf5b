------------------------------ MODULE PluginStore -----------------------------
(***************************************************************************)
(* The handlers over the command engine: a call of PluginCall that runs a  *)
(* command takes a connection of the plugin's pool, a session of           *)
(* PortfolioStore, and goes through its statements one by one beside the   *)
(* other calls.  A read takes a connection for each of its statements.     *)
(*                                                                         *)
(* A call returns as soon as the store has an answer for it: the session   *)
(* of a refused command has yet to roll back then, and keeps its locks and *)
(* its connection until it has.  A caller that goes away drops the handler *)
(* where it is; sqlx rolls the transaction back once the statement on its  *)
(* way has ended, which may itself wait for a lock, or finds that what was *)
(* on its way was the commit.  PostgreSQL does the same to the connections *)
(* of a process that has died.                                             *)
(*                                                                         *)
(* CallSpec says that all this is what PluginCall has as one step: so what *)
(* is proved of PluginCall holds here, with the transactions interleaved.  *)
(***************************************************************************)
EXTENDS PluginCall

CONSTANT Sessions   \* the connections that the database has for the plugin

VARIABLES
  pc, request, held, staged, answer,   \* the sessions, as in PortfolioStore
  outcome,                             \* its failure
  owner,   \* the pool a connection in use belongs to; None also once the
           \* pool's process is dead
  conn     \* the connection that a call has, or None

sessions == <<pc, request, held, staged, answer, outcome>>
allVars == <<vars, sessions, owner, conn>>

Store == INSTANCE PortfolioStore WITH failure <- outcome

ComposedInit ==
  /\ Init
  /\ Store!Init
  /\ owner = [s \in Sessions |-> None]
  /\ conn = [c \in Calls |-> None]

IsCommand(c) == call[c].request.op \in Operations

Available(s) == pc[s] = "idle" /\ \A c \in Calls : conn[c] # s

HangUp(c) == conn' = [conn EXCEPT ![c] = None]

-----------------------------------------------------------------------------
(* The calls *)

(* Up to the pool a call touches no connection. *)
Approach(c) ==
  /\ \/ Invoke(c) \/ CheckMembership(c) \/ CheckAccess(c)
     \/ MembershipReplies(c) \/ AccessReplies(c) \/ ServiceFails(c)
  /\ UNCHANGED <<sessions, owner, conn>>

(* The pool has a connection for the call, and begin() begins on it; or    *)
(* the pool is closed, or has had none for too long.                       *)
TakeConnection(c) ==
  /\ Connect(c)
  /\ \/ /\ at'[c] = "store"
        /\ \E s \in Sessions :
             /\ Available(s)
             /\ conn' = [conn EXCEPT ![c] = s]
             /\ owner' = [owner EXCEPT ![s] = pool[c]]
             /\ \/ IsCommand(c) /\ Store!BeginWith(s, Scoped(call[c]))
                \/ ~IsCommand(c) /\ UNCHANGED sessions
     \/ /\ at'[c] # "store"
        /\ UNCHANGED <<sessions, owner, conn>>

(* A statement of a read; its connection goes back at once. *)
Read(c) ==
  /\ RunRead(c)
  /\ owner' = [owner EXCEPT ![conn[c]] = None]
  /\ HangUp(c)
  /\ UNCHANGED sessions

(* What a step of its session means for a call: it goes on, or it returns  *)
(* and drops what is left of the transaction.  A commit that succeeded may *)
(* be reported as failed.                                                  *)
Hear(c, s) ==
  /\ \/ /\ pc'[s] \notin {"rollback", "done"}
        /\ UNCHANGED <<at, failure, told, conn>>
     \/ /\ pc'[s] = "rollback" /\ outcome'[s] # Store!Internal
        /\ failure' = [failure EXCEPT ![c] = outcome'[s]]
        /\ Tell(c, Named(call[c].request.op, outcome'[s]))
        /\ HangUp(c)
     \/ /\ \/ pc'[s] = "rollback" /\ outcome'[s] = Store!Internal /\ Tell(c, "Runtime")
           \/ pc'[s] = "done" /\ \E what \in {"ok", "Runtime"} : Tell(c, what)
        /\ UNCHANGED failure
        /\ HangUp(c)
  /\ UNCHANGED <<services, plugin, call, reply, pool, owner>>
  /\ Observe

InStore(c) == at[c] = "store" /\ IsCommand(c)

(* The call's session takes a step of the command. *)
Command(c) ==
  /\ InStore(c)
  /\ Store!Step(conn[c])
  /\ Hear(c, conn[c])

(* A statement fails, or the connection dies. *)
CommandFails(c) ==
  /\ InStore(c)
  /\ Store!Abort(conn[c])
  /\ Hear(c, conn[c])

(* The caller goes; a command keeps its connection. *)
GoAway(c) ==
  /\ Leave(c)
  /\ IF at[c] = "store" /\ ~IsCommand(c)
     THEN owner' = [owner EXCEPT ![conn[c]] = None] /\ HangUp(c)
     ELSE UNCHANGED <<owner, conn>>
  /\ UNCHANGED sessions

(* The statement that the session is at waits for another transaction. *)
Waits(s) == ~ENABLED Store!Step(s)

(* A mistake: nobody rolls back what a caller left open. *)
AbandonedStaysOpen(c) ==
  /\ at[c] = "abandoned"
  /\ Store!Commit(conn[c])
  /\ Forget({c}, {})
  /\ pool' = [pool EXCEPT ![c] = None]
  /\ HangUp(c)
  /\ UNCHANGED <<services, plugin, owner>>
  /\ Observe

(* Nobody goes on with an abandoned command: unless it was the commit that *)
(* was on its way, the transaction is dropped when its statement has ended.*)
DropAbandoned(c) ==
  /\ at[c] = "abandoned"
  /\ \/ Store!Commit(conn[c])
     \/ ~Waits(conn[c]) /\ Store!Abort(conn[c])
  /\ Forget({c}, {})
  /\ pool' = [pool EXCEPT ![c] = None]
  /\ HangUp(c)
  /\ UNCHANGED <<services, plugin, owner>>
  /\ Observe

(* A dropped transaction rolls back, and the connection returns. *)
GiveBack(s) ==
  /\ \/ Store!Rollback(s) /\ UNCHANGED owner
     \/ Store!End(s) /\ owner' = [owner EXCEPT ![s] = None]
  /\ UNCHANGED <<services, plugin, calls, conn>>

-----------------------------------------------------------------------------
(* Beside the calls *)

(* The plugin is activated and deactivated. *)
Runtime ==
  /\ BeginActivation \/ ActivationFails \/ Activate \/ Deactivate
  /\ UNCHANGED <<sessions, owner, conn>>

(* Memberships and permissions are given and withdrawn. *)
Elsewhere ==
  /\ ChangeMembership \/ ChangeGrant
  /\ UNCHANGED <<sessions, owner, conn>>

CloseWhen(alone) ==
  /\ lifecycle = "closing"
  /\ alone
  /\ lifecycle' = "inactive"
  /\ UNCHANGED <<tables, services, activation, prepared, open,
                 at, call, reply, pool, failure, told, sessions, owner, conn>>
  /\ Observe

(* A mistake: close() forgets the connections of calls that have gone. *)
CloseOverConnections ==
  CloseWhen(\A c \in Calls : InStore(c) => pool[c] # activation)

(* A mistake: close() waits for the calls, not for their connections. *)
CloseOverRollbacks ==
  CloseWhen(\A c \in Calls :
              at[c] \in {"store", "abandoned"} => pool[c] # activation)

(* close() ends when every connection has come back to the pool. *)
Close == CloseWhen(\A s \in Sessions : owner[s] # activation)

(* The process dies; its transactions are left to the database. *)
Die ==
  /\ Crash
  /\ owner' = [s \in Sessions |-> None]
  /\ conn' = [c \in Calls |-> IF UnderWay(c) THEN conn[c] ELSE None]
  /\ UNCHANGED sessions

PluginNext ==
  \/ \E c \in Calls :
       \/ Approach(c) \/ TakeConnection(c) \/ Read(c)
       \/ Command(c) \/ CommandFails(c)
       \/ GoAway(c) \/ DropAbandoned(c)
  \/ \E s \in Sessions : GiveBack(s)
  \/ Runtime \/ Close \/ Die

ComposedNext == PluginNext \/ Elsewhere

ComposedSpec == ComposedInit /\ [][ComposedNext]_allVars

(* What the runtime and the database do with the transaction on s. *)
Serve(s) ==
  \/ \E c \in Calls : conn[c] = s /\ (Command(c) \/ DropAbandoned(c))
  \/ GiveBack(s)

(* The runtime polls every call.  PostgreSQL grants a lock to its waiters  *)
(* in turn and ends what a connection has begun, so a step of a session    *)
(* that is possible again and again is taken.  A deactivation that can end *)
(* does.  Nothing makes a caller call, or a transaction fail.              *)
Fairness ==
  /\ WF_allVars(Close)
  /\ \A c \in Calls : WF_allVars(TakeConnection(c) \/ Read(c))
  /\ \A s \in Sessions : SF_allVars(Serve(s))

FairComposedSpec == ComposedSpec /\ Fairness

-----------------------------------------------------------------------------
(* Properties *)

(* The handlers over interleaved transactions do what PluginCall has them  *)
(* do over commands of one step: a call is told what the tables say when   *)
(* it returns, a command takes effect for a call that is in the store or   *)
(* was abandoned there and for no other, and deactivate does not return    *)
(* while one may still take effect.                                        *)
CallSpec == Spec

(* Once deactivate has returned, no connection of its pool is out: not     *)
(* even one whose command was refused and has yet to roll back, although   *)
(* its caller was told long ago.  A transaction that is still open then is *)
(* that of a dead process.                                                 *)
ConnectionsEndWithTheirPool ==
  \A s \in Sessions :
    owner[s] # None => owner[s] = activation /\ lifecycle \in {"active", "closing"}

(* Deactivation ends although it waits for transactions that wait for each *)
(* other's locks, some of them left behind by callers that have gone.      *)
DeactivationEnds == lifecycle = "closing" ~> lifecycle # "closing"

(* No lock stays: not that of a refused command, of a caller that has      *)
(* gone, nor of a process that has died; so a retry of the same key, on    *)
(* any connection and in any later activation, gets its turn.              *)
LocksGo == \A s \in Sessions : held[s] # {} ~> held[s] = {}

=============================================================================
