----------------------------- MODULE PluginCall ------------------------------
(***************************************************************************)
(* A call through the plugin's handlers (lib.rs): who is admitted, what    *)
(* two other services are asked, when the pool is taken, what the store is *)
(* run with, and what the caller is told.  Beside the calls, memberships   *)
(* and permissions are given and withdrawn, the plugin is deactivated and  *)
(* activated, and the process dies.                                        *)
(*                                                                         *)
(* The plugin runs on one thread, so what a handler does between two       *)
(* awaits is one step.  It awaits the answer of organization membership,   *)
(* that of access control, a connection of the pool, and the store.  A     *)
(* function of the store is one step here: PluginStore runs the calls over *)
(* the transactions of PortfolioStore and shows that they amount to that.  *)
(*                                                                         *)
(* A call whose caller goes away while its command is in the store is      *)
(* abandoned: nobody hears of it any more, but the transaction may still   *)
(* commit, and has its connection until it has ended.  When the process    *)
(* dies the same holds, but for the connection, which dies with its pool.  *)
(***************************************************************************)
EXTENDS PortfolioTables

CONSTANTS
  Calls,             \* the invocations that may be under way at a time
  Callers,           \* caller instances
  Actors,
  PortfolioCallers,  \* the two lists of the configuration
  AdminCallers,
  Invocations,       \* what callers may send
  Memberships,       \* (organization, actor) pairs that may be members
  Grants,            \* (organization, actor, permission) that may be granted
  MaxActivations     \* bounds how often the plugin is activated

VARIABLES
  members,     \* what organization membership knows: (organization, actor)
  grants,      \* what access control knows: (organization, actor, permission)
  lifecycle,   \* "inactive", "activating", "active", or "closing"
  activation,  \* how often it has been activated; each has a pool of its own
  prepared,    \* the pool that handlers take, or None
  open,        \* the pools that give out connections
  at,          \* what a call waits for
  call,        \* what it was sent
  reply,       \* what a service has replied to it
  pool,        \* the pool it has taken
  failure,     \* the domain failure that the store returned to it
  told,        \* what its caller is told
  truths       \* history: what has been true of it since it began

services == <<members, grants>>
plugin == <<lifecycle, activation, prepared, open>>
calls == <<at, call, reply, pool, failure, told, truths>>
vars == <<tables, services, plugin, calls>>

-----------------------------------------------------------------------------
(* The handlers *)

Permissions == {"read", "write", "admin"}

(* What each error type has a name for; the rest is an InvalidRequest. *)
PortfolioNamed ==
  {"NotFound", "Archived", "RevisionConflict", "IdempotencyConflict",
   "OperationInProgress", "AlreadyExists"}
ReadNamed == {"NotFound"}

(* A mistake: the map forgets the conflict of positions. *)
AdminNamedForgetting ==
  {"NotFound", "Archived", "RevisionConflict", "IdempotencyConflict",
   "OperationInProgress", "AlreadyAttached", "NotAttached"}

AdminNamed ==
  {"NotFound", "Archived", "RevisionConflict", "IdempotencyConflict",
   "OperationInProgress", "AlreadyAttached", "NotAttached", "PositionConflict"}

Handler(callers, permission, named) ==
  [callers |-> callers, permission |-> permission, named |-> named]

create_initiative == Handler(PortfolioCallers, "write", PortfolioNamed)
update_initiative == Handler(PortfolioCallers, "write", PortfolioNamed)
add_initiative_update == Handler(PortfolioCallers, "write", PortfolioNamed)
get_initiative == Handler(PortfolioCallers, "read", ReadNamed)
list_initiatives == Handler(PortfolioCallers, "read", ReadNamed)
list_initiative_projects == Handler(PortfolioCallers, "read", ReadNamed)
list_initiative_updates == Handler(PortfolioCallers, "read", ReadNamed)
read_rollup == Handler(PortfolioCallers, "read", ReadNamed)
archive_initiative == Handler(AdminCallers, "admin", AdminNamed)
attach_project == Handler(AdminCallers, "admin", AdminNamed)
update_project_snapshot == Handler(AdminCallers, "admin", AdminNamed)
detach_project == Handler(AdminCallers, "admin", AdminNamed)
reorder_projects == Handler(AdminCallers, "admin", AdminNamed)

Reads ==
  {"get_initiative", "list_initiatives", "list_initiative_projects",
   "list_initiative_updates", "read_rollup"}

HandlerOf(op) ==
  CASE op = "create_initiative" -> create_initiative
    [] op = "update_initiative" -> update_initiative
    [] op = "add_initiative_update" -> add_initiative_update
    [] op = "get_initiative" -> get_initiative
    [] op = "list_initiatives" -> list_initiatives
    [] op = "list_initiative_projects" -> list_initiative_projects
    [] op = "list_initiative_updates" -> list_initiative_updates
    [] op = "read_rollup" -> read_rollup
    [] op = "archive_initiative" -> archive_initiative
    [] op = "attach_project" -> attach_project
    [] op = "update_project_snapshot" -> update_project_snapshot
    [] op = "detach_project" -> detach_project
    [] op = "reorder_projects" -> reorder_projects

(* portfolio_error, read_error, admin_error *)
Named(op, why) == IF why \in HandlerOf(op).named THEN why ELSE "InvalidRequest"

-----------------------------------------------------------------------------
(* Invocations *)

ReadRequest == [op: Reads, initiative: Initiatives]

(* caller is that of the context, None if it has none; the assertion names *)
(* an actor and the operation it is for, None if there is none that        *)
(* verifies; a flaw is in the ids that authorize looks at, or elsewhere.   *)
(* The scope of the request is set by the handler.                         *)
Assertion == [subject: Actors, audience: Operations \cup Reads]

Invocation ==
  [caller: Callers \cup {None}, assertion: Assertion \cup {None},
   flaw: {"none", "ids", "request"}, request: Requests \cup ReadRequest]

OrganizationOfCall(v) == OrganizationOf[v.request.initiative]

(* What the store is run with: the receipt belongs to caller and actor. *)
Scoped(v) == [v.request EXCEPT !.scope = <<v.caller, v.assertion.subject>>]

ASSUME ScopesAreCallersAndActors == Scopes = Callers \X Actors

ASSUME ServicesAreTyped ==
  /\ Memberships \subseteq Organizations \X Actors
  /\ Grants \subseteq Organizations \X Actors \X Permissions

ASSUME InvocationsAreTyped ==
  /\ Invocations \subseteq Invocation
  /\ \A v \in Invocations :
       v.request.op \in Operations /\ v.caller # None /\ v.assertion # None =>
         Scoped(v) \in Requests

ASSUME NoneIsNotSent ==
  /\ None \notin Invocations
  /\ None \notin Nat
  /\ None \notin {"yes", "no", "failed", "Forbidden", "Unauthenticated"}
  /\ None \notin PortfolioCallers \cup AdminCallers

IsMember(v) == <<OrganizationOfCall(v), v.assertion.subject>> \in members
IsPermitted(v) ==
  <<OrganizationOfCall(v), v.assertion.subject,
    HandlerOf(v.request.op).permission>> \in grants

(* What holds of an invocation now, as far as the services know. *)
Holding(v) ==
  IF v = None \/ v.assertion = None THEN {}
  ELSE {t \in {"member", "permitted"} :
          (t = "member" /\ IsMember(v)) \/ (t = "permitted" /\ IsPermitted(v))}

(* truths' after a step: a call keeps what was true while it ran. *)
Observe ==
  truths' = [c \in Calls |->
               IF call'[c] = None THEN {} ELSE truths[c] \cup Holding(call[c])']

Stages ==
  {"idle", "membership", "access", "connection", "store", "return", "abandoned"}

Outcomes == Failures \cup {"Unauthenticated", "Forbidden", "Runtime", "ok"}

-----------------------------------------------------------------------------
Init ==
  /\ TablesInit
  /\ members \in SUBSET Memberships
  /\ grants \in SUBSET Grants
  /\ lifecycle = "inactive"
  /\ activation = 0
  /\ prepared = None
  /\ open = {}
  /\ at = [c \in Calls |-> "idle"]
  /\ call = [c \in Calls |-> None]
  /\ reply = [c \in Calls |-> None]
  /\ pool = [c \in Calls |-> None]
  /\ failure = [c \in Calls |-> None]
  /\ told = [c \in Calls |-> None]
  /\ truths = [c \in Calls |-> {}]

Wait(c, for) == at' = [at EXCEPT ![c] = for]

(* The handler returns: its caller is told. *)
Tell(c, what) ==
  /\ told' = [told EXCEPT ![c] = what]
  /\ Wait(c, "return")

(* authorize, up to its first await, in the order of its checks. *)
Refused(v) ==
  IF v.caller \notin HandlerOf(v.request.op).callers THEN "Forbidden"
  ELSE IF v.assertion = None \/ v.assertion.audience # v.request.op
       THEN "Unauthenticated"
  ELSE IF v.flaw = "ids" THEN "Forbidden"
  ELSE None

InvokeWith(c, v) ==
  /\ at[c] = "idle"
  /\ call' = [call EXCEPT ![c] = v]
  /\ IF Refused(v) # None
     THEN Tell(c, Refused(v))
     ELSE Wait(c, "membership") /\ UNCHANGED told
  /\ UNCHANGED <<tables, services, plugin, reply, pool, failure>>
  /\ Observe

Invoke(c) == \E v \in Invocations : InvokeWith(c, v)

(* A service decides and replies, or fails; the plugin hears of it later.  *)
(* A domain error of a service is a runtime failure of the plugin.         *)
Reply(c, yes) ==
  /\ reply[c] = None
  /\ reply' = [reply EXCEPT ![c] = IF yes THEN "yes" ELSE "no"]
  /\ UNCHANGED <<tables, services, plugin, at, call, pool, failure, told>>
  /\ Observe

ServiceFails(c) ==
  /\ at[c] \in {"membership", "access"}
  /\ reply[c] = None
  /\ reply' = [reply EXCEPT ![c] = "failed"]
  /\ UNCHANGED <<tables, services, plugin, at, call, pool, failure, told>>
  /\ Observe

MembershipReplies(c) == at[c] = "membership" /\ Reply(c, IsMember(call[c]))

AccessReplies(c) == at[c] = "access" /\ Reply(c, IsPermitted(call[c]))

CheckMembership(c) ==
  /\ at[c] = "membership"
  /\ reply[c] # None
  /\ CASE reply[c] = "yes" -> Wait(c, "access") /\ UNCHANGED told
       [] reply[c] = "no" -> Tell(c, "Forbidden")
       [] reply[c] = "failed" -> Tell(c, "Runtime")
  /\ reply' = [reply EXCEPT ![c] = None]
  /\ UNCHANGED <<tables, services, plugin, call, pool, failure>>
  /\ Observe

(* A mistake: the decision of access control is not looked at. *)
DecisionIgnored(c) == reply[c] # "failed"

Decision(c) == reply[c] = "yes"

(* Once permitted, the handler looks at the rest of the request and takes  *)
(* the pool, all before it awaits again.                                   *)
CheckAccess(c) ==
  /\ at[c] = "access"
  /\ reply[c] # None
  /\ CASE reply[c] = "failed" -> Tell(c, "Runtime") /\ UNCHANGED pool
       [] reply[c] # "failed" /\ ~Decision(c) ->
            Tell(c, "Forbidden") /\ UNCHANGED pool
       [] Decision(c) /\ call[c].flaw = "request" ->
            Tell(c, "InvalidRequest") /\ UNCHANGED pool
       [] Decision(c) /\ call[c].flaw # "request" /\ prepared = None ->
            Tell(c, "Runtime") /\ UNCHANGED pool
       [] Decision(c) /\ call[c].flaw # "request" /\ prepared # None ->
            /\ pool' = [pool EXCEPT ![c] = prepared]
            /\ Wait(c, "connection")
            /\ UNCHANGED told
  /\ reply' = [reply EXCEPT ![c] = None]
  /\ UNCHANGED <<tables, services, plugin, call, failure>>
  /\ Observe

(* The pool gives a connection, or is closed, or fails. *)
Connect(c) ==
  /\ at[c] = "connection"
  /\ \/ pool[c] \in open /\ Wait(c, "store") /\ UNCHANGED told
     \/ Tell(c, "Runtime")
  /\ UNCHANGED <<tables, services, plugin, call, reply, pool, failure>>
  /\ Observe

(* The store refuses: the error type names the failure, or does not. *)
StoreRefuses(c, why) ==
  /\ failure' = [failure EXCEPT ![c] = why]
  /\ Tell(c, Named(call[c].request.op, why))
  /\ UNCHANGED tables

(* A command of storage.rs, from its receipt to its commit. *)
RunCommand(c) ==
  /\ at[c] = "store"
  /\ call[c].request.op \in Operations
  /\ LET r == Scoped(call[c])
         receipt == receipts[KeyOf(r)]
     IN  \/ /\ receipt = None
            /\ Refusal(r) # None
            /\ StoreRefuses(c, Refusal(r))
         \/ /\ Apply(r)
            /\ told' \in {[told EXCEPT ![c] = what] : what \in {"ok", "Runtime"}}
            /\ Wait(c, "return")
            /\ UNCHANGED failure
         \/ /\ receipt # None
            /\ receipt.hash # r
            /\ StoreRefuses(c, "IdempotencyConflict")
         \/ /\ receipt # None
            /\ receipt.hash = r
            /\ Tell(c, "ok")
            /\ UNCHANGED <<tables, failure>>
         \/ /\ receipt # None
            /\ StoreRefuses(c, "OperationInProgress")
         \/ /\ Tell(c, "Runtime")
            /\ UNCHANGED <<tables, failure>>
  /\ UNCHANGED <<services, plugin, call, reply, pool>>
  /\ Observe

(* These ask for the initiative first, and take a connection for each      *)
(* question: between two of them the pool may be closed.                   *)
Questions == {"list_initiative_projects", "list_initiative_updates", "read_rollup"}

(* A read of storage.rs; list_initiatives needs no initiative. *)
RunRead(c) ==
  /\ at[c] = "store"
  /\ call[c].request.op \in Reads
  /\ \/ /\ call[c].request.op # "list_initiatives"
        /\ initiatives[call[c].request.initiative] = None
        /\ StoreRefuses(c, "NotFound")
     \/ /\ \/ call[c].request.op = "list_initiatives"
           \/ initiatives[call[c].request.initiative] # None
        /\ \/ Tell(c, "ok")
           \/ call[c].request.op \in Questions /\ Wait(c, "connection") /\ UNCHANGED told
        /\ UNCHANGED <<tables, failure>>
     \/ /\ Tell(c, "Runtime")
        /\ UNCHANGED <<tables, failure>>
  /\ UNCHANGED <<services, plugin, call, reply, pool>>
  /\ Observe

(* The handlers of cs are dropped; of their commands, those in left may    *)
(* still be under way in the database.                                     *)
Forget(cs, left) ==
  /\ at' = [c \in Calls |->
             IF c \in left THEN "abandoned" ELSE IF c \in cs THEN "idle" ELSE at[c]]
  /\ call' = [c \in Calls |-> IF c \in cs \ left THEN None ELSE call[c]]
  /\ reply' = [c \in Calls |-> IF c \in cs THEN None ELSE reply[c]]
  /\ failure' = [c \in Calls |-> IF c \in cs THEN None ELSE failure[c]]
  /\ told' = [c \in Calls |-> IF c \in cs THEN None ELSE told[c]]

UnderWay(c) ==
  at[c] \in {"store", "abandoned"} /\ call[c].request.op \in Operations

(* The caller is told, or has gone (a cancelled or expired call). *)
Leave(c) ==
  LET left == {d \in {c} : UnderWay(d)}
  IN  /\ at[c] \notin {"idle", "abandoned"}
      /\ Forget({c}, left)
      /\ pool' = [d \in Calls |-> IF d \in {c} \ left THEN None ELSE pool[d]]
      /\ UNCHANGED <<tables, services, plugin>>
      /\ Observe

(* An abandoned command commits or rolls back, and nobody is told. *)
EndAbandoned(c) ==
  /\ at[c] = "abandoned"
  /\ Apply(Scoped(call[c])) \/ UNCHANGED tables
  /\ Forget({c}, {})
  /\ pool' = [pool EXCEPT ![c] = None]
  /\ UNCHANGED <<services, plugin>>
  /\ Observe

-----------------------------------------------------------------------------
(* What happens beside the calls *)

ChangeMembership ==
  /\ \E m \in Memberships :
       members' = IF m \in members THEN members \ {m} ELSE members \cup {m}
  /\ UNCHANGED <<tables, grants, plugin, at, call, reply, pool, failure, told>>
  /\ Observe

ChangeGrant ==
  /\ \E g \in Grants :
       grants' = IF g \in grants THEN grants \ {g} ELSE grants \cup {g}
  /\ UNCHANGED <<tables, members, plugin, at, call, reply, pool, failure, told>>
  /\ Observe

(* activate asks for the secret. *)
BeginActivation ==
  /\ lifecycle = "inactive"
  /\ activation < MaxActivations
  /\ lifecycle' = "activating"
  /\ UNCHANGED <<tables, services, activation, prepared, open,
                 at, call, reply, pool, failure, told>>
  /\ Observe

(* The secret is refused or late, or the schema is not as prepare expects. *)
ActivationFails ==
  /\ lifecycle = "activating"
  /\ lifecycle' = "inactive"
  /\ UNCHANGED <<tables, services, activation, prepared, open,
                 at, call, reply, pool, failure, told>>
  /\ Observe

(* The secret is resolved and the pool prepared: handlers may take it. *)
Activate ==
  /\ lifecycle = "activating"
  /\ activation' = activation + 1
  /\ prepared' = activation + 1
  /\ open' = open \cup {activation + 1}
  /\ lifecycle' = "active"
  /\ UNCHANGED <<tables, services, at, call, reply, pool, failure, told>>
  /\ Observe

(* A mistake: the pool is closed, but handlers go on to take it. *)
DeactivateKeeping ==
  /\ lifecycle = "active"
  /\ open' = open \ {prepared}
  /\ lifecycle' = "closing"
  /\ UNCHANGED <<tables, services, activation, prepared,
                 at, call, reply, pool, failure, told>>
  /\ Observe

(* A mistake: the pool is closed and not taken; calls go on to take it,    *)
(* and a close that waits to be alone does not stop them.                  *)
DeactivateWaiting ==
  /\ lifecycle = "active"
  /\ lifecycle' = "closing"
  /\ UNCHANGED <<tables, services, activation, prepared, open,
                 at, call, reply, pool, failure, told>>
  /\ Observe

(* deactivate takes the pool and closes it: from now on it gives out no    *)
(* connection.                                                             *)
Deactivate ==
  /\ lifecycle = "active"
  /\ prepared' = None
  /\ open' = open \ {prepared}
  /\ lifecycle' = "closing"
  /\ UNCHANGED <<tables, services, activation,
                 at, call, reply, pool, failure, told>>
  /\ Observe

(* A mistake: close() forgets the connections of calls that have gone. *)
ClosedOverAbandoned ==
  /\ lifecycle = "closing"
  /\ \A c \in Calls : at[c] = "store" => pool[c] # activation
  /\ lifecycle' = "inactive"
  /\ UNCHANGED <<tables, services, activation, prepared, open,
                 at, call, reply, pool, failure, told>>
  /\ Observe

(* close() ends when the pool has its connections back. *)
Closed ==
  /\ lifecycle = "closing"
  /\ \A c \in Calls : at[c] \in {"store", "abandoned"} => pool[c] # activation
  /\ lifecycle' = "inactive"
  /\ UNCHANGED <<tables, services, activation, prepared, open,
                 at, call, reply, pool, failure, told>>
  /\ Observe

(* The process dies: what is not in the database is gone. *)
Crash ==
  /\ lifecycle # "inactive"
  /\ lifecycle' = "inactive"
  /\ prepared' = None
  /\ open' = {}
  /\ Forget(Calls, {c \in Calls : UnderWay(c)})
  /\ pool' = [c \in Calls |-> None]
  /\ UNCHANGED <<tables, services, activation>>
  /\ Observe

Run(c) ==
  \/ CheckMembership(c) \/ CheckAccess(c)
  \/ Connect(c) \/ RunCommand(c) \/ RunRead(c)

Next ==
  \/ \E c \in Calls :
       \/ Invoke(c) \/ Run(c) \/ Leave(c) \/ EndAbandoned(c)
       \/ MembershipReplies(c) \/ AccessReplies(c) \/ ServiceFails(c)
  \/ ChangeMembership \/ ChangeGrant
  \/ BeginActivation \/ ActivationFails \/ Activate
  \/ Deactivate \/ Closed \/ Crash

Spec == Init /\ [][Next]_vars

-----------------------------------------------------------------------------
(* Properties *)

(* The types of what is not in the tables; in particular the pool that     *)
(* handlers take is always one that gives out connections, and there is    *)
(* never more than one of those.                                           *)
TypeOK ==
  /\ members \subseteq Memberships
  /\ grants \subseteq Grants
  /\ lifecycle \in {"inactive", "activating", "active", "closing"}
  /\ activation \in Nat
  /\ open = IF prepared = None THEN {} ELSE {prepared}
  /\ prepared = IF lifecycle = "active" THEN activation ELSE None
  /\ at \in [Calls -> Stages]
  /\ call \in [Calls -> Invocations \cup {None}]
  /\ reply \in [Calls -> {None, "yes", "no", "failed"}]
  /\ pool \in [Calls -> Nat \cup {None}]
  /\ failure \in [Calls -> Failures \cup {None}]
  /\ told \in [Calls -> Outcomes \cup {None}]
  /\ truths \in [Calls -> SUBSET {"member", "permitted"}]

(* What tells a caller nothing of the organization but that it is refused, *)
(* or that something failed.                                               *)
Silence == {"Forbidden", "Unauthenticated", "Runtime"}

Authorized(c) ==
  /\ call[c].caller \in HandlerOf(call[c].request.op).callers
  /\ call[c].assertion # None
  /\ call[c].assertion.audience = call[c].request.op
  /\ {"member", "permitted"} \subseteq truths[c]

(* Whoever is not admitted learns nothing and does nothing: a call that    *)
(* reaches the store, or that is told more than a refusal (even that its   *)
(* request is flawed, or that an initiative does not exist), is from a     *)
(* listed caller, with an assertion for this operation, for an actor who   *)
(* has been a member of this organization and has had the permission at    *)
(* some time during this very call, whatever was withdrawn meanwhile.      *)
OnlyTheAuthorized ==
  \A c \in Calls :
    \/ at[c] \in {"connection", "store", "abandoned"}
    \/ at[c] = "return" /\ told[c] \notin Silence
    => Authorized(c)

(* A failure of the store keeps its name on its way to the caller: the     *)
(* catch-all of the three error maps never takes one for a flaw of the     *)
(* request, because no operation fails in a way its error type has no name *)
(* for.                                                                    *)
FailuresKeepTheirNames ==
  \A c \in Calls : failure[c] # None => told[c] = failure[c]

(* A call that took the pool of an earlier activation never runs in the    *)
(* store once that activation has ended: deactivate closes the pool that   *)
(* it takes, and waits for those that are in it, also when their callers   *)
(* have gone.  Only what a dead process has left behind may be there.      *)
NoStoreAfterDeactivation ==
  \A c \in Calls :
    at[c] = "store" \/ (at[c] = "abandoned" /\ pool[c] # None) =>
      pool[c] = activation /\ lifecycle \in {"active", "closing"}

=============================================================================
