----------------------------- MODULE AgentTools ------------------------------
(***************************************************************************)
(* The two agent-tool adapters over the plugin: an agent executes a tool   *)
(* by its name, the adapter decodes the arguments, invokes the operation   *)
(* of the tool and translates what it is told.  A call of PluginCall is    *)
(* here the invocation that an execution of a tool makes.                  *)
(*                                                                         *)
(* A tool is named by the operation it stands for.  Adapters keep no state *)
(* and call through the runtime, which gives the adapter's instance as the *)
(* caller; the agent's own assertion travels with the context.             *)
(***************************************************************************)
EXTENDS PluginCall

CONSTANTS
  AgentTool,       \* instances of the two adapters
  AdminAgentTool,
  ToolCalls        \* what agents may execute

VARIABLES
  tool,      \* the tool that is executed, or None
  answered   \* what the agent is answered, or None

agentVars == <<vars, tool, answered>>

-----------------------------------------------------------------------------
(* The catalogs *)

PortfolioTools ==
  {"create_initiative", "get_initiative", "list_initiatives",
   "update_initiative", "list_initiative_projects", "add_initiative_update",
   "list_initiative_updates", "read_rollup"}

AdminTools ==
  {"archive_initiative", "attach_project", "update_project_snapshot",
   "detach_project", "reorder_projects"}

Tools == PortfolioTools \cup AdminTools

(* A mistake: a mutation among the tools that may run side by side. *)
ParallelSafeTooMuch ==
  {"get_initiative", "list_initiatives", "list_initiative_projects",
   "list_initiative_updates", "read_rollup", "create_initiative"}

(* ToolExecutionClass::ParallelSafe; the others are Exclusive. *)
ParallelSafe ==
  {"get_initiative", "list_initiatives", "list_initiative_projects",
   "list_initiative_updates", "read_rollup"}

AdapterOf(name) == IF name \in AdminTools THEN AdminAgentTool ELSE AgentTool

-----------------------------------------------------------------------------
(* Answers *)

Plain(kind) == [kind |-> kind, reason |-> None]
Rejected(reason) == [kind |-> "ExecutionFailed", reason |-> reason]

MutationRejected ==
  {"AlreadyExists", "Archived", "IdempotencyConflict", "OperationInProgress",
   "RevisionConflict"}

(* A mistake: the map of the administrative tools lacks a failure. *)
AdminRejectedForgetting ==
  {"Archived", "IdempotencyConflict", "NotAttached", "OperationInProgress",
   "PositionConflict", "RevisionConflict"}

AdminRejected ==
  {"AlreadyAttached", "Archived", "IdempotencyConflict", "NotAttached",
   "OperationInProgress", "PositionConflict", "RevisionConflict"}

(* impl_read_error, impl_mutation_error, impl_admin_error: the reason codes *)
(* that the errors of a tool's operation have.                             *)
RejectedBy(name) ==
  IF name \in AdminTools THEN AdminRejected
  ELSE IF name \in ParallelSafe THEN {} ELSE MutationRejected

AnswerOf(name, what) ==
  CASE what = "ok" -> Plain("Ok")
    [] what = "Runtime" -> Plain("Runtime")
    [] what = "InvalidRequest" -> Plain("InvalidArguments")
    [] what = "NotFound" -> Plain("NotFound")
    [] what \in {"Forbidden", "Unauthenticated"} -> Plain("PermissionDenied")
    [] what \in RejectedBy(name) -> Rejected(what)
    [] OTHER -> Rejected("unknown_domain_error")

-----------------------------------------------------------------------------
ASSUME NoneIsNoName == None \notin Tools \cup {x.name : x \in ToolCalls}

(* The arguments of a ToolCall are an invocation, or None if they do not   *)
(* decode; a name may be of no tool.                                       *)
ASSUME ToolCallsAreTyped ==
  \A x \in ToolCalls :
    x.name \in Tools /\ x.invocation # None =>
      /\ x.invocation \in Invocations
      /\ x.invocation.caller = AdapterOf(x.name)
      /\ x.invocation.request.op = x.name

AgentInit ==
  /\ Init
  /\ tool = [c \in Calls |-> None]
  /\ answered = [c \in Calls |-> None]

Answer(c, what) == answered' = [answered EXCEPT ![c] = what]

(* execute, up to the invocation. *)
Execute(c) ==
  \E x \in ToolCalls :
    /\ tool[c] = None
    /\ tool' = [tool EXCEPT ![c] = x.name]
    /\ \/ /\ x.name \notin Tools
          /\ Answer(c, Plain("NotFound"))
          /\ UNCHANGED vars
       \/ /\ x.name \in Tools /\ x.invocation = None
          /\ Answer(c, Plain("InvalidArguments"))
          /\ UNCHANGED vars
       \/ /\ x.name \in Tools /\ x.invocation # None
          /\ InvokeWith(c, x.invocation)
          /\ UNCHANGED answered

(* execute, from the outcome of the invocation on; a response may fail to  *)
(* be serialized.                                                          *)
Report(c) ==
  /\ at[c] = "return"
  /\ answered[c] = None
  /\ \/ Answer(c, AnswerOf(tool[c], told[c]))
     \/ told[c] = "ok" /\ Answer(c, Plain("Runtime"))
  /\ UNCHANGED <<vars, tool>>

(* The agent has its answer, or has given up. *)
Depart(c) ==
  /\ tool[c] # None
  /\ \/ Leave(c)
     \/ at[c] \in {"idle", "abandoned"} /\ UNCHANGED vars
  /\ tool' = [tool EXCEPT ![c] = None]
  /\ Answer(c, None)

PluginStep ==
  /\ \/ \E c \in Calls :
          \/ Run(c) \/ EndAbandoned(c)
          \/ MembershipReplies(c) \/ AccessReplies(c) \/ ServiceFails(c)
     \/ BeginActivation \/ ActivationFails \/ Activate
     \/ Deactivate \/ Closed
  /\ UNCHANGED <<tool, answered>>

(* Memberships and permissions are given and withdrawn. *)
RightsChange ==
  /\ ChangeMembership \/ ChangeGrant
  /\ UNCHANGED <<tool, answered>>

(* The adapters die with the process. *)
AgentCrash ==
  /\ Crash
  /\ tool' = [c \in Calls |-> None]
  /\ answered' = [c \in Calls |-> None]

ToolNext ==
  \/ \E c \in Calls : Execute(c) \/ Report(c) \/ Depart(c)
  \/ PluginStep
  \/ AgentCrash

AgentNext == ToolNext \/ RightsChange

AgentSpec == AgentInit /\ [][AgentNext]_agentVars

-----------------------------------------------------------------------------
(* Properties *)

(* What the store refuses comes through both translations, the handler's   *)
(* and the adapter's, to the agent under its own name: a missing row as    *)
(* NotFound, a violated bound as InvalidArguments, everything else as the  *)
(* reason of a failed execution.  So an agent that is told to retry, or to *)
(* read the revision again, is told so for that reason and no other, and   *)
(* no failure ends as unknown_domain_error.                                *)
AgentsLearnTheFailure ==
  \A c \in Calls :
    answered[c] # None =>
      /\ failure[c] # None =>
           answered[c] = CASE failure[c] = "NotFound" -> Plain("NotFound")
                           [] failure[c] = "InvalidRequest" -> Plain("InvalidArguments")
                           [] OTHER -> Rejected(failure[c])
      /\ answered[c].kind = "ExecutionFailed" => answered[c].reason = failure[c]

(* Tools that the catalogs let run side by side change nothing; and the    *)
(* projects of an initiative, and its archived flag, change only through a *)
(* tool of the administrative adapter, whatever the agent may do, also     *)
(* after it has given up.                                                  *)
EndsInStore(c, names) ==
  /\ at[c] \in {"store", "abandoned"}
  /\ at'[c] \in {"return", "idle"}
  /\ call[c].request.op \in names

Archived(i) == initiatives[i] # None /\ initiatives[i].archived

ToolsKeepTheirPlace ==
  [][/\ tables' # tables => \E c \in Calls : EndsInStore(c, Tools \ ParallelSafe)
     /\ projects' # projects \/ (\E i \in Initiatives : Archived(i)' # Archived(i))
          => \E c \in Calls : EndsInStore(c, AdminTools)
    ]_agentVars

=============================================================================
