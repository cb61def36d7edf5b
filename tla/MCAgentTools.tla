---------------------------- MODULE MCAgentTools ------------------------------
(* Small instances of AgentTools. *)
EXTENDS AgentTools, TLC

CONSTANTS c1, c2

OneOwner == [i \in Initiatives |-> "o1"]
CallersByActors == Callers \X Actors

Request1(op, k) ==
  [scope |-> <<AdapterOf(op), "a1">>, op |-> op, key |-> k, initiative |-> "i1"]
Creating(k) == Request1("create_initiative", k) @@ [name |-> "n1", details |-> "d1"]
Archiving(k, revision) ==
  Request1("archive_initiative", k) @@ [revision |-> revision]
Attaching(k, revision, p, position) ==
  Request1("attach_project", k) @@
    [revision |-> revision, project |-> p, snapshot |-> "x1", position |-> position]

(* An initiative is created twice, a project attached twice and at a taken *)
(* position, with an old revision and after an archiving.                  *)
Commands ==
  {Creating("k1"), Creating("k2"),
   Attaching("k1", 1, "p1", 0), Attaching("k2", 2, "p1", 1),
   Attaching("k3", 2, "p2", 0), Archiving("k1", 2)}

Execution(name, invocation) == [name |-> name, invocation |-> invocation]

Asserted(request) ==
  [caller |-> AdapterOf(request.op), flaw |-> "none", request |-> request,
   assertion |-> [subject |-> "a1", audience |-> request.op]]

Rollup == [op |-> "read_rollup", initiative |-> "i1"]
Called == {Asserted(r) : r \in Commands \cup {Rollup}}
Flawed ==
  {[Asserted(Creating("k1")) EXCEPT !.flaw = "request"],
   [Asserted(Creating("k1")) EXCEPT !.assertion.audience = "read_rollup"]}

AllInvocations == Called \cup Flawed

AllToolCalls ==
  {Execution(v.request.op, v) : v \in AllInvocations}
    \cup {Execution("attach_project", None), Execution("no_such_tool", None)}

AllPermissions == {<<"o1", "a1", p>> : p \in Permissions}
Everyone == {<<"o1", "a1">>}

(* Two executions run side by side; it does not matter which is which. *)
SymmetricCalls == Permutations(Calls)

(* Nothing is given or withdrawn while the tools run. *)
SettledInit == AgentInit /\ members = Memberships /\ grants = Grants
Settled == SettledInit /\ [][ToolNext]_agentVars
=============================================================================
