---------------------------- MODULE MCPluginCall ------------------------------
(* Small instances of PluginCall. *)
EXTENDS PluginCall, TLC

CONSTANTS c1, c2

(* i1 belongs to o1, i2 to o2. *)
Owners == [i \in Initiatives |-> IF i = "i1" THEN "o1" ELSE "o2"]

CallersByActors == Callers \X Actors

Creating(k, i) ==
  [scope |-> <<"portal", "a1">>, op |-> "create_initiative", key |-> k,
   initiative |-> i, name |-> "n1", details |-> "d1"]
Attaching(k, i, revision, p, position) ==
  [scope |-> <<"console", "a1">>, op |-> "attach_project", key |-> k,
   initiative |-> i, revision |-> revision,
   project |-> p, snapshot |-> "x1", position |-> position]
Reading(op, i) == [op |-> op, initiative |-> i]

(* A call that is right in all that authorize looks at before it awaits. *)
Call(caller, request) ==
  [caller |-> caller, flaw |-> "none", request |-> request,
   assertion |-> [subject |-> "a1", audience |-> request.op]]

-----------------------------------------------------------------------------
(* A project attached twice, and two at one position: failures of the      *)
(* store.  A reader asks for what does not exist, and for another          *)
(* organization's initiative.                                              *)
Commands ==
  {Creating("k1", "i1"), Creating("k2", "i1"),
   Attaching("k1", "i1", 1, "p1", 0),
   Attaching("k2", "i1", 2, "p1", 1),
   Attaching("k3", "i1", 2, "p2", 0)}

CommandsOfAll ==
  {[r EXCEPT !.scope = s] : r \in Commands, s \in Scopes}

Right ==
  {Call(r.scope[1], r) : r \in Commands}
    \cup {Call("portal", Reading("read_rollup", i)) : i \in Initiatives}

(* What goes wrong before the store: a caller that is not in the list, no  *)
(* caller, no assertion, one for another operation, flawed ids, and a      *)
(* flawed request.                                                         *)
Wrong ==
  LET write == Call("portal", Creating("k1", "i1"))
      admin == Call("console", Attaching("k1", "i1", 1, "p1", 0))
  IN  {[admin EXCEPT !.caller = "portal"],
       [write EXCEPT !.caller = None],
       [write EXCEPT !.assertion = None],
       [admin EXCEPT !.assertion.audience = "read_rollup"],
       [write EXCEPT !.flaw = "ids"],
       [admin EXCEPT !.flaw = "request"]}

RightAndWrong == Right \cup Wrong

(* The member a1 of o1 may get any permission in it, and one in o2, where  *)
(* a1 may become a member too.                                             *)
SomeGrants ==
  {<<"o1", "a1", p>> : p \in Permissions} \cup {<<"o2", "a1", "read">>}

Everyone == Organizations \X Actors
Everything == Organizations \X Actors \X Permissions
=============================================================================
