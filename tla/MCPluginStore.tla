---------------------------- MODULE MCPluginStore -----------------------------
(* Small instances of PluginStore. *)
EXTENDS PluginStore, TLC

CONSTANTS c1, c2, s1, s2

OneOwner == [i \in Initiatives |-> "o1"]
CallersByActors == Callers \X Actors

Creating(k) ==
  [scope |-> <<"portal", "a1">>, op |-> "create_initiative", key |-> k,
   initiative |-> "i1", name |-> "n1", details |-> "d1"]

Call(r) ==
  [caller |-> "portal", flaw |-> "none", request |-> r,
   assertion |-> [subject |-> "a1", audience |-> r.op]]

(* One command, which calls wait for each other to do, and one read. *)
Commands == {Creating(k) : k \in Keys}
Sent ==
  {Call(r) : r \in Commands \cup {[op |-> "read_rollup", initiative |-> "i1"]}}

OneMember == {<<"o1", "a1">>}
ReadAndWrite == {<<"o1", "a1", "read">>, <<"o1", "a1", "write">>}

(* Nothing is given or withdrawn while the calls run. *)
SettledInit == ComposedInit /\ members = Memberships /\ grants = Grants
Settled == SettledInit /\ [][PluginNext]_allVars /\ Fairness
=============================================================================
