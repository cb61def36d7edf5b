--------------------------- MODULE PortfolioInputs ----------------------------
(* Requests for the model-checking runs: constructors in the argument      *)
(* order of storage.rs, and the request sets of the runs.                  *)
EXTENDS Portfolio

Create(c, k, i, n) ==
  [scope |-> c, op |-> "create_initiative", key |-> k, initiative |-> i,
   name |-> n, details |-> "d1"]
Patch(c, k, i, revision, n) ==
  [scope |-> c, op |-> "update_initiative", key |-> k, initiative |-> i,
   revision |-> revision, name |-> n, details |-> "d2"]
Report(c, k, i, u, revision, health) ==
  [scope |-> c, op |-> "add_initiative_update", key |-> k, initiative |-> i,
   revision |-> revision, update |-> u, health |-> health]
Archive(c, k, i, revision) ==
  [scope |-> c, op |-> "archive_initiative", key |-> k, initiative |-> i,
   revision |-> revision]
Attach(c, k, i, revision, p, x, position) ==
  [scope |-> c, op |-> "attach_project", key |-> k, initiative |-> i,
   revision |-> revision, project |-> p, snapshot |-> x, position |-> position]
Observe(c, k, i, p, membership, x) ==
  [scope |-> c, op |-> "update_project_snapshot", key |-> k, initiative |-> i,
   project |-> p, membership |-> membership, snapshot |-> x]
Detach(c, k, i, revision, p, membership) ==
  [scope |-> c, op |-> "detach_project", key |-> k, initiative |-> i,
   revision |-> revision, project |-> p, membership |-> membership]
Item(p, membership, position) ==
  [project |-> p, membership |-> membership, position |-> position]
Reorder(c, k, i, revision, items) ==
  [scope |-> c, op |-> "reorder_projects", key |-> k, initiative |-> i,
   revision |-> revision, items |-> items]

(* i1 and i2 belong to organization o1, i3 to o2. *)
Owners == [i \in Initiatives |-> IF i = "i3" THEN "o2" ELSE "o1"]

-----------------------------------------------------------------------------
(* Projects are attached, refreshed, detached and reordered for the same   *)
(* revisions, and two initiatives report under one update_id: every way in *)
(* which a transaction waits for another.                                  *)
MembershipRace ==
  {Create("c1", "k1", "i1", "n1"),
   Create("c1", "k2", "i2", "n1"),
   Attach("c1", "k1", "i1", 1, "p1", "x1", 0),
   Attach("c1", "k2", "i1", 2, "p2", "x1", 1),
   Observe("c1", "k1", "i1", "p1", 1, "x2"),
   Detach("c1", "k1", "i1", 3, "p1", 1),
   Reorder("c1", "k1", "i1", 3, <<Item("p1", 1, 1), Item("p2", 1, 0)>>),
   Report("c1", "k1", "i1", "u1", 2, "at_risk"),
   Report("c1", "k2", "i2", "u1", 1, "on_track")}

(* Two initiatives of one organization and one of another, whose updates   *)
(* compete for one update_id while revisions move and i1 is archived.      *)
UpdateRace ==
  {Create("c1", "k1", "i1", "n1"),
   Create("c1", "k2", "i2", "n1"),
   Create("c2", "k1", "i1", "n2"),
   Create("c1", "k3", "i3", "n1"),
   Report("c1", "k1", "i1", "u1", 1, "at_risk"),
   Report("c1", "k2", "i2", "u1", 1, "on_track"),
   Report("c1", "k3", "i3", "u1", 1, "at_risk"),
   Patch("c1", "k1", "i1", 1, None),
   Patch("c1", "k2", "i1", 2, "n2"),
   Archive("c1", "k1", "i1", 1)}

(* Few commands, many attempts: a key sent again with the same request, a  *)
(* key reused for another request, and one key under two scopes.           *)
RetryRace ==
  {Create("c1", "k1", "i1", "n1"),
   Create("c1", "k1", "i1", "n2"),
   Report("c1", "k1", "i1", "u1", 1, "at_risk"),
   Report("c1", "k1", "i1", "u2", 2, "on_track"),
   Report("c2", "k1", "i1", "u1", 2, "on_track")}

(* Health and projects change under a reader, up to the limit of projects. *)
RollupRace ==
  {Create("c1", "k1", "i1", "n1"),
   Attach("c1", "k1", "i1", 1, "p1", "x1", 0),
   Attach("c1", "k2", "i1", 2, "p2", "x1", 1),
   Attach("c1", "k3", "i1", 3, "p3", "x1", 2),
   Report("c1", "k1", "i1", "u1", 2, "at_risk"),
   Report("c1", "k2", "i1", "u1", 4, "on_track"),
   Observe("c1", "k1", "i1", "p1", 1, "x2"),
   Detach("c1", "k1", "i1", 3, "p1", 1),
   Detach("c1", "k2", "i1", 4, "p1", 2),
   Archive("c1", "k1", "i1", 3),
   Reorder("c1", "k1", "i1", 3, <<Item("p1", 1, 1), Item("p2", 1, 0)>>)}

(* Every small command on one initiative: any project, position, expected  *)
(* revision and membership revision up to the given bounds.                *)
OrdersOf(ps, memberships, positions) ==
  UNION {[1..n -> [project: ps, membership: memberships, position: positions]] :
           n \in 1..2}

MembershipCommands ==
  LET keys == {"k1", "k2"}
      revisions == 1..5
      memberships == 1..3
      ps == {"p1", "p2", "p3"}
  IN  {Create("c1", "k1", "i1", "n1")}
        \cup {Attach("c1", k, "i1", r, p, "x1", n) :
                k \in Keys, r \in revisions, p \in ps, n \in 0..2}
        \cup {Observe("c1", "k1", "i1", p, m, "x2") : p \in ps, m \in memberships}
        \cup {Detach("c1", k, "i1", r, p, m) :
                k \in keys, r \in revisions, p \in ps, m \in memberships}
        \cup {Reorder("c1", k, "i1", r, items) :
                k \in {"k1"}, r \in revisions,
                items \in OrdersOf({"p1", "p2"}, 1..2, 0..1)}
=============================================================================
