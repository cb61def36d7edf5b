--------------------------- MODULE MCReorderSteps -----------------------------
(* Small instances of ReorderSteps: every set of up to three projects at   *)
(* positions up to MaxPosition, and every complete order of them.          *)
EXTENDS ReorderSteps, PortfolioInputs

Small == [snapshot: Snapshots, position: Positions, revision: {1, 3}]

SmallMemberships == [Projects -> Small \cup {None}]

(* Up to as many items as there are projects, one for each. *)
SmallOrders ==
  {Reorder("c1", "k1", "i1", 1, order) :
     order \in UNION {[1..n -> [project: Projects, membership: {1, 3},
                                position: Positions]] : n \in 1..MaxProjects}}
=============================================================================
