---------------------------- MODULE MCRollupRead ------------------------------
(* Small instances of RollupRead. *)
EXTENDS RollupRead, PortfolioInputs, TLC

CONSTANTS reader1, reader2

SymmetricReaders == Permutations(Readers)

(* x1 is late and at risk, x2 is done. *)
TwoSnapshots ==
  [x \in Snapshots |->
     IF x = "x1"
     THEN [status |-> "started", health |-> "at_risk", progress |-> 40,
           start |-> 0, date |-> 3]
     ELSE [status |-> "completed", health |-> "on_track", progress |-> 100,
           start |-> 1, date |-> 2]]
=============================================================================
