--------------------------- MODULE MCPortfolioStore ---------------------------
(* Small instances of PortfolioStore. *)
EXTENDS PortfolioStore, PortfolioInputs, TLC

CONSTANTS s1, s2, s3

SymmetricSessions == Permutations(Sessions)
=============================================================================
