---------------------------- MODULE MCPagination ------------------------------
(* Small instances of Pagination. *)
EXTENDS Pagination, TLC

CONSTANTS x1, x2, x3, x4

SymmetricRows == Permutations(Rows)
=============================================================================
