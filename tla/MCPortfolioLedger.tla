-------------------------- MODULE MCPortfolioLedger ---------------------------
(* Small instances of PortfolioLedger. *)
EXTENDS PortfolioLedger, PortfolioInputs
=============================================================================
