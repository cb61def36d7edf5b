--------------------------- MODULE PortfolioLedger ---------------------------
(***************************************************************************)
(* What the store promises: each initiative is a log of commands.  A       *)
(* command whose idempotency key is unused and which nothing refuses takes *)
(* effect in one step, on the committed rows alone, and leaves its receipt *)
(* with it.  Nothing else changes the tables.  PortfolioStore shows that   *)
(* the transactions of storage.rs implement this.                          *)
(***************************************************************************)
EXTENDS PortfolioTables

LedgerInit == TablesInit

LedgerNext == \E r \in Requests : Apply(r)

LedgerSpec == LedgerInit /\ [][LedgerNext]_tables
=============================================================================
