-------------------------- MODULE PortfolioTables ---------------------------
(***************************************************************************)
(* The four tables of the store, what it means for a command to take       *)
(* effect on them in one step (Apply), and what the tables must look like  *)
(* if commands never do anything else.  PortfolioLedger is the             *)
(* specification that says so; PortfolioStore has the same tables and      *)
(* reaches them through transactions.                                      *)
(*                                                                         *)
(* ledger is a history variable: the commands that took effect on each     *)
(* initiative, in commit order.  The code does not keep it; the properties *)
(* below say what the tables must look like because of it.                 *)
(***************************************************************************)
EXTENDS Portfolio

VARIABLES
  initiatives,  \* portfolio_initiatives: Initiatives -> row or None
  projects,     \* portfolio_projects, by initiative and project
  updates,      \* portfolio_updates, by organization and update_id
  receipts,     \* portfolio_commands: ReceiptKeys -> receipt or None
  ledger

tables == <<initiatives, projects, updates, receipts, ledger>>

TablesOK ==
  /\ initiatives \in [Initiatives -> Initiative \cup {None}]
  /\ projects \in [Initiatives -> Members]
  /\ updates \in [Organizations -> [UpdateIds -> Update \cup {None}]]
  /\ receipts \in [ReceiptKeys -> Receipt \cup {None}]
  /\ ledger \in [Initiatives -> Seq(Requests)]

(* The migration creates the tables empty. *)
TablesInit ==
  /\ initiatives = [i \in Initiatives |-> None]
  /\ projects = [i \in Initiatives |-> [p \in Projects |-> None]]
  /\ updates = [o \in Organizations |-> [u \in UpdateIds |-> None]]
  /\ receipts = [k \in ReceiptKeys |-> None]
  /\ ledger = [i \in Initiatives |-> <<>>]

(* The update row that holds the update_id of r, if r adds an update. *)
TakenUpdate(r) ==
  IF r.op = "add_initiative_update"
  THEN updates[OrganizationOf[r.initiative]][r.update]
  ELSE None

Refusal(r) ==
  LET row == initiatives[r.initiative]
      lock == IF r.op = "create_initiative" THEN None ELSE LockRefusal(r, row)
  IN  IF lock # None THEN lock
      ELSE WriteRefusal(r, row, projects[r.initiative], TakenUpdate(r))

(* Publish the effect of r: the tables, the receipt and the log together. *)
Publish(r, effect) ==
  /\ initiatives' = [initiatives EXCEPT ![r.initiative] = effect.row]
  /\ projects' = [projects EXCEPT ![r.initiative] = effect.members]
  /\ updates' = IF effect.update = None THEN updates
                ELSE [updates EXCEPT
                        ![OrganizationOf[r.initiative]][r.update] = effect.update]
  /\ receipts' = [receipts EXCEPT
                    ![KeyOf(r)] = [hash |-> r, response |-> effect.response]]
  /\ ledger' = [ledger EXCEPT ![r.initiative] = Append(@, r)]

Apply(r) ==
  /\ receipts[KeyOf(r)] = None
  /\ Refusal(r) = None
  /\ Publish(r, EffectOf(r, initiatives[r.initiative], projects[r.initiative]))

-----------------------------------------------------------------------------
(* Properties of the tables *)

(* No committed command is lost or overwritten: an initiative's revision   *)
(* is the number of commands that took effect on it (create_initiative     *)
(* starts it at 1, every other command of storage.rs adds one).            *)
RevisionCountsCommits ==
  \A i \in Initiatives :
    Len(ledger[i]) = IF initiatives[i] = None THEN 0 ELSE initiatives[i].revision

(* Compare-and-set: a command that names the revision it expects took      *)
(* effect on exactly that revision, whatever ran at the same time          *)
(* (lock_initiative and require_mutable_revision).                         *)
EveryCommandSawItsRevision ==
  \A i \in Initiatives : \A n \in 1..Len(ledger[i]) :
    ledger[i][n].op \in RevisionChecked => ledger[i][n].revision = n - 1

(* Idempotency: a (caller, actor, operation, key) has at most one effect,  *)
(* and has a receipt exactly when it had it; the receipt holds the request *)
(* that took effect and the revision it produced.  admit_command and       *)
(* finish_command write it in the command's own transaction.               *)
ReceiptsRecordEffects ==
  /\ \A i \in Initiatives : \A n \in 1..Len(ledger[i]) :
       LET receipt == receipts[KeyOf(ledger[i][n])]
       IN  /\ receipt # None
           /\ receipt.hash = ledger[i][n]
           /\ receipt.response # None
           /\ receipt.response.revision = n
  /\ \A k \in ReceiptKeys :
       receipts[k] # None =>
         LET r == receipts[k].hash
             n == receipts[k].response.revision
         IN  /\ KeyOf(r) = k
             /\ n \in 1..Len(ledger[r.initiative])
             /\ ledger[r.initiative][n] = r

(* Archiving is final: no command takes effect on an initiative after its  *)
(* archive_initiative, and the archived flag says so.                      *)
ArchiveIsFinal ==
  \A i \in Initiatives : \A n \in 1..Len(ledger[i]) :
    ledger[i][n].op = "archive_initiative" =>
      n = Len(ledger[i]) /\ initiatives[i].archived

(* The rows of portfolio_updates that list_updates shows of initiative i. *)
UpdatesOf(i) ==
  {row \in {updates[OrganizationOf[i]][u] : u \in UpdateIds} :
     row # None /\ row.initiative = i}

(* The two tables that add_update writes agree at any time: an initiative  *)
(* shows the health of the row of portfolio_updates with the highest       *)
(* revision, or the default while it has none.  The INSERT of the row and  *)
(* the UPDATE of the initiative are two statements, and either may be the  *)
(* last that a transaction gets to.                                        *)
HealthIsLatestUpdate ==
  \A i \in Initiatives :
    IF UpdatesOf(i) = {}
    THEN initiatives[i] # None => initiatives[i].health = NoUpdate
    ELSE /\ initiatives[i] # None
         /\ \E row \in UpdatesOf(i) :
              /\ \A other \in UpdatesOf(i) : other.revision <= row.revision
              /\ initiatives[i].health = row.health

(* The rows of portfolio_updates are the updates of the log: each carries  *)
(* the revision its own command produced, and no two of an initiative      *)
(* carry the same one.                                                     *)
UpdatesAreLogged ==
  /\ \A o \in Organizations, u \in UpdateIds :
       LET row == updates[o][u] IN
       row # None =>
         /\ OrganizationOf[row.initiative] = o
         /\ row.revision \in 1..Len(ledger[row.initiative])
         /\ LET r == ledger[row.initiative][row.revision]
            IN  /\ r.op = "add_initiative_update"
                /\ r.update = u
                /\ r.health = row.health
  /\ \A i \in Initiatives : \A n \in 1..Len(ledger[i]) :
       ledger[i][n].op = "add_initiative_update" =>
         LET row == updates[OrganizationOf[i]][ledger[i][n].update]
         IN  row # None /\ row.initiative = i /\ row.revision = n

(* The order of an initiative's projects is one: no two at one position,   *)
(* and never more of them than the rollup reads (attach_project counts     *)
(* before it inserts, reorder_projects writes a complete order).           *)
ProjectsAreOrdered ==
  \A i \in Initiatives :
    /\ Count(projects[i]) <= MaxProjects
    /\ \A p, q \in Attached(projects[i]) :
         p # q => projects[i][p].position # projects[i][q].position

(* The log entries that write the membership row of project p. *)
Touches(r, p) ==
  \/ /\ r.op \in {"attach_project", "update_project_snapshot", "detach_project"}
     /\ r.project = p
  \/ r.op = "reorder_projects" /\ \E n \in 1..Len(r.items) : r.items[n].project = p

(* A project is attached exactly when the last command that touched it did *)
(* not detach it, and its membership revision counts the commands that     *)
(* touched it since it was last attached: attach_project starts it at 1    *)
(* again, snapshots and reorderings add one.                               *)
MembershipCountsTouches ==
  \A i \in Initiatives, p \in Projects :
    LET touching == {n \in 1..Len(ledger[i]) : Touches(ledger[i][n], p)}
        attaching == {n \in touching : ledger[i][n].op = "attach_project"}
        detaching == {n \in touching : ledger[i][n].op = "detach_project"}
        sinceAttached == {n \in touching : \A m \in attaching : m <= n}
    IN  IF projects[i][p] = None
        THEN \A m \in attaching : \E n \in detaching : n > m
        ELSE /\ \E m \in attaching : \A n \in detaching : n < m
             /\ projects[i][p].revision = Cardinality(sinceAttached)

=============================================================================
