----------------------------- MODULE RollupRead ------------------------------
(***************************************************************************)
(* read_rollup of storage.rs beside the commands.  It runs three           *)
(* statements on the pool, in no common transaction: get_initiative, the   *)
(* ensure_exists of list_projects, and the SELECT of the projects; then    *)
(* compute_rollup combines what they returned.  Any number of commands may *)
(* commit between two of them.  Commands are those of PortfolioLedger,     *)
(* which the transactions of PortfolioStore implement: a statement of a    *)
(* reader sees the tables between two commits.                             *)
(*                                                                         *)
(* versions is a history variable: the initiative and its projects after   *)
(* each command of its log.                                                *)
(***************************************************************************)
EXTENDS PortfolioLedger, FiniteSetsExt

CONSTANTS
  Readers,
  Evidence   \* what a snapshot says of its project

VARIABLES
  versions,
  step,      \* where a reader is
  target,    \* the initiative it reads
  asked,     \* how many commands had taken effect on it when it began
  seen,      \* the row that get_initiative returned
  rollup     \* the rollup it returned

readers == <<step, target, asked, seen, rollup>>
vars == <<tables, versions, step, target, asked, seen, rollup>>

Statuses ==
  {"backlog", "planned", "started", "paused", "completed", "canceled"}
ProjectHealths == {"on_track", "at_risk", "off_track", "no_update"}

(* A date is the number of its day; 0 is SQL NULL. *)
ASSUME EvidenceIsTyped ==
  Evidence \in [Snapshots -> [status: Statuses, health: ProjectHealths,
                              progress: 0..100, start: Nat, date: Nat]]

-----------------------------------------------------------------------------
(* A mistake: the page is one project too short. *)
ListedShort(members) ==
  {p \in Attached(members) :
     Cardinality({q \in Attached(members) :
                    members[q].position < members[p].position}) + 1 < MaxProjects}

(* The projects that the SELECT returns: the first MaxProjects by position. *)
Listed(members) ==
  {p \in Attached(members) :
     Cardinality({q \in Attached(members) :
                    members[q].position < members[p].position}) < MaxProjects}

(* The sum of the progress of projects ps, of which compute_rollup takes   *)
(* the average: count and sum determine it.                                *)
TotalProgress(members, ps) ==
  MapThenSumSet(LAMBDA p : Evidence[members[p].snapshot].progress, ps)

(* compute_rollup over listed projects ps. *)
RollupOf(row, members, ps) ==
  LET of(p) == Evidence[members[p].snapshot]
      starts == {of(p).start : p \in ps} \ {0}
      dates == {of(p).date : p \in ps} \ {0}
  IN  [revision |-> row.revision,
       health |-> row.health,
       count |-> Cardinality(ps),
       completed |-> Cardinality({p \in ps : of(p).status = "completed"}),
       atRisk |-> Cardinality({p \in ps : of(p).health = "at_risk"}),
       offTrack |-> Cardinality({p \in ps : of(p).health = "off_track"}),
       progress |-> TotalProgress(members, ps),
       earliest |-> IF starts = {} THEN 0 ELSE Min(starts),
       latest |-> IF dates = {} THEN 0 ELSE Max(dates)]

(* The rollup of an initiative as it was at one version. *)
RollupAt(version) ==
  RollupOf(version.row, version.members, Attached(version.members))

-----------------------------------------------------------------------------
Init ==
  /\ TablesInit
  /\ versions = [i \in Initiatives |-> <<>>]
  /\ step = [c \in Readers |-> "idle"]
  /\ target = [c \in Readers |-> None]
  /\ asked = [c \in Readers |-> 0]
  /\ seen = [c \in Readers |-> None]
  /\ rollup = [c \in Readers |-> None]

(* A command takes effect and makes a version. *)
Command(r) ==
  /\ Apply(r)
  /\ versions' = [versions EXCEPT
                    ![r.initiative] =
                      Append(@, [row |-> initiatives'[r.initiative],
                                 members |-> projects'[r.initiative]])]
  /\ UNCHANGED readers

Ask(c) ==
  /\ step[c] = "idle"
  /\ \E i \in Initiatives :
       /\ target' = [target EXCEPT ![c] = i]
       /\ asked' = [asked EXCEPT ![c] = Len(versions[i])]
  /\ step' = [step EXCEPT ![c] = "initiative"]
  /\ UNCHANGED <<tables, versions, seen, rollup>>

(* get_initiative: one statement; no row is NotFound. *)
ReadInitiative(c) ==
  /\ step[c] = "initiative"
  /\ seen' = [seen EXCEPT ![c] = initiatives[target[c]]]
  /\ step' = [step EXCEPT
                ![c] = IF initiatives[target[c]] = None THEN "failed" ELSE "exists"]
  /\ UNCHANGED <<tables, versions, target, asked, rollup>>

(* A mistake: the check leaves archived initiatives out. *)
EnsureExistsActive(c) ==
  /\ step[c] = "exists"
  /\ step' = [step EXCEPT
                ![c] = IF \/ initiatives[target[c]] = None
                          \/ initiatives[target[c]].archived
                       THEN "failed" ELSE "projects"]
  /\ UNCHANGED <<tables, versions, target, asked, seen, rollup>>

(* ensure_exists: a second statement looks for the same row. *)
EnsureExists(c) ==
  /\ step[c] = "exists"
  /\ step' = [step EXCEPT
                ![c] = IF initiatives[target[c]] = None THEN "failed" ELSE "projects"]
  /\ UNCHANGED <<tables, versions, target, asked, seen, rollup>>

(* The third statement lists the projects, and the rollup is computed from *)
(* them and the row of the first.                                          *)
ReadProjects(c) ==
  /\ step[c] = "projects"
  /\ LET members == projects[target[c]]
     IN  rollup' = [rollup EXCEPT ![c] = RollupOf(seen[c], members, Listed(members))]
  /\ step' = [step EXCEPT ![c] = "done"]
  /\ UNCHANGED <<tables, versions, target, asked, seen>>

(* The caller has its rollup or NotFound. *)
Return(c) ==
  /\ step[c] \in {"done", "failed"}
  /\ step' = [step EXCEPT ![c] = "idle"]
  /\ target' = [target EXCEPT ![c] = None]
  /\ asked' = [asked EXCEPT ![c] = 0]
  /\ seen' = [seen EXCEPT ![c] = None]
  /\ rollup' = [rollup EXCEPT ![c] = None]
  /\ UNCHANGED <<tables, versions>>

Next ==
  \/ \E r \in Requests : Command(r)
  \/ \E c \in Readers : \/ Ask(c) \/ ReadInitiative(c) \/ EnsureExists(c)
                        \/ ReadProjects(c) \/ Return(c)

Spec == Init /\ [][Next]_vars

-----------------------------------------------------------------------------
(* Properties *)

(* "A stable rollup under concurrent edits": a rollup is that of the       *)
(* initiative at the revision it reports, health and projects together.    *)
StableRollup ==
  \A c \in Readers :
    step[c] = "done" =>
      rollup[c] = RollupAt(versions[target[c]][rollup[c].revision])

(* What read_rollup does guarantee, by the order of its statements: it     *)
(* reports a revision no older than the last command that had taken effect *)
(* when it began, the health of that revision, and all the projects of     *)
(* that version or of a later one, none cut off by the LIMIT.              *)
RollupIsFresh ==
  \A c \in Readers :
    step[c] = "done" =>
      LET past == versions[target[c]]
          n == rollup[c].revision
      IN  /\ n \in asked[c]..Len(past)
          /\ \E m \in n..Len(past) :
               rollup[c] = RollupOf(past[n].row, past[m].members,
                                    Attached(past[m].members))

(* An initiative that was there for the first statement is there for the   *)
(* second: a rollup fails only when it begins before the initiative is     *)
(* created (no command removes an initiative).                             *)
FailsOnlyWithoutInitiative ==
  \A c \in Readers : step[c] = "failed" => asked[c] = 0 /\ seen[c] = None
=============================================================================
