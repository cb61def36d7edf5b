-------------------------- MODULE RollupReadProofs ---------------------------
(* The theorems of PortfolioLedger, and those of the reader that runs      *)
(* beside its commands: for every choice of the constants and any number   *)
(* of readers, whatever commits between two statements of a read.          *)
EXTENDS RollupRead, PortfolioTablesProofs

-----------------------------------------------------------------------------
(* The ledger *)

(* Whatever commands take effect, in whatever order, the tables are        *)
(* correct: see Correct for the parts.                                     *)
THEOREM LedgerIsCorrect == LedgerSpec => []Correct
<1>1. LedgerInit => Correct
  BY InitCorrect DEF LedgerInit
<1>2. Correct /\ [LedgerNext]_tables => Correct'
  BY ApplyCorrect, StutterCorrect DEF LedgerNext
<1> QED
  BY <1>1, <1>2, PTL DEF LedgerSpec

(* archive_initiative is the last command of its initiative.               *)
THEOREM Archiving == LedgerSpec => []ArchiveIsFinal
BY LedgerIsCorrect, PTL DEF Correct

(* An initiative shows the health of the update committed last.            *)
THEOREM Health == LedgerSpec => []HealthIsLatestUpdate
<1>1. Correct => HealthIsLatestUpdate
  BY HealthShown
<1> QED
  BY <1>1, LedgerIsCorrect, PTL

(* portfolio_updates and the log tell the same story: add_update's INSERT  *)
(* carries the revision that its own transaction produced.                 *)
THEOREM Updating == LedgerSpec => []UpdatesAreLogged
BY LedgerIsCorrect, PTL DEF Correct

(* No two projects of an initiative share a position, and there are never  *)
(* more of them than MAX_PROJECTS_PER_INITIATIVE.                          *)
THEOREM Ordering == LedgerSpec => []ProjectsAreOrdered
BY LedgerIsCorrect, PTL DEF Correct

(* A membership row is there exactly when the last command that touched    *)
(* its project left it there, and its revision counts the commands since   *)
(* it was attached.                                                        *)
THEOREM Membership == LedgerSpec => []MembershipCountsTouches
BY LedgerIsCorrect, PTL DEF Correct

(* A reader leaves the ledger alone. *)
THEOREM ReadingIsSilent == Spec => LedgerSpec
<1>1. Init => LedgerInit
  BY DEF Init, LedgerInit
<1>2. [Next]_vars => [LedgerNext]_tables
  BY DEF Next, Command, Ask, ReadInitiative, EnsureExists, ReadProjects,
         Return, LedgerNext, vars
<1> QED
  BY <1>1, <1>2, PTL DEF Spec, LedgerSpec

-----------------------------------------------------------------------------
(* What a rollup is made of *)

(* A rollup reports the revision of its row. *)
LEMMA RollupRevision ==
  ASSUME NEW row, NEW members, NEW ps
  PROVE  RollupOf(row, members, ps).revision = row.revision
BY DEF RollupOf

(* The LIMIT of list_projects cuts nothing off: there are no more projects *)
(* than it lets through, and each is at a position of its own.             *)
LEMMA AllListed ==
  ASSUME NEW members \in Members, Ordered(members)
  PROVE  Listed(members) = Attached(members)
<1> SUFFICES ASSUME NEW p \in Attached(members)
             PROVE  Cardinality({q \in Attached(members) :
                                   members[q].position < members[p].position})
                      < MaxProjects
  BY DEF Listed
<1> DEFINE before == {q \in Attached(members) :
                        members[q].position < members[p].position}
<1>1. IsFiniteSet(Attached(members)) /\ Count(members) \in Nat
  BY CountType
<1>2. ~(members[p].position < members[p].position)
  BY LimitsAreNatural DEF Attached, Members, Member, Positions
<1>3. before \subseteq Attached(members) \ {p}
  BY <1>2
<1>4. /\ IsFiniteSet(Attached(members) \ {p})
      /\ Cardinality(Attached(members) \ {p}) = Count(members) - 1
  BY <1>1, FS_RemoveElement DEF Count
<1>5. Cardinality(before) <= Count(members) - 1 /\ Cardinality(before) \in Nat
  BY <1>3, <1>4, FS_Subset, FS_CardinalityType
<1> HIDE DEF before
<1> QED
  BY <1>1, <1>5, LimitsAreNatural DEF Ordered, before

-----------------------------------------------------------------------------
(* The inductive invariant *)

Version == [row: Initiative, members: Members]

(* versions has one version for each command that took effect; the last is *)
(* what the tables have now, and each is at the revision of its number.    *)
History ==
  /\ versions \in [Initiatives -> Seq(Version)]
  /\ \A i \in Initiatives :
       /\ Len(versions[i]) = Len(ledger[i])
       /\ initiatives[i] # None =>
            versions[i][Len(versions[i])] =
              [row |-> initiatives[i], members |-> projects[i]]
       /\ \A n \in 1..Len(versions[i]) : versions[i][n].row.revision = n

ReadersOK ==
  /\ step \in [Readers -> {"idle", "initiative", "exists", "projects",
                           "done", "failed"}]
  /\ target \in [Readers -> Initiatives \cup {None}]
  /\ asked \in [Readers -> Nat]
  /\ DOMAIN seen = Readers
  /\ DOMAIN rollup = Readers

(* The row that a reader has is the one of a version, not older than its   *)
(* request.                                                                *)
SawVersion(c) ==
  LET past == versions[target[c]]
      n == seen[c].revision
  IN  n \in asked[c]..Len(past) /\ n >= 1 /\ past[n].row = seen[c]

(* What RollupIsFresh says of one reader, and that the revision is that of *)
(* a version.                                                              *)
Fresh(c) ==
  LET past == versions[target[c]]
      n == rollup[c].revision
  IN  /\ n \in asked[c]..Len(past) /\ n >= 1
      /\ \E m \in n..Len(past) :
           rollup[c] = RollupOf(past[n].row, past[m].members,
                                Attached(past[m].members))

(* What a reader knows, where it is. *)
Knows(c) ==
  /\ step[c] # "idle" =>
       target[c] \in Initiatives /\ asked[c] <= Len(versions[target[c]])
  /\ step[c] \in {"exists", "projects"} => SawVersion(c)
  /\ step[c] = "done" => Fresh(c)
  /\ step[c] = "failed" => asked[c] = 0 /\ seen[c] = None

Informed ==
  /\ Correct
  /\ History
  /\ ReadersOK
  /\ \A c \in Readers : Knows(c)

(* There is a version exactly when there is an initiative. *)
LEMMA VersionOfRow ==
  ASSUME Correct, History, NEW i \in Initiatives
  PROVE  /\ Len(versions[i]) \in Nat
         /\ initiatives[i] = None <=> Len(versions[i]) = 0
         /\ initiatives[i] # None => initiatives[i].revision = Len(versions[i])
         /\ initiatives[i] # None => initiatives[i] \in Initiative
<1>1. /\ Len(versions[i]) = IF initiatives[i] = None THEN 0
                            ELSE initiatives[i].revision
      /\ versions[i] \in Seq(Version)
  BY DEF Correct, RevisionCountsCommits, History
<1>2. initiatives[i] # None =>
        initiatives[i] \in Initiative /\ initiatives[i].revision \in Nat \ {0}
  BY DEF Correct, TablesOK, Initiative
<1> QED
  BY <1>1, <1>2

(* A command adds a version to its initiative and keeps the others. *)
LEMMA CommandVersions ==
  ASSUME Correct, History, NEW r \in Requests, Command(r)
  PROVE  /\ Correct'
         /\ History'
         /\ \A i \in Initiatives :
              /\ Len(versions[i]) \in Nat
              /\ Len(versions'[i]) \in Nat
              /\ Len(versions[i]) <= Len(versions'[i])
              /\ \A n \in 1..Len(versions[i]) : versions'[i][n] = versions[i][n]
<1> DEFINE j == r.initiative
           new == [row |-> initiatives'[j], members |-> projects'[j]]
<1>1. Correct'
  BY ApplyCorrect DEF Command
<1>2. /\ j \in Initiatives
      /\ versions \in [Initiatives -> Seq(Version)]
      /\ versions' = [versions EXCEPT ![j] = Append(versions[j], new)]
  BY RequestShape DEF Command, History
<1>3. /\ initiatives'[j] \in Initiative
      /\ initiatives'[j].revision = Len(ledger[j]) + 1
      /\ initiatives'[j] # None
      /\ new \in Version
  <2>1. /\ initiatives' = [initiatives EXCEPT ![j] = RowAfter(r, initiatives[j])]
        /\ RowAfter(r, initiatives[j]) \in Initiative
        /\ RowAfter(r, initiatives[j]).revision = Len(ledger[j]) + 1
    BY ApplyAdvances DEF Command, Correct
  <2>2. initiatives'[j] = RowAfter(r, initiatives[j])
    BY <1>2, <2>1 DEF Correct, TablesOK
  <2>3. projects'[j] \in Members
    BY <1>1, <1>2 DEF Correct, TablesOK
  <2> QED
    BY <2>1, <2>2, <2>3, NoneIsNoValue DEF Version
<1>4. ASSUME NEW i \in Initiatives, i # j
      PROVE  /\ versions'[i] = versions[i]
             /\ ledger'[i] = ledger[i]
             /\ initiatives'[i] = initiatives[i]
             /\ projects'[i] = projects[i]
  BY <1>2, <1>4 DEF Command, Apply, Publish, Correct, TablesOK
<1>5. /\ versions[j] \in Seq(Version)
      /\ Len(versions[j]) \in Nat
      /\ versions'[j] \in Seq(Version)
      /\ Len(versions'[j]) = Len(versions[j]) + 1
      /\ versions'[j][Len(versions[j]) + 1] = new
      /\ \A n \in 1..Len(versions[j]) : versions'[j][n] = versions[j][n]
  <2>1. versions[j] \in Seq(Version) /\ versions'[j] = Append(versions[j], new)
    BY <1>2
  <2> HIDE DEF new
  <2> QED
    BY <1>3, <2>1
<1>6. /\ Len(versions[j]) = Len(ledger[j])
      /\ Len(ledger'[j]) = Len(ledger[j]) + 1
  BY <1>2, LogAfter DEF History, Command, Correct
<1>7. History'
  <2>1. versions' \in [Initiatives -> Seq(Version)]
    BY <1>2, <1>5
  <2>2. ASSUME NEW i \in Initiatives
        PROVE  /\ Len(versions'[i]) = Len(ledger'[i])
               /\ initiatives'[i] # None =>
                    versions'[i][Len(versions'[i])] =
                      [row |-> initiatives'[i], members |-> projects'[i]]
               /\ \A n \in 1..Len(versions'[i]) : versions'[i][n].row.revision = n
    <3>1. CASE i # j
      BY <1>4, <3>1 DEF History
    <3>2. CASE i = j
      <4>1. \A n \in 1..Len(versions[j]) : versions[j][n].row.revision = n
        BY <1>2 DEF History
      <4>2. new.row.revision = Len(versions[j]) + 1
        BY <1>3, <1>6
      <4>3. \A n \in 1..Len(versions'[j]) : versions'[j][n].row.revision = n
        <5> SUFFICES ASSUME NEW n \in 1..Len(versions'[j])
                     PROVE  versions'[j][n].row.revision = n
          OBVIOUS
        <5>1. n \in 1..Len(versions[j]) \/ n = Len(versions[j]) + 1
          BY <1>5
        <5>2. CASE n \in 1..Len(versions[j])
          BY <1>5, <4>1, <5>2
        <5>3. CASE n = Len(versions[j]) + 1
          BY <1>5, <4>2, <5>3
        <5> QED
          BY <5>1, <5>2, <5>3
      <4> QED
        BY <1>5, <1>6, <3>2, <4>3
    <3> QED
      BY <3>1, <3>2
  <2> QED
    BY <2>1, <2>2 DEF History
<1>8. \A i \in Initiatives : Len(versions[i]) \in Nat
  BY <1>2
<1>9. \A i \in Initiatives :
        /\ Len(versions'[i]) \in Nat
        /\ Len(versions[i]) <= Len(versions'[i])
        /\ \A n \in 1..Len(versions[i]) : versions'[i][n] = versions[i][n]
  <2> SUFFICES ASSUME NEW i \in Initiatives
               PROVE  /\ Len(versions'[i]) \in Nat
                      /\ Len(versions[i]) <= Len(versions'[i])
                      /\ \A n \in 1..Len(versions[i]) :
                           versions'[i][n] = versions[i][n]
    OBVIOUS
  <2>1. CASE i # j
    BY <1>4, <1>8, <2>1
  <2>2. CASE i = j
    BY <1>5, <2>2
  <2> QED
    BY <2>1, <2>2
<1> QED
  BY <1>1, <1>7, <1>8, <1>9

(* A command takes nothing from what a reader knows. *)
LEMMA CommandKeeps ==
  ASSUME Informed, NEW r \in Requests, Command(r)
  PROVE  Informed'
<1>1. /\ UNCHANGED readers
      /\ ReadersOK
      /\ \A c \in Readers : Knows(c)
  BY DEF Informed, Command
<1>2. /\ Correct'
      /\ History'
      /\ \A i \in Initiatives :
           /\ Len(versions[i]) \in Nat
           /\ Len(versions'[i]) \in Nat
           /\ Len(versions[i]) <= Len(versions'[i])
           /\ \A n \in 1..Len(versions[i]) : versions'[i][n] = versions[i][n]
  BY CommandVersions DEF Informed
<1>3. ReadersOK'
  BY <1>1 DEF ReadersOK, readers
<1>4. ASSUME NEW c \in Readers
      PROVE  Knows(c)'
  <2>1. /\ step'[c] = step[c]
        /\ target'[c] = target[c]
        /\ asked'[c] = asked[c]
        /\ seen'[c] = seen[c]
        /\ rollup'[c] = rollup[c]
        /\ asked[c] \in Nat
    BY <1>1 DEF readers, ReadersOK
  <2>2. CASE step[c] = "idle"
    BY <2>1, <2>2 DEF Knows
  <2>3. CASE step[c] # "idle"
    <3> DEFINE past == versions[target[c]]
               later == versions'[target[c]]
    <3>1. target[c] \in Initiatives /\ asked[c] <= Len(past)
      BY <1>1, <2>3 DEF Knows
    <3>2. /\ Len(past) \in Nat
          /\ Len(later) \in Nat
          /\ Len(past) <= Len(later)
          /\ \A n \in 1..Len(past) : later[n] = past[n]
      BY <1>2, <3>1
    <3>3. SawVersion(c) => SawVersion(c)'
      BY <2>1, <3>1, <3>2, SMTT(30) DEF SawVersion
    <3>4. step[c] = "done" /\ Fresh(c) => Fresh(c)'
      <4> SUFFICES ASSUME Fresh(c) PROVE Fresh(c)'
        OBVIOUS
      <4> DEFINE n == rollup[c].revision
      <4>1. PICK m \in n..Len(past) :
              rollup[c] = RollupOf(past[n].row, past[m].members,
                                   Attached(past[m].members))
        BY DEF Fresh
      <4>2. n \in asked[c]..Len(past) /\ n >= 1
        BY DEF Fresh
      <4>3. /\ later[n] = past[n]
            /\ later[m] = past[m]
            /\ m \in n..Len(later)
            /\ n \in asked[c]..Len(later)
        <5> HIDE DEF n, past, later
        <5>1. n \in 1..Len(past) /\ m \in 1..Len(past)
          BY <2>1, <3>2, <4>2
        <5>2. m \in n..Len(later) /\ n \in asked[c]..Len(later)
          BY <2>1, <3>2, <4>2, <5>1
        <5> QED
          BY <3>2, <5>1, <5>2
      <4>4. rollup'[c] = RollupOf(later[n].row, later[m].members,
                                  Attached(later[m].members))
        BY <2>1, <4>1, <4>3
      <4> QED
        BY <2>1, <4>2, <4>3, <4>4, ZenonT(30) DEF Fresh
    <3> QED
      BY <1>1, <2>1, <3>1, <3>2, <3>3, <3>4 DEF Knows
  <2> QED
    BY <2>2, <2>3
<1> QED
  BY <1>2, <1>3, <1>4 DEF Informed

-----------------------------------------------------------------------------
(* The statements of a reader *)

(* A statement leaves the tables and their versions alone. *)
LEMMA StatementFrame ==
  ASSUME Informed, UNCHANGED <<tables, versions>>,
         ReadersOK', \A c \in Readers : Knows(c)'
  PROVE  Informed'
<1>1. Correct'
  BY StutterCorrect DEF Informed
<1>2. History'
  BY DEF Informed, History, tables
<1> QED
  BY <1>1, <1>2 DEF Informed

(* One statement of c changes what c knows and nothing else. *)
LEMMA StatementKeeps ==
  ASSUME Informed, NEW c \in Readers,
         Ask(c) \/ ReadInitiative(c) \/ EnsureExists(c) \/ ReadProjects(c)
           \/ Return(c)
  PROVE  Informed'
<1>1. /\ UNCHANGED <<tables, versions>>
      /\ ReadersOK
      /\ \A d \in Readers : Knows(d)
      /\ \A i \in Initiatives : Len(versions[i]) \in Nat
  BY VersionOfRow
  DEF Informed, Ask, ReadInitiative, EnsureExists, ReadProjects, Return
<1>2. \A d \in Readers : d # c => Knows(d)'
  <2> SUFFICES ASSUME NEW d \in Readers, d # c
               PROVE  Knows(d)'
    OBVIOUS
  <2>1. /\ step'[d] = step[d]
        /\ target'[d] = target[d]
        /\ asked'[d] = asked[d]
        /\ seen'[d] = seen[d]
        /\ rollup'[d] = rollup[d]
    BY <1>1 DEF ReadersOK, Ask, ReadInitiative, EnsureExists, ReadProjects, Return
  <2> QED
    BY <1>1, <2>1 DEF Knows, SawVersion, Fresh
<1> DEFINE i == target[c]
           past == versions[i]
<1>3. step[c] # "idle" =>
        /\ i \in Initiatives
        /\ asked[c] <= Len(past)
        /\ Len(past) \in Nat
        /\ initiatives[i] = None <=> Len(past) = 0
        /\ initiatives[i] # None =>
             /\ initiatives[i] \in Initiative
             /\ initiatives[i].revision = Len(past)
             /\ past[Len(past)] = [row |-> initiatives[i], members |-> projects[i]]
  <2> SUFFICES ASSUME step[c] # "idle"
               PROVE  /\ i \in Initiatives
                      /\ asked[c] <= Len(past)
                      /\ Len(past) \in Nat
                      /\ initiatives[i] = None <=> Len(past) = 0
                      /\ initiatives[i] # None =>
                           /\ initiatives[i] \in Initiative
                           /\ initiatives[i].revision = Len(past)
                           /\ past[Len(past)] =
                                [row |-> initiatives[i], members |-> projects[i]]
    OBVIOUS
  <2>1. i \in Initiatives /\ asked[c] <= Len(past)
    BY <1>1 DEF Knows
  <2> QED
    BY <2>1, VersionOfRow DEF Informed, History
<1>4. CASE Ask(c)
  <2>1. ReadersOK'
    BY <1>1, <1>4 DEF Ask, ReadersOK
  <2>2. Knows(c)'
    BY <1>1, <1>4 DEF Ask, ReadersOK, Knows
  <2> QED
    BY <1>1, <1>2, <2>1, <2>2, StatementFrame
<1>5. CASE ReadInitiative(c)
  <2>1. ReadersOK'
    BY <1>1, <1>5 DEF ReadInitiative, ReadersOK
  <2>2. /\ UNCHANGED <<versions, target, asked>>
        /\ asked[c] \in Nat
        /\ seen'[c] = initiatives[i]
        /\ step'[c] = IF initiatives[i] = None THEN "failed" ELSE "exists"
    BY <1>1, <1>5 DEF ReadInitiative, ReadersOK
  <2>3. step[c] # "idle"
    BY <1>5 DEF ReadInitiative
  <2>4. ASSUME initiatives[i] = None PROVE Knows(c)'
    <3>1. asked[c] = 0
      BY <1>3, <2>2, <2>3, <2>4
    <3>2. step'[c] = "failed" /\ seen'[c] = None
      BY <2>2, <2>4
    <3>3. target'[c] \in Initiatives /\ asked'[c] <= Len(versions'[target'[c]])
      BY <1>3, <2>2, <2>3
    <3>4. asked'[c] = 0
      BY <2>2, <3>1
    <3> QED
      BY <3>2, <3>3, <3>4 DEF Knows
  <2>5. ASSUME initiatives[i] # None PROVE Knows(c)'
    <3>1. SawVersion(c)'
      BY <1>3, <2>2, <2>3, <2>5 DEF SawVersion
    <3>2. step'[c] = "exists"
      BY <2>2, <2>5
    <3>3. target'[c] \in Initiatives /\ asked'[c] <= Len(versions'[target'[c]])
      BY <1>3, <2>2, <2>3
    <3> QED
      BY <3>1, <3>2, <3>3 DEF Knows
  <2> QED
    BY <1>1, <1>2, <2>1, <2>4, <2>5, StatementFrame
<1>6. CASE EnsureExists(c)
  <2>1. ReadersOK'
    BY <1>1, <1>6 DEF EnsureExists, ReadersOK
  <2>2. SawVersion(c)
    BY <1>1, <1>6 DEF EnsureExists, Knows
  <2>3. initiatives[i] # None
    BY <1>1, <1>3, <1>6, <2>2 DEF EnsureExists, SawVersion, ReadersOK
  <2>4. /\ step'[c] = "projects"
        /\ UNCHANGED <<versions, target, asked, seen>>
    BY <1>1, <1>6, <2>3 DEF EnsureExists, ReadersOK
  <2>5. Knows(c)'
    BY <1>1, <1>3, <1>6, <2>2, <2>4 DEF EnsureExists, Knows, SawVersion
  <2> QED
    BY <1>1, <1>2, <2>1, <2>5, StatementFrame
<1>7. CASE ReadProjects(c)
  <2>1. ReadersOK'
    BY <1>1, <1>7 DEF ReadProjects, ReadersOK
  <2>2. SawVersion(c)
    BY <1>1, <1>7 DEF ReadProjects, Knows
  <2> DEFINE n == seen[c].revision
  <2>3. /\ n \in asked[c]..Len(past)
        /\ n >= 1
        /\ past[n].row = seen[c]
        /\ asked[c] \in Nat
    BY <1>1, <2>2 DEF SawVersion, ReadersOK
  <2>4. /\ i \in Initiatives
        /\ initiatives[i] # None
        /\ Len(past) \in Nat
        /\ past[Len(past)].members = projects[i]
    BY <1>3, <1>7, <2>3 DEF ReadProjects
  <2>5. Listed(projects[i]) = Attached(projects[i])
    <3>1. projects[i] \in Members /\ Ordered(projects[i])
      BY <2>4 DEF Informed, Correct, TablesOK, ProjectsAreOrdered, Ordered
    <3> QED
      BY <3>1, AllListed
  <2>6. rollup'[c] = RollupOf(past[n].row, past[Len(past)].members,
                              Attached(past[Len(past)].members))
    BY <1>1, <1>7, <2>3, <2>4, <2>5 DEF ReadProjects, ReadersOK
  <2>7. rollup'[c].revision = n
    BY <2>3, <2>6, RollupRevision
  <2>8. UNCHANGED <<versions, target, asked>> /\ step'[c] = "done"
    BY <1>1, <1>7 DEF ReadProjects, ReadersOK
  <2>9. Fresh(c)'
    BY <2>3, <2>4, <2>6, <2>7, <2>8 DEF Fresh
  <2>10. Knows(c)'
    BY <1>3, <1>7, <2>8, <2>9 DEF Knows, ReadProjects
  <2> QED
    BY <1>1, <1>2, <2>1, <2>10, StatementFrame
<1>8. CASE Return(c)
  <2>1. ReadersOK'
    BY <1>1, <1>8 DEF Return, ReadersOK
  <2>2. Knows(c)'
    BY <1>1, <1>8 DEF Return, ReadersOK, Knows
  <2> QED
    BY <1>1, <1>2, <2>1, <2>2, StatementFrame
<1> QED
  BY <1>4, <1>5, <1>6, <1>7, <1>8

(* However many readers there are, and whatever commits beside them, each  *)
(* knows what its statements have told it.                                 *)
THEOREM Informing == Spec => []Informed
<1>1. Init => Informed
  <2> SUFFICES ASSUME Init PROVE Informed
    OBVIOUS
  <2>1. Correct
    BY InitCorrect DEF Init
  <2>2. History
    BY DEF Init, TablesInit, History
  <2>3. ReadersOK /\ \A c \in Readers : Knows(c)
    BY DEF Init, ReadersOK, Knows
  <2> QED
    BY <2>1, <2>2, <2>3 DEF Informed
<1>2. Informed /\ [Next]_vars => Informed'
  <2> SUFFICES ASSUME Informed, [Next]_vars PROVE Informed'
    OBVIOUS
  <2>1. CASE UNCHANGED vars
    <3>1. /\ UNCHANGED <<tables, versions>>
          /\ UNCHANGED <<step, target, asked, seen, rollup>>
      BY <2>1 DEF vars
    <3>2. ReadersOK' /\ \A c \in Readers : Knows(c)'
      BY <3>1 DEF Informed, ReadersOK, Knows, SawVersion, Fresh
    <3> QED
      BY <3>1, <3>2, StatementFrame
  <2> QED
    BY <2>1, CommandKeeps, StatementKeeps DEF Next
<1> QED
  BY <1>1, <1>2, PTL DEF Spec

(* A rollup is never older than its request, and never mixes a row with    *)
(* projects from before it: the order of the statements of read_rollup.    *)
THEOREM Freshness == Spec => []RollupIsFresh
<1>1. Informed => RollupIsFresh
  BY DEF Informed, Knows, Fresh, RollupIsFresh
<1> QED
  BY <1>1, Informing, PTL

(* A rollup fails only when it began before its initiative was created:    *)
(* the second look for the same row, ensure_exists, always finds it.       *)
THEOREM Failing == Spec => []FailsOnlyWithoutInitiative
<1>1. Informed => FailsOnlyWithoutInitiative
  BY DEF Informed, Knows, FailsOnlyWithoutInitiative
<1> QED
  BY <1>1, Informing, PTL

=============================================================================
