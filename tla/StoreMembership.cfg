SPECIFICATION FairSpec
CONSTANTS
  None = None
  NoUpdate = NoUpdate
  OrganizationOf <- Owners
  Scopes = {"c1", "c2"}
  Names = {"n1", "n2"}
  Details = {"d1", "d2"}
  Healths = {"on_track", "at_risk"}
  Snapshots = {"x1", "x2"}
  MaxPosition = 2
  MaxProjects = 2
  s1 = s1
  s2 = s2
  s3 = s3
  Sessions = {s1, s2}
  Initiatives = {"i1", "i2"}
  Organizations = {"o1"}
  Projects = {"p1", "p2"}
  UpdateIds = {"u1"}
  Keys = {"k1", "k2"}
  Requests <- MembershipRace
INVARIANTS
  TypeOK
  StagedIsCurrent
  TwoPhase
  RefusalsAreTrue
  RevisionCountsCommits
PROPERTIES
  EveryRequestEnds
