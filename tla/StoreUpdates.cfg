SPECIFICATION Spec
CONSTANTS
  None = None
  NoUpdate = NoUpdate
  OrganizationOf <- Owners
  Scopes = {"c1", "c2"}
  Names = {"n1", "n2"}
  Details = {"d1", "d2"}
  Healths = {"on_track", "at_risk"}
  Snapshots = {"x1", "x2"}
  MaxPosition = 2
  MaxProjects = 2
  s1 = s1
  s2 = s2
  s3 = s3
  Sessions = {s1, s2}
  Initiatives = {"i1", "i2", "i3"}
  Organizations = {"o1", "o2"}
  Projects = {"p1"}
  UpdateIds = {"u1"}
  Keys = {"k1", "k2", "k3"}
  Requests <- UpdateRace
SYMMETRY SymmetricSessions
INVARIANTS
  EveryCommandSawItsRevision
  HealthIsLatestUpdate
  UpdatesAreLogged
  ArchiveIsFinal
PROPERTIES
  LedgerSpec
