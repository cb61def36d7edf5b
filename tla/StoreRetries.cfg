SPECIFICATION Spec
CONSTANTS
  None = None
  NoUpdate = NoUpdate
  OrganizationOf <- Owners
  Scopes = {"c1", "c2"}
  Names = {"n1", "n2"}
  Details = {"d1", "d2"}
  Healths = {"on_track", "at_risk"}
  Snapshots = {"x1", "x2"}
  MaxPosition = 2
  MaxProjects = 2
  s1 = s1
  s2 = s2
  s3 = s3
  Sessions = {s1, s2, s3}
  Initiatives = {"i1"}
  Organizations = {"o1"}
  Projects = {"p1"}
  UpdateIds = {"u1", "u2"}
  Keys = {"k1"}
  Requests <- RetryRace
SYMMETRY SymmetricSessions
INVARIANTS
  ReceiptsRecordEffects
  AnswersAreReceipts
PROPERTIES
  ReceiptsAreImmutable
