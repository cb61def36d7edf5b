SPECIFICATION Spec
CONSTANTS
  None = None
  NoUpdate = NoUpdate
  OrganizationOf <- Owners
  Scopes = {"c1", "c2"}
  Names = {"n1", "n2"}
  Details = {"d1", "d2"}
  Healths = {"on_track", "at_risk"}
  Snapshots = {"x1", "x2"}
  MaxPosition = 2
  MaxProjects = 2
  reader1 = reader1
  reader2 = reader2
  Readers = {reader1}
  Evidence <- TwoSnapshots
  Initiatives = {"i1"}
  Organizations = {"o1"}
  Projects = {"p1", "p2", "p3"}
  UpdateIds = {"u1"}
  Keys = {"k1", "k2", "k3", "k4"}
  Requests <- RollupRace
INVARIANTS
  StableRollup
