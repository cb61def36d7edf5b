SPECIFICATION LedgerSpec
CONSTANTS
  None = None
  NoUpdate = NoUpdate
  OrganizationOf <- Owners
  Scopes = {"c1", "c2"}
  Names = {"n1", "n2"}
  Details = {"d1", "d2"}
  Healths = {"on_track", "at_risk"}
  Snapshots = {"x1", "x2"}
  MaxPosition = 2
  MaxProjects = 2
  Initiatives = {"i1"}
  Organizations = {"o1"}
  Projects = {"p1", "p2", "p3"}
  UpdateIds = {"u1"}
  Keys = {"k1", "k2", "k3"}
  Requests <- MembershipCommands
CHECK_DEADLOCK FALSE
INVARIANTS
  ProjectsAreOrdered
  MembershipCountsTouches
