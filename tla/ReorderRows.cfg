SPECIFICATION Spec
CONSTANTS
  None = None
  NoUpdate = NoUpdate
  OrganizationOf <- Owners
  Scopes = {"c1"}
  Names = {"n1"}
  Details = {"d1"}
  Healths = {"on_track"}
  Snapshots = {"x1"}
  MaxPosition = 2
  MaxProjects = 3
  StagingOffset = 3
  Initiatives = {"i1"}
  Organizations = {"o1"}
  Projects = {"p1", "p2", "p3"}
  UpdateIds = {"u1"}
  Keys = {"k1"}
  Memberships <- SmallMemberships
  Requests <- SmallOrders
CHECK_DEADLOCK FALSE
INVARIANTS
  NeverCollides
  WritesTheOrder
