SPECIFICATION Settled
CONSTANTS
  None = None
  NoUpdate = NoUpdate
  OrganizationOf <- OneOwner
  Scopes <- CallersByActors
  Names = {"n1"}
  Details = {"d1"}
  Healths = {"on_track"}
  Snapshots = {"x1"}
  MaxPosition = 1
  MaxProjects = 2
  Initiatives = {"i1"}
  Organizations = {"o1"}
  Projects = {"p1"}
  UpdateIds = {"u1"}
  Keys = {"k1"}
  Requests <- Commands
  c1 = c1
  c2 = c2
  s1 = s1
  s2 = s2
  Calls = {c1, c2}
  Sessions = {s1, s2}
  Callers = {"portal"}
  Actors = {"a1"}
  PortfolioCallers = {"portal"}
  AdminCallers = {}
  Invocations <- Sent
  Memberships <- OneMember
  Grants <- ReadAndWrite
  MaxActivations = 1
INVARIANT
  ConnectionsEndWithTheirPool
PROPERTIES
  CallSpec
  DeactivationEnds
  LocksGo
