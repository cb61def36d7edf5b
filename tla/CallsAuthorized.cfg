SPECIFICATION Spec
CONSTANTS
  None = None
  NoUpdate = NoUpdate
  OrganizationOf <- Owners
  Scopes <- CallersByActors
  Names = {"n1"}
  Details = {"d1"}
  Healths = {"on_track"}
  Snapshots = {"x1"}
  MaxPosition = 1
  MaxProjects = 2
  Initiatives = {"i1", "i2"}
  Organizations = {"o1", "o2"}
  Projects = {"p1", "p2"}
  UpdateIds = {"u1"}
  Keys = {"k1", "k2", "k3"}
  Requests <- CommandsOfAll
  c1 = c1
  c2 = c2
  Calls = {c1}
  Callers = {"portal", "console"}
  Actors = {"a1"}
  PortfolioCallers = {"portal"}
  AdminCallers = {"console"}
  Invocations <- RightAndWrong
  Memberships <- Everyone
  Grants <- SomeGrants
  MaxActivations = 2
INVARIANTS
  TypeOK
  OnlyTheAuthorized
  FailuresKeepTheirNames
  NoStoreAfterDeactivation
