SPECIFICATION Settled
CONSTANTS
  None = None
  NoUpdate = NoUpdate
  OrganizationOf <- OneOwner
  Scopes <- CallersByActors
  Names = {"n1"}
  Details = {"d1"}
  Healths = {"on_track"}
  Snapshots = {"x1"}
  MaxPosition = 1
  MaxProjects = 2
  Initiatives = {"i1"}
  Organizations = {"o1"}
  Projects = {"p1", "p2"}
  UpdateIds = {"u1"}
  Keys = {"k1", "k2", "k3"}
  Requests <- Commands
  c1 = c1
  c2 = c2
  Calls = {c1, c2}
  Callers = {"tools", "admin_tools"}
  Actors = {"a1"}
  PortfolioCallers = {"tools"}
  AdminCallers = {"admin_tools"}
  Invocations <- AllInvocations
  Memberships <- Everyone
  Grants <- AllPermissions
  MaxActivations = 1
  AgentTool = "tools"
  AdminAgentTool = "admin_tools"
  ToolCalls <- AllToolCalls
SYMMETRY SymmetricCalls
INVARIANTS
  AgentsLearnTheFailure
PROPERTIES
  ToolsKeepTheirPlace
