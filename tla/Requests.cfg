SPECIFICATION Spec
CONSTANTS
  None = None
  Garbage = Garbage
  Requests <- Sent
  Configured <- Lists
  MaxSeq = 2
  MaxRevision = 4
INVARIANTS
  AcceptedIsStorable
  NothingIsStranded
