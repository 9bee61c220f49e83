CONSTANTS
  r1 = r1
  r2 = r2
  p1 = p1
  p2 = p2
  Sessions = {s1}
  Runtimes = {r1, r2}
  NoOwner = NoOwner
  Processes = {p1, p2}
  ProcOf <- MCProcOf
  Resumable = {s1}
  PumpFacts = {"working", "idle"}
  MaxFacts = 3
SPECIFICATION FairSpec
INVARIANTS TypeOK DriverOwnsRow ProjectionFollowsLog SweptSettled
PROPERTY OrphansSettle
CHECK_DEADLOCK FALSE
