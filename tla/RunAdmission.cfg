SPECIFICATION LocalSafe
CONSTANTS
  Parts = {"manager"}
  None = None
  d1 = d1  n1 = n1  c1 = c1  c2 = c2  ap = ap
  Runs = {1, 2}
  Callers = {c1, c2}
  Approver = ap
  Requests <- WriterAndReader
  Timed = {}
  MaxActive = 2
  MaxAsks <- NoAsks
  Crashes = FALSE
  o1 = o1  i1 = i1  i2 = i2  s1 = s1  s2 = s2
  Owners = {o1}
  Inputs = {i1, i2}
  OwnerOf <- OneOwner
  MaxServers = 0
  Submitters = {s1, s2}
  Casts <- TwoCasts
  Free = Free
  MaxSaid = 0
  MaxAsked = 0
SYMMETRY Sym
INVARIANTS TypeOK AdmissionHolds WritersExclusive ShutdownLeavesNobody
CHECK_DEADLOCK FALSE
