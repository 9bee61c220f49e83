SPECIFICATION LocalSpec
CONSTANTS
  Parts = {"manager"}
  None = None
  d1 = d1  n1 = n1  c1 = c1  c2 = c2  ap = ap
  Runs = {1}
  Callers = {c1, c2}
  Approver = ap
  Requests <- WriterAndReader
  Timed = {1}
  MaxActive = 1
  MaxAsks <- TwoAsks
  Crashes = FALSE
  o1 = o1  i1 = i1  i2 = i2  s1 = s1  s2 = s2
  Owners = {o1}
  Inputs = {i1, i2}
  OwnerOf <- OneOwner
  MaxServers = 0
  Submitters = {s1, s2}
  Casts <- TwoCasts
  Free = Free
  MaxSaid = 0
  MaxAsked = 0
PROPERTIES DeadlineEndsRun
CHECK_DEADLOCK FALSE
