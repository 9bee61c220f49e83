SPECIFICATION FilesSpec
CONSTANTS
  Consumers = {c1}
  Closers = {k1}
  Restorers = {x1}
  Eager = {c1}
  StoreFails = TRUE
  MaxReplay = 2
  MaxEmitted = 3
  e1 = e1  e2 = e2  p1 = p1  p2 = p2  p3 = p3
  Setups = {p1, p2, p3}
  SetupOp <- TwoSetupsOneRemoval
  Texts = {"t1"}
  Blank = "blank"
  ForeignEntry = "foreign"
  NoEntry = "none"
  MaxSaves = 2
  q1 = q1  q2 = q2
  Collectors = {p1, p2, p3}
  Reporter <- TwoReporters
  Endpoints <- ThreeEndpoints
  MaxUsed = 2
  EventReaders = {"reader"}
  MaxEvents = 4
  BufferBytes = 3
  PageBytes = 2
INVARIANTS RestoreIsHonest RegistrationIsOwned SavesAreKept CrossingsNotifyOnce PagesAreHonest
CHECK_DEADLOCK FALSE
