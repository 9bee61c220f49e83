SPECIFICATION FairSpec
CONSTANTS
  Consumers = {c1, c2}
  Closers = {k1}
  Restorers = {}
  Eager = {c1, c2}
  StoreFails = FALSE
  MaxReplay = 2
  MaxEmitted = 4
INVARIANTS LogIsOrderly
PROPERTIES FeedSpec CloseSettles
CHECK_DEADLOCK FALSE
