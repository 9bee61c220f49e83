SPECIFICATION Spec
CONSTANTS
  None = None
  t1 = t1  t2 = t2  t3 = t3  t4 = t4  t5 = t5
  start = start  answerA = answerA  answerB = answerB  a = a  b = b
  Calls = {t1, t2, t3, t4, t5}
  Commands = {start, answerA, answerB}
  Starts = {start}
  Consumers = {a, b}
  CommandOf <- MCCommandOf
  ConsumerOf <- MCConsumerOf
  Crashes = TRUE
  AcksExpire = TRUE
  StoreFails = FALSE
INVARIANTS TypeOK RetryIsQuiet AnsweredOnce
PROPERTIES ReceiptStands 
CHECK_DEADLOCK FALSE
