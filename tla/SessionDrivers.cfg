SPECIFICATION FairSpec
CONSTANTS
  None = None
  s1 = s1  s2 = s2  a1 = a1  a2 = a2  k1 = k1  m1 = m1  q1 = q1
  Kinds = {"claude", "codex", "acp", "opencode"}
  Sends = {s1, s2}
  Answers = {a1, a2}
  Cancels = {k1}
  Selects = {m1}
  Requests = {q1}
  EarlyDeath = {"acp"}
  AcksExpire <- MCExpire
  JoinsExpire = FALSE
  MaxLines <- MCLines
  Decisions = {"allow", "cancel"}
  MaxCalls = 3
  Order <- MCOrder
INVARIANTS StreamIsSound FirstAnswerWins
PROPERTY NobodyWaitsForever
CHECK_DEADLOCK FALSE
