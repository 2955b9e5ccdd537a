SPECIFICATION RetrySpec
CONSTANTS
  w1 = w1 w2 = w2 w3 = w3 p1 = p1 p2 = p2 None = None
  NSteps = 1
  FinalOrder = 2
  Requests = {r1, r2}
  Legacy = {}
  Unmapped = {}
  Payloads = {p1}
  Workers = {w1, w2}
  AnswerSteps = {TRUE}
  Operations = {"create", "retry"}
  Faults = {"refused", "lost"}
INVARIANT UnsyncedIsQueued
PROPERTY QueuedIsRegistered
CHECK_DEADLOCK FALSE
