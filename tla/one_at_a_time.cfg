SPECIFICATION Spec
CONSTANTS
  w1 = w1 w2 = w2 w3 = w3 p1 = p1 p2 = p2 None = None
  NSteps = 2
  FinalOrder = 3
  Requests = {r1, r2, r3}
  Legacy = {r3}
  Unmapped = {r2}
  Payloads = {p1}
  Workers = {w1}
  AnswerSteps = {TRUE, FALSE}
  Operations = {"create","retry","detail","webhook","decide","save","advance"}
  Faults = {"refused", "lost", "database", "crash"}
INVARIANT AssetsAreRegistered
PROPERTY ImplementsLifecycle
