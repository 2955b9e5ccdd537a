SPECIFICATION Spec
CONSTANTS
  w1 = w1 w2 = w2 w3 = w3 p1 = p1 p2 = p2 None = None
  NSteps = 1
  FinalOrder = 2
  Requests = {r1}
  Legacy = {}
  Unmapped = {}
  Payloads = {p1, p2}
  Workers = {w1, w2, w3}
  AnswerSteps = {TRUE}
  Operations = {"create","retry","detail","webhook","decide","save","advance"}
  Faults = {}
SYMMETRY Symmetry
INVARIANTS EngineBacksStatus StageMatchesData
PROPERTY ImplementsLedger
