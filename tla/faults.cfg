SPECIFICATION Spec
CONSTANTS
  w1 = w1 w2 = w2 w3 = w3 p1 = p1 p2 = p2 None = None
  NSteps = 2
  FinalOrder = 3
  Requests = {r1}
  Legacy = {}
  Unmapped = {}
  Payloads = {p1}
  Workers = {w1, w2}
  AnswerSteps = {TRUE}
  Operations = {"create","retry","detail","webhook","decide","save","advance"}
  Faults = {"lost", "database", "crash"}
SYMMETRY Symmetry
INVARIANTS TypeOK IInv HistoryIsTrue ChainNeverLeads ShownStepsLag
