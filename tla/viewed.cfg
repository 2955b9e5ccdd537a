SPECIFICATION ViewedSpec
CONSTANTS
  w1 = w1 w2 = w2 w3 = w3 p1 = p1 p2 = p2 None = None
  NSteps = 2
  FinalOrder = 2
  Requests = {r1}
  Legacy = {}
  Unmapped = {}
  Payloads = {p1}
  Workers = {w1, w2}
  AnswerSteps = {TRUE}
  Operations = {"create", "detail", "webhook", "decide", "save"}
  Faults = {"refused", "lost"}
PROPERTIES ApprovalArrives RevisionIsShown
