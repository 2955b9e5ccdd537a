SPECIFICATION Spec
CONSTANTS
  None = None
  o1 = o1 o2 = o2 d1 = d1 d2 = d2 w1 = w1 w2 = w2
  Outlets = {o1, o2}
  Distributors = {d1, d2}
  Types = {t1}
  Categories = {k1, k2}
  Offered = {k1}
  Requests = {r1}
  Workers = {w1, w2}
SYMMETRY Symmetry
PROPERTIES RefusedWhileInUse OutletsAreNotTaken SavedWhole RegistersSound
CONSTRAINT Bound
