SPECIFICATION PagesSpec
CONSTANTS
  Ports = {p1, p2}
  Controllers = {c1, c2}
  GasTypes = {g1}
  Detectors = {d1, d2}
  Names = {n1, n2}
  Addresses = {a1}
  Codes = {x1, x2}
  NoController = NoController
  Free = Free
  Gone = Gone
  Maps = {m1, m2}
  Points = {q1, q2}
  Files = {f1, f2}
  NoUpload = NoUpload
  Objects = {}
  Rules = {}
  Rest = {"r1"}
  Fresh = "r1"
  Blank = Blank
  NoChoice = NoChoice
  None = None
  Pages = {"none"}
  MaxEdited = 2
  MaxCalls = 2
  MaxOthers = 1
SYMMETRY Symmetry
INVARIANTS BusAddressIsOneController
CHECK_DEADLOCK FALSE
