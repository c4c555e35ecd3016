\* Applications of persons and clubs, two requests at a time.
CONSTANTS
  Apps = {a1, a2}
  Workers = {w1, w2, w3}
  Kinds = {"person", "club"}
  Phones = {p1, p2}
  Codes = {c1, c2}
  Names = {n1, n2}
  Licences = {l1, l2}
  None = None
SPECIFICATION Spec
SYMMETRY Symmetry
INVARIANTS
  TypeOK
  SharedKeysMet
  RefusalOvertaken
  NothingLost
  ReportTrue
CHECK_DEADLOCK FALSE
