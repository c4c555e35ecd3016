\* Two persons, three clubs, two administrators, two edits, at most one club picked.
CONSTANTS
  ali = ali
  sara = sara
  m1 = m1
  m2 = m2
  k1 = k1
  k2 = k2
  k3 = k3
  b1 = b1
  b2 = b2
  Admins = {m1, m2}
  Nobody = Nobody
  Persons = {ali, sara}
  Clubs = {k1, k2, k3}
  Boards = {b1, b2}
  BoardOf <- MCBoardOf
  Forms <- MCForms
  Candidates = {ali}
  Asking = {k2}
  First <- MCFirst
  MaxClubs = 1
  MaxEdits = 2
  None = None
SPECIFICATION Spec
INVARIANTS
  ClubsFromOneAct
  NoEditLost
  StaffListsAgree
SYMMETRY Symmetry
CHECK_DEADLOCK FALSE
