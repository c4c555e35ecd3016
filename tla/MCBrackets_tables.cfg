\* Two groups of one competition on two mats.
CONSTANTS
  a1 = a1
  a2 = a2
  a3 = a3
  b1 = b1
  b2 = b2
  p1 = p1
  p2 = p2
  q1 = q1
  q2 = q2
  club = club
  Entries = {a1, a2, a3, b1, b2}
  Players = {p1, p2, q1, q2}
  PlayerOf <- MCPlayerOf
  Groups = {1, 2}
  GroupOf <- MCGroupOf
  ClubOf <- MCClubOf
  WeightOf <- MCWeightOf
  Mats = {1, 2}
  Sizes = {}
  Thresholds = {2}
  Past <- MCPast
  Assignments = {{1, 2}, {2}}
  MaxDraws = 2
  MaxEdits = 1
  None = None
SPECIFICATION Spec
SYMMETRY Symmetry
INVARIANTS
  TypeOK
  NoEmptyBout
  FeedersFirst
  AllOrNone
PROPERTIES
  RoomForAll
  RepeatsOnlyWhenForced
  MatListInOrder
CHECK_DEADLOCK FALSE
