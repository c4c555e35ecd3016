\* Two students, two coaches, two days.
CONSTANTS
  ali = ali
  sara = sara
  c1 = c1
  c2 = c2
  k1 = k1
  k2 = k2
  Students = {ali, sara}
  Coaches = {c1, c2}
  RoleOf <- MCRoleOf
  CoachOf <- MCCoachOf
  ClubOf <- MCClubOf
  BoardOf <- MCBoardOf
  GenderOf <- MCGenderOf
  BornOf <- MCBornOf
  Belts = {"yellow", "red"}
  FirstBelt <- MCFirstBelt
  Required <- MCRequired
  Ages <- MCAges
  BeltGroups <- MCBeltGroups
  LevelBelts <- MCLevelBelts
  PageBelts <- MCPageBelts
  Categories <- MCCategories
  Weights = {5}
  Issued = {0, 1}
  Opens <- MCOpens
  Closes <- MCCloses
  Date <- MCDate
  LastDay = 1
  Codes = {k1, k2}
  Applicants <- MCApplicants
  Registering = {c1}
  Styles = {"standard"}
  Attendees = {ali}
  SeminarDays <- MCSeminarDays
  SeminarRoles = {"coach"}
  MaxOrders = 2
  MaxLines = 2
  MaxKyo = 3
  MaxPoo = 1
  MaxEdits = 1
  None = None
SPECIFICATION Spec
SYMMETRY Symmetry
INVARIANTS
  TypeOK
  CodesNeedOverlap
  OpenAgrees
  
  DoubleNeedsOverlap
  CardsAgree
PROPERTIES
  
  PaidKept
CHECK_DEADLOCK FALSE
