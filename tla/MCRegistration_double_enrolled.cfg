\* One student is put into two orders.
CONSTANTS
  ali = ali
  sara = sara
  c1 = c1
  c2 = c2
  k1 = k1
  k2 = k2
  Students = {ali, sara}
  Coaches = {c1, c2}
  RoleOf <- MCRoleOf
  CoachOf <- MCCoachOf
  ClubOf <- MCClubOf
  BoardOf <- MCBoardOf
  GenderOf <- MCGenderOf
  BornOf <- MCBornOf
  Belts = {"yellow", "red"}
  FirstBelt <- MCFirstBelt
  Required <- MCRequired
  Ages <- MCAges
  BeltGroups <- MCBeltGroups
  LevelBelts <- MCLevelBelts
  PageBelts <- MCPageBelts
  Categories <- MCCategories
  Weights = {5}
  Issued = {0, 1}
  Opens <- MCOpens
  Closes <- MCCloses
  Date <- MCDate
  LastDay = 1
  Codes = {k1, k2}
  Applicants <- MCApplicants
  Registering = {c1, c2}
  Styles = {"standard"}
  Attendees = {ali}
  SeminarDays <- MCSeminarDays
  SeminarRoles = {"coach"}
  MaxOrders = 2
  MaxLines = 1
  MaxKyo = 2
  MaxPoo = 1
  MaxEdits = 1
  None = None
SPECIFICATION Spec
SYMMETRY Symmetry
INVARIANT NeverTwice
CHECK_DEADLOCK FALSE
