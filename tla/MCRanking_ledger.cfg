\* Everything: results saved and deleted, enrollments deleted, edits approved.
CONSTANTS
  e1 = e1
  e2 = e2
  e3 = e3
  p1 = p1
  p2 = p2
  p3 = p3
  club = club
  board = board
  r1 = r1
  r2 = r2
  Enrollments = {e1, e3}
  Profiles = {p1, p3}
  Orgs = {club, board}
  Results = {r1, r2}
  Workers = {w1}
  Player <- MCPlayer
  Coach <- MCCoach
  Club <- MCClub
  Board <- MCBoard
  PlayerCoach <- MCPlayerCoach
  PlayerClub <- MCPlayerClub
  PlayerBoard <- MCPlayerBoard
  ClubBoard <- MCClubBoard
  Weight <- MCWeight
  MaxSaves = 2
  None = None
SPECIFICATION Spec
INVARIANTS
  TypeOK
  OrgsNeverShort
PROPERTIES
  PointsFollowLedger
CHECK_DEADLOCK FALSE
