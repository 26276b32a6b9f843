SPECIFICATION Spec
CONSTANTS
  None = None
  l1 = l1
  l2 = l2
  r1 = r1
  r2 = r2
  p1 = p1
  p2 = p2
  s1 = s1
  s2 = s2
  Link = {l1, l2}
  Resume = {r1}
  Press = {p1, p2}
  Slot = {s1, s2}
  Length <- MCLength
  MIN_RESUME_TEXT_LENGTH = 1
  MAX_RESUME_TEXT_LENGTH = 2
  Day = 2
  MoscowOffset = 1
  Time <- MCTime
  MaxRestarts = 1
SYMMETRY MCSymmetry
INVARIANTS
  TypeOK
  OneWelcome
  JobsPerDelivery
  JobHasResume
  FreeLettersADay
CHECK_DEADLOCK FALSE
