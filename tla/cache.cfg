SPECIFICATION Spec
CONSTANTS
  None = None
  v1 = v1
  e1 = e1
  w1 = w1
  w2 = w2
  w3 = w3
  c1 = c1
  Vacancy = {v1}
  Employer = {e1}
  EmployerOf <- MCEmployerOf
  Worker = {w1, w2, w3}
  Client = {c1}
  Editable = {v1}
  Closable = {v1}
  CACHE_TTL = 0
  MaxTime = 2
SYMMETRY MCSymmetry
INVARIANTS
  TypeOK
  ClosingIsLearned
  EmployerJoined
  LetterIsCurrent
CHECK_DEADLOCK FALSE
