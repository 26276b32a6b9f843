SPECIFICATION Spec
CONSTANTS
  None = None
  e1 = e1
  e2 = e2
  Employer = {e1, e2}
  Page <- MCPage
  JSON <- MCJSON
  RecursionLimit = 1
  Status = {400, 403, 404, 429, 500}
  Kind = {"int", "digits", "text", "empty", "null", "absent", "object"}
  html_fallback_enabled = TRUE
INVARIANTS
  TypeOK
  TextOfElements
  ClosedIsNotLoaded
  ElementsSuffice
  EmployerIsRemembered
CHECK_DEADLOCK FALSE
