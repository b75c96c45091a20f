SPECIFICATION AdmissionSpec
CONSTANTS
  Appeals = {a1}
  Experts = {}
  Operators = {}
  Admins = {}
  Applicant = applicant
  Requests = {}
  NoRequest = noRequest
  Procs = {p1, p2}
  QueryMode = "simple_protocol"
  Tracked = {"contents"}
  Workers = {w1}
  AnalyticsEnabled = TRUE
  MaxFailures = 1
  Callers = {p1, p2}
  Limit = 1
  MaxCount = 2
INVARIANTS
  LockoutIsTimed
PROPERTIES
  DeletionTakesEffect
  LockoutEnds
CHECK_DEADLOCK FALSE
