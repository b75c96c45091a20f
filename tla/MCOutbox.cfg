SPECIFICATION OutboxSpec
CONSTANTS
  Appeals = {a1}
  Experts = {e1}
  Operators = {o1}
  Admins = {}
  Applicant = applicant
  Requests = {}
  NoRequest = noRequest
  Procs = {p1}
  QueryMode = "simple_protocol"
  Tracked = {"contents"}
  Workers = {w1}
  AnalyticsEnabled = TRUE
  MaxFailures = 1
CONSTRAINT SilentStaff
INVARIANTS
  OutboxTypeOK
  FactsFollowStatus
  ContentsErased
PROPERTIES
  DeletionStaysInEffect
  ImplementsErasure
