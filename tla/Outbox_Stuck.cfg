SPECIFICATION OutboxSpec
CONSTANTS
  Appeals = {a1}
  Experts = {}
  Operators = {o1}
  Admins = {}
  Applicant = applicant
  Requests = {}
  NoRequest = noRequest
  Procs = {p1}
  QueryMode = "cache_statement"
  Tracked = {"contents"}
  Workers = {w1}
  AnalyticsEnabled = TRUE
  MaxFailures = 1
PROPERTIES
  DeletionTakesEffect
