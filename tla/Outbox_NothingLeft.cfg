SPECIFICATION OutboxSpec
CONSTANTS
  Appeals = {a1}
  Experts = {}
  Operators = {o1}
  Admins = {}
  Applicant = applicant
  Requests = {}
  NoRequest = noRequest
  Procs = {p1}
  QueryMode = "simple_protocol"
  Tracked = {"contents", "attachments"}
  Workers = {w1}
  AnalyticsEnabled = TRUE
  MaxFailures = 1
INVARIANTS
  NothingLeftAfterDeletion
