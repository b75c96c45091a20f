SPECIFICATION FairViewSpec
CONSTANTS
  Appeals = {a1}
  Experts = {}
  Operators = {o1}
  Admins = {}
  Applicant = applicant
  Requests = {}
  NoRequest = noRequest
  Procs = {p1, p2}
  QueryMode = "simple_protocol"
  Views = {v1}
  Tracked = {}
INVARIANTS
  ViewStaysTrue
PROPERTIES
  EveryRequestAnswered
  StaleWaitingEnds
