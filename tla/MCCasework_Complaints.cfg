SPECIFICATION Spec
CONSTANTS
  Appeals = {a1}
  Experts = {e1}
  Operators = {o1}
  Admins = {}
  Applicant = applicant
  Requests = {}
  NoRequest = noRequest
  Procs = {p1, p2}
  QueryMode = "simple_protocol"
  Tracked = {}
INVARIANTS
  ComplaintsAreTaken
