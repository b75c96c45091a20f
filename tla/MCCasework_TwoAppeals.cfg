SPECIFICATION Spec
CONSTANTS
  Appeals = {a1, a2}
  Experts = {e1}
  Operators = {}
  Admins = {d1}
  Applicant = applicant
  Requests = {r1}
  NoRequest = noRequest
  Procs = {p1}
  QueryMode = "simple_protocol"
  Tracked = {}
SYMMETRY Symmetry
CONSTRAINT QuietAppeals
PROPERTIES
  RequestsResolvedOnce
  ImplementsLifecycle
