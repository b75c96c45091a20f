SPECIFICATION Spec
CONSTANTS
  Appeals = {a1}
  Experts = {e1, e2}
  Operators = {o1}
  Admins = {d1}
  Applicant = applicant
  Requests = {}
  NoRequest = noRequest
  Procs = {p1, p2}
  QueryMode = "simple_protocol"
  Tracked = {"accepted_at", "first_response_at", "resolved_at"}
SYMMETRY Symmetry
INVARIANTS
  TypeOK
  ReadsStayTrue
  DeletionIsWhole
  OneResponsible
  HistoryTellsStatus
  ReturnsAreLimited
  OperatorSilentOnceAssigned
  StaffSilentOnceClosed
  TimesAreKnown
PROPERTIES
  HistoryChains
  DeletedIsFrozen
  ExpertsLeaveTogetherOrReplaced
  ImplementsLifecycle
