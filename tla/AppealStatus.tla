---------------------------- MODULE AppealStatus ----------------------------
(***************************************************************************)
(* The statuses of an appeal and the table of manual status changes: the   *)
(* pure part of the case workflow (store/workflow.go, AllowedTransition).  *)
(* The status "NONE" stands for an appeal that has no row yet.             *)
(***************************************************************************)

LiveStatuses == {"NEW", "ASSIGNED", "IN_PROGRESS", "WAITING_FOR_APPLICANT",
                 "ANSWER_READY", "RETURNED", "COMPLETED", "REJECTED",
                 "CLOSED_NO_RESPONSE"}
Statuses     == LiveStatuses \cup {"NONE", "DELETED"}

Roles == {"APPLICANT", "OPERATOR", "EXPERT", "ADMIN"}

\* The three statuses in which the code refuses messages and assignments.
Closed == {"COMPLETED", "REJECTED", "CLOSED_NO_RESPONSE"}
Open   == LiveStatuses \ Closed

\* The only statuses in which an operator may write to the applicant.
OperatorTalks == {"NEW", "RETURNED"}

-----------------------------------------------------------------------------
\* One operator per role: to which statuses the role may move an appeal that
\* is in status from.
ApplicantMay(from) ==
  (IF from \in {"ASSIGNED", "IN_PROGRESS", "WAITING_FOR_APPLICANT",
                "ANSWER_READY", "RETURNED"} THEN {"COMPLETED"} ELSE {})
  \cup (IF from = "COMPLETED" THEN {"RETURNED"} ELSE {})

\* The part of the table an expert and an operator share.
WorkerMay(from) ==
  (IF from \in {"ASSIGNED", "RETURNED", "WAITING_FOR_APPLICANT", "ANSWER_READY"}
   THEN {"IN_PROGRESS"} ELSE {})
  \cup (IF from \in {"IN_PROGRESS", "ASSIGNED", "RETURNED", "WAITING_FOR_APPLICANT"}
        THEN {"WAITING_FOR_APPLICANT", "ANSWER_READY"} ELSE {})

OperatorMay(from) ==
  WorkerMay(from)
  \cup (IF from \in {"ANSWER_READY", "COMPLETED"} THEN {"RETURNED"} ELSE {})
  \cup (IF from = "ANSWER_READY" THEN {"COMPLETED"} ELSE {})
  \cup (IF from \notin Closed THEN {"CLOSED_NO_RESPONSE", "REJECTED"} ELSE {})

\* Slip: an administrator may also move a closed appeal.
AdminMayReopen(from) ==
  {"ASSIGNED", "IN_PROGRESS", "WAITING_FOR_APPLICANT", "ANSWER_READY"} \ {from}

\* The code also lists RETURNED here, behind the operator-only test on RETURNED
\* that precedes it: an administrator never returns an appeal.
AdminMay(from) ==
  IF from \in Closed THEN {}
  ELSE {"ASSIGNED", "IN_PROGRESS", "WAITING_FOR_APPLICANT", "ANSWER_READY"}

AllowedTransition(role, from, to) ==
  /\ from # "DELETED"
  /\ from # to
  /\ \/ role = "APPLICANT" /\ to \in ApplicantMay(from)
     \/ role = "OPERATOR"  /\ to \in OperatorMay(from)
     \/ role = "EXPERT"    /\ to \in WorkerMay(from)
     \/ role = "ADMIN"     /\ to \in AdminMay(from)
=============================================================================
