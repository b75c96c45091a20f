-------------------------- MODULE CaseworkRefinement --------------------------
(***************************************************************************)
(* What no step of Casework may ever do to an appeal, and that Casework    *)
(* implements CaseLifecycle: both follow from what CaseworkSteps says of a *)
(* step.                                                                   *)
(***************************************************************************)
EXTENDS CaseworkSteps

\* A history row that is added starts where the newest one ended.
LEMMA StepsChain ==
  ASSUME LockInv, CaseInv, [Next]_vars, NEW b \in Appeals, history'[b] # history[b]
  PROVE  history'[b].from = history[b].to
<1>1. TypeOK /\ (status[b] # "DELETED" => history[b].to = status[b])
  BY DEF LockInv, CaseInv, HistoryTellsStatus
<1>2. CoreNext BY StepsAreCases DEF core
<1>3. ASSUME NEW a \in Appeals, CaseStep(a)
      PROVE  history'[b].from = history[b].to
  <2>1. a = b BY <1>1, <1>3, OthersStay
  <2>2. ASSUME NEW to, NEW said, Move(b, to, said)
        PROVE  history'[b].from = history[b].to
    <3>1. to # status[b] BY <1>1, <2>2, Moved
    <3>2. history'[b] = HistoryRow(status[b], to) BY <1>1, <2>2, <3>1, Moved
    <3>3. status[b] # "DELETED" BY <2>2 DEF Move, LiveStatuses
    <3> QED BY <1>1, <3>2, <3>3 DEF HistoryRow
  <2>3. CASE Submit(b)
    BY <1>1, <2>3 DEF Submit, HistoryRow, TypeOK
  <2>4. CASE Hear(b) \/ Erase(b)
    BY <2>4 DEF Hear, Erase
  <2> QED BY <1>3, <2>1, <2>2, <2>3, <2>4
          DEF CaseStep, Change, Talk, TakeOver, Support, AnswerAndClose, SendBack
<1>4. ASSUME NEW S \in SUBSET Appeals, Lapse(S)
      PROVE  history'[b].from = history[b].to
  BY <1>1, <1>4 DEF Lapse, HistoryRow
<1> QED BY <1>2, <1>3, <1>4 DEF CoreNext

\* No status change is lost between two history rows, whatever the requests and
\* the worker do at the same time.
THEOREM HistoryIsGapless == Spec => HistoryChains
<1>1. LockInv /\ CaseInv /\ [Next]_vars =>
        [\A a \in Appeals :
           history'[a] # history[a] => history'[a].from = history[a].to]_vars
  BY StepsChain
<1> QED BY <1>1, CaseSafe, PTL DEF Spec, HistoryChains

\* All that happens to a deleted appeal is that a message of its applicant that
\* was under way arrives.
LEMMA DeletedStays ==
  ASSUME LockInv, [Next]_vars, NEW b \in Appeals, deleted[b]
  PROVE  /\ deleted'[b] /\ status'[b] = status[b]
         /\ assigned'[b] = assigned[b] /\ returns'[b] = returns[b]
         /\ history'[b] = history[b]
         /\ chat'[b] \ {"APPLICANT"} = chat[b] \ {"APPLICANT"}
<1>1. TypeOK /\ status[b] = "DELETED" BY DEF LockInv, DeletionIsWhole
<1>2. status[b] \notin LiveStatuses BY <1>1 DEF LiveStatuses
<1>3. CASE UNCHANGED core BY <1>3 DEF core
<1>4. ASSUME NEW a \in Appeals, CaseStep(a), a # b
      PROVE  /\ deleted'[b] /\ status'[b] = status[b]
             /\ assigned'[b] = assigned[b] /\ returns'[b] = returns[b]
             /\ history'[b] = history[b] /\ chat'[b] = chat[b]
  BY <1>1, <1>4, OthersStay
<1>5. CASE CaseStep(b)
  <2>1. Hear(b) \/ Erase(b)
    BY <1>1, <1>2, <1>5 DEF CaseStep, Change, Talk, TakeOver, Support, AnswerAndClose,
                            SendBack, Submit, Move
  <2>2. CASE Hear(b) BY <1>1, <2>2 DEF Hear, TypeOK
  <2>3. CASE Erase(b) BY <1>1, <2>3 DEF Erase, TypeOK
  <2> QED BY <2>1, <2>2, <2>3
<1>6. ASSUME NEW S \in SUBSET Appeals, Lapse(S)
      PROVE  /\ deleted'[b] /\ status'[b] = status[b]
             /\ assigned'[b] = assigned[b] /\ returns'[b] = returns[b]
             /\ history'[b] = history[b] /\ chat'[b] = chat[b]
  <2>1. b \notin S BY <1>1, <1>6 DEF Lapse
  <2> QED BY <1>6, <2>1 DEF Lapse
<1> QED BY <1>3, <1>4, <1>5, <1>6, StepsAreCases DEF CoreNext

\* Requests that were let in before the deletion do not reach the appeal after
\* it, however many there are and wherever they have got to.
THEOREM DeletionIsFinal == Spec => DeletedIsFrozen
<1>1. LockInv /\ CaseInv /\ [Next]_vars =>
        [\A a \in Appeals : deleted[a] =>
           /\ deleted'[a] /\ status'[a] = status[a]
           /\ assigned'[a] = assigned[a] /\ returns'[a] = returns[a]
           /\ history'[a] = history[a]
           /\ chat'[a] \ {"APPLICANT"} = chat[a] \ {"APPLICANT"}]_vars
  BY DeletedStays
<1> QED BY <1>1, CaseSafe, PTL DEF Spec, DeletedIsFrozen

-----------------------------------------------------------------------------
\* Who answers for an appeal after somebody has joined.
LEMMA JoinedResponsible ==
  ASSUME NEW a \in Appeals, NEW e \in Experts
  PROVE  /\ assigned'[a] = Join(a, e, "RESPONSIBLE") => Responsible(a)' = {e}
         /\ assigned'[a] = Join(a, e, "COEXECUTOR") /\ e \notin AssignedTo(a)
              => /\ Responsible(a)' = Responsible(a)
                 /\ AssignedTo(a) \subseteq AssignedTo(a)'
<1>1. ASSUME assigned'[a] = Join(a, e, "RESPONSIBLE")
      PROVE  Responsible(a)' = {e}
  <2>. DEFINE row == [expert |-> e, kind |-> "RESPONSIBLE"]
  <2>1. row.expert = e /\ row.kind = "RESPONSIBLE" OBVIOUS
  <2>2. row \in assigned'[a]
        /\ \A x \in assigned'[a] : x = row \/ x.kind # "RESPONSIBLE"
    BY <1>1 DEF Join
  <2>. HIDE DEF row
  <2> QED BY <2>1, <2>2 DEF Responsible
<1>2. ASSUME assigned'[a] = Join(a, e, "COEXECUTOR"), e \notin AssignedTo(a)
      PROVE  /\ Responsible(a)' = Responsible(a)
             /\ AssignedTo(a) \subseteq AssignedTo(a)'
  <2>1. \A x \in assigned[a] : x.expert # e BY <1>2 DEF AssignedTo
  <2>2. assigned'[a] = assigned[a] \cup {[expert |-> e, kind |-> "COEXECUTOR"]}
    BY <1>2, <2>1 DEF Join
  <2> QED BY <2>2 DEF Responsible, AssignedTo
<1> QED BY <1>1, <1>2

\* A new responsible expert takes the place of the one before, and of nobody else.
LEMMA TakeOverReplaces ==
  ASSUME OneResponsible, NEW a \in Appeals, NEW e \in Experts,
         assigned'[a] = Join(a, e, "RESPONSIBLE"),
         AssignedTo(a) \ AssignedTo(a)' # {}
  PROVE  AssignedTo(a) \ AssignedTo(a)' = Responsible(a)
<1>1. PICK z \in assigned[a] : z.expert \notin AssignedTo(a)' BY DEF AssignedTo
<1>2. \A x \in assigned[a] :
        x.expert # e /\ x.kind # "RESPONSIBLE" => x.expert \in AssignedTo(a)'
  BY DEF Join, AssignedTo
<1>3. e \in AssignedTo(a)'
  <2>. DEFINE row == [expert |-> e, kind |-> "RESPONSIBLE"]
  <2>1. row \in assigned'[a] /\ row.expert = e BY DEF Join
  <2>. HIDE DEF row
  <2> QED BY <2>1 DEF AssignedTo
<1>4. \A x \in assigned[a] :
        x.expert \notin AssignedTo(a)' => x.kind = "RESPONSIBLE"
  BY <1>2, <1>3
<1>5. \A x \in assigned[a] : x.kind = "RESPONSIBLE" => x = z
  BY <1>1, <1>4 DEF OneResponsible
<1>6. Responsible(a) = {z.expert} BY <1>1, <1>4, <1>5 DEF Responsible
<1>7. AssignedTo(a) \ AssignedTo(a)' = {z.expert}
  BY <1>1, <1>4, <1>5 DEF AssignedTo
<1> QED BY <1>6, <1>7

\* The ways in which experts leave a case.
LEMMA ExpertsLeave ==
  ASSUME LockInv, CaseInv, [Next]_vars, NEW b \in Appeals,
         AssignedTo(b) \ AssignedTo(b)' # {}
  PROVE  \/ /\ AssignedTo(b) \ AssignedTo(b)' = Responsible(b)
            /\ Responsible(b)' # {} /\ status'[b] = "ASSIGNED"
         \/ /\ assigned'[b] = {} /\ status'[b] = "RETURNED"
            /\ returns'[b] = returns[b] + 1
<1>1. TypeOK /\ OneResponsible BY DEF LockInv, CaseInv
<1>2. assigned'[b] # assigned[b] BY DEF AssignedTo
<1>3. CoreNext BY <1>2, StepsAreCases DEF core
<1>4. PICK a \in Appeals : CaseStep(a) BY <1>2, <1>3 DEF CoreNext, Lapse
<1>5. a = b BY <1>1, <1>2, <1>4, OthersStay
<1>6. SendBack(b) \/ \E e \in Experts : TakeOver(b, e) \/ Support(b, e)
  BY <1>2, <1>4, <1>5
  DEF CaseStep, Change, Talk, AnswerAndClose, Hear, Submit, Erase
<1>7. CASE SendBack(b)
  BY <1>1, <1>7, Moved DEF SendBack, TypeOK
<1>8. ASSUME NEW e \in Experts, TakeOver(b, e)
      PROVE  /\ AssignedTo(b) \ AssignedTo(b)' = Responsible(b)
             /\ Responsible(b)' # {} /\ status'[b] = "ASSIGNED"
  <2>1. assigned'[b] = Join(b, e, "RESPONSIBLE") BY <1>1, <1>8 DEF TakeOver, TypeOK
  <2>2. status'[b] = "ASSIGNED" BY <1>1, <1>8, Moved DEF TakeOver
  <2> QED BY <1>1, <2>1, <2>2, TakeOverReplaces, JoinedResponsible
<1>9. ASSUME NEW e \in Experts, Support(b, e)
      PROVE  FALSE
  <2>1. assigned'[b] = Join(b, e, "COEXECUTOR") BY <1>1, <1>9 DEF Support, TypeOK
  <2> QED BY <1>9, <2>1, JoinedResponsible DEF Support
<1> QED BY <1>6, <1>7, <1>8, <1>9

\* An expert loses a case by being replaced or with all others, never by chance.
THEOREM ExpertsLeaveForAReason == Spec => ExpertsLeaveTogetherOrReplaced
<1>1. LockInv /\ CaseInv /\ [Next]_vars =>
        [\A a \in Appeals :
           LET left == AssignedTo(a) \ AssignedTo(a)' IN
           left # {} =>
             \/ /\ left = Responsible(a)
                /\ Responsible(a)' # {} /\ status'[a] = "ASSIGNED"
             \/ /\ assigned'[a] = {} /\ status'[a] = "RETURNED"
                /\ returns'[a] = returns[a] + 1]_vars
  BY ExpertsLeave
<1> QED BY <1>1, CaseSafe, PTL DEF Spec, ExpertsLeaveTogetherOrReplaced
-----------------------------------------------------------------------------
\* An assignment approves the request it answers, and no other.
LEMMA ApproveResolves ==
  ASSUME TypeOK, NEW a \in Appeals, NEW kind \in RequestKinds,
         NEW r \in Requests \cup {NoRequest}, Answers(r, a, kind), Approve(r),
         NEW q \in Requests, requests'[q] # requests[q]
  PROVE  /\ requests[q].state = "NEW" /\ requests[q].appeal = a
         /\ requests[q].kind = kind
         /\ requests'[q].appeal = a /\ requests'[q].kind = kind
<1>1. r # NoRequest /\ q = r BY DEF Approve, TypeOK
<1>2. requests[q] \in RequestRows BY <1>1 DEF Answers, TypeOK
<1>3. requests' = [requests EXCEPT ![r] = [@ EXCEPT !.state = "APPROVED"]]
  BY <1>1 DEF Approve
<1>4. requests'[q] = [requests[q] EXCEPT !.state = "APPROVED"]
  BY <1>1, <1>3 DEF TypeOK
<1>5. /\ requests'[q].appeal = requests[q].appeal
      /\ requests'[q].kind = requests[q].kind
  BY <1>2, <1>4 DEF RequestRows
<1> QED BY <1>1, <1>5 DEF Answers

\* A request that is there changes once, and by a step that does what it asks.
LEMMA RequestsAreAnswered ==
  ASSUME LockInv, [Next]_vars, NEW q \in Requests, requests[q] # NoRow,
         requests'[q] \notin {requests[q], NoRow}
  PROVE  LET a == requests[q].appeal IN
         /\ requests[q].state = "NEW"
         /\ requests'[q].appeal = a /\ requests'[q].kind = requests[q].kind
         /\ requests'[q].state = "APPROVED" =>
              \E x \in assigned'[a] \ assigned[a] :
                (x.kind = "COEXECUTOR") = (requests[q].kind = "COEXECUTOR")
<1>1. TypeOK BY DEF LockInv
<1>2. PICK p \in Procs :
        \/ \E e \in Experts, r \in Requests \cup {NoRequest} :
             Assign(p, e, r) \/ AddCoexecutor(p, e, r)
        \/ \E r \in Requests : RejectRequest(p, r)
  <2>1. ASSUME NEW p \in Procs, NEW r \in Requests, NEW kind \in RequestKinds,
               RequestHelp(p, kind, r) \/ RequestReassignment(p, r)
        PROVE  FALSE
    BY <1>1, <2>1 DEF RequestHelp, RequestReassignment, Insert, TypeOK
  <2>2. ASSUME NEW p \in Procs, StaffOperation(p)
        PROVE  \/ \E e \in Experts, r \in Requests \cup {NoRequest} :
                    Assign(p, e, r) \/ AddCoexecutor(p, e, r)
               \/ \E r \in Requests : RejectRequest(p, r)
    BY <2>1, <2>2
    DEF StaffOperation, SetPriority, ReplyAndClose, Reply, Note, StaffMessage,
        ChangeStatus
  <2>3. ASSUME NEW p \in Procs, ApplicantOperation(p)
        PROVE  FALSE
    <3>1. CASE DeleteAppeal(p) BY <3>1 DEF DeleteAppeal
    <3>2. CASE ~DeleteAppeal(p)
      BY <2>1, <2>3, <3>2
      DEF ApplicantOperation, ApplicantStatus, ConfirmHelp, ReturnAnswer,
          RateOrComplain, CheckChatOpen, AddApplicantMessage, OpenSession, cases,
          RequestKinds
    <3> QED BY <3>1, <3>2
  <2>4. ASSUME NEW p \in Procs, Acquire(p) \/ Refuse(p) \/ Abort(p)
        PROVE  FALSE
    BY <2>4 DEF Acquire, Refuse, Abort, cases
  <2>5. ASSUME NEW p \in Procs, NEW a \in Appeals,
               \/ WithApplicant(p, a) \/ Authenticate(p, a)
               \/ \E u \in Staff : StaffOnly(p, u, a)
        PROVE  FALSE
    BY <2>5 DEF WithApplicant, Authenticate, StaffOnly, Begin, cases
  <2>6. ASSUME NEW a \in Appeals,
               \/ SessionExpires(a) \/ Age(a)
               \/ \E extras \in SUBSET Extras : CreateAppeal(a, extras)
        PROVE  FALSE
    BY <2>6 DEF SessionExpires, Age, CreateAppeal
  <2>7. ASSUME NEW S \in SUBSET Appeals, AutoClose(S)
        PROVE  FALSE
    BY <2>7 DEF AutoClose
  <2>8. ~UNCHANGED vars BY DEF vars
  <2> QED BY <2>2, <2>3, <2>4, <2>5, <2>6, <2>7, <2>8 DEF Next, ApiNext, Step
<1>. DEFINE a == tx[p].appeal
<1>3. a \in Appeals
  BY <1>1, <1>2, PhaseMeansBusy, BusyHasFields
  DEF LockInv, Assign, AddCoexecutor, RejectRequest, Holding
<1>4. ASSUME NEW e \in Experts, NEW r \in Requests \cup {NoRequest}, Assign(p, e, r)
      PROVE  /\ requests[q].state = "NEW" /\ requests[q].appeal = a
             /\ requests'[q].appeal = a /\ requests'[q].kind = requests[q].kind
             /\ \E x \in assigned'[a] \ assigned[a] :
                  (x.kind = "COEXECUTOR") = (requests[q].kind = "COEXECUTOR")
  <2>. DEFINE row == [expert |-> e, kind |-> "RESPONSIBLE"]
  <2>1. /\ requests[q].state = "NEW" /\ requests[q].appeal = a
        /\ requests[q].kind = "TRANSFER"
        /\ requests'[q].appeal = a /\ requests'[q].kind = "TRANSFER"
    BY <1>1, <1>3, <1>4, ApproveResolves DEF Assign, RequestKinds
  <2>2. assigned'[a] = Join(a, e, "RESPONSIBLE")
    BY <1>1, <1>3, <1>4 DEF Assign, TypeOK
  <2>3. row \in assigned'[a] BY <2>2 DEF Join
  <2>4. row.expert = e /\ row.kind = "RESPONSIBLE" OBVIOUS
  <2>. HIDE DEF row
  <2>5. row \notin assigned[a] BY <1>4, <2>4 DEF Assign, Responsible
  <2> QED BY <2>1, <2>3, <2>4, <2>5
<1>5. ASSUME NEW e \in Experts, NEW r \in Requests \cup {NoRequest},
             AddCoexecutor(p, e, r)
      PROVE  /\ requests[q].state = "NEW" /\ requests[q].appeal = a
             /\ requests'[q].appeal = a /\ requests'[q].kind = requests[q].kind
             /\ \E x \in assigned'[a] \ assigned[a] :
                  (x.kind = "COEXECUTOR") = (requests[q].kind = "COEXECUTOR")
  <2>. DEFINE row == [expert |-> e, kind |-> "COEXECUTOR"]
  <2>1. /\ requests[q].state = "NEW" /\ requests[q].appeal = a
        /\ requests[q].kind = "COEXECUTOR"
        /\ requests'[q].appeal = a /\ requests'[q].kind = "COEXECUTOR"
    BY <1>1, <1>3, <1>5, ApproveResolves DEF AddCoexecutor, RequestKinds
  <2>2. assigned'[a] = Join(a, e, "COEXECUTOR")
    BY <1>1, <1>3, <1>5 DEF AddCoexecutor, TypeOK
  <2>3. row \in assigned'[a] BY <2>2 DEF Join
  <2>4. row.expert = e /\ row.kind = "COEXECUTOR" OBVIOUS
  <2>. HIDE DEF row
  <2>5. row \notin assigned[a] BY <1>5, <2>4 DEF AddCoexecutor, AssignedTo
  <2> QED BY <2>1, <2>3, <2>4, <2>5
<1>6. ASSUME NEW r \in Requests, RejectRequest(p, r)
      PROVE  /\ requests[q].state = "NEW"
             /\ requests'[q].appeal = requests[q].appeal
             /\ requests'[q].kind = requests[q].kind
             /\ requests'[q].state = "REJECTED"
  <2>1. q = r BY <1>1, <1>6 DEF RejectRequest, TypeOK
  <2>2. requests[q] \in RequestRows BY <1>1 DEF TypeOK
  <2>3. requests'[q] = [requests[q] EXCEPT !.state = "REJECTED"]
    BY <1>1, <1>6, <2>1 DEF RejectRequest, TypeOK
  <2> QED BY <1>6, <2>1, <2>2, <2>3 DEF RejectRequest, RequestRows
<1> QED BY <1>2, <1>4, <1>5, <1>6

\* A reassignment request is resolved once and as it asks, however many requests
\* of the staff answer it at the same moment.
THEOREM RequestsAreResolvedOnce == Spec => RequestsResolvedOnce
<1>1. LockInv /\ CaseInv /\ [Next]_vars =>
        [\A r \in Requests :
           requests[r] # NoRow /\ requests'[r] \notin {requests[r], NoRow} =>
             LET a == requests[r].appeal IN
             /\ requests[r].state = "NEW"
             /\ requests'[r].appeal = a /\ requests'[r].kind = requests[r].kind
             /\ requests'[r].state = "APPROVED" =>
                  \E x \in assigned'[a] \ assigned[a] :
                    (x.kind = "COEXECUTOR") = (requests[r].kind = "COEXECUTOR")]_vars
  BY RequestsAreAnswered
<1> QED BY <1>1, CaseSafe, PTL DEF Spec, RequestsResolvedOnce

-----------------------------------------------------------------------------
(***************************************************************************)
(* The refinement of CaseLifecycle.                                        *)
(***************************************************************************)
Phase == [a \in Appeals |-> PhaseOf(status[a])]
Owner == [a \in Appeals |-> Responsible(a)]

\* The phases of the statuses.
LEMMA PhaseTable ==
  /\ PhaseOf("NONE") = "absent" /\ PhaseOf("DELETED") = "erased"
  /\ PhaseOf("NEW") = "queue" /\ PhaseOf("RETURNED") = "queue"
  /\ PhaseOf("ASSIGNED") = "work" /\ PhaseOf("IN_PROGRESS") = "work"
  /\ PhaseOf("WAITING_FOR_APPLICANT") = "work"
  /\ PhaseOf("ANSWER_READY") = "answered" /\ PhaseOf("COMPLETED") = "completed"
  /\ PhaseOf("REJECTED") = "dismissed"
  /\ PhaseOf("CLOSED_NO_RESPONSE") = "dismissed"
BY DEF PhaseOf, OperatorTalks, Closed

\* An open appeal is going, and every appeal that exists has left "absent".
LEMMA PhaseFacts ==
  ASSUME NEW s \in Statuses
  PROVE  /\ s \in Open => PhaseOf(s) \in {"queue", "work", "answered"}
         /\ s # "NONE" => PhaseOf(s) \in {"queue", "work", "answered", "completed",
                                          "dismissed", "erased"}
BY PhaseTable DEF Statuses, LiveStatuses, Open, Closed

\* A step of one case changes the phase and the owner of that case only.
LEMMA PhaseGoes ==
  ASSUME TypeOK, NEW a \in Appeals, CaseStep(a)
  PROVE  /\ Phase' = [Phase EXCEPT ![a] = PhaseOf(status'[a])]
         /\ Owner' = [Owner EXCEPT ![a] = Responsible(a)']
<1>1. \A b \in Appeals \ {a} :
        PhaseOf(status'[b]) = PhaseOf(status[b]) /\ Responsible(b)' = Responsible(b)
  BY OthersStay DEF Responsible
<1>2. \A b \in Appeals : Phase'[b] = [Phase EXCEPT ![a] = PhaseOf(status'[a])][b]
  BY <1>1 DEF Phase
<1>3. \A b \in Appeals : Owner'[b] = [Owner EXCEPT ![a] = Responsible(a)'][b]
  BY <1>1 DEF Owner
<1> QED BY <1>2, <1>3 DEF Phase, Owner

\* A manual status change is a step of the lifecycle: the table of transitions
\* reopens nothing that is dismissed.
LEMMA ChangesImplement ==
  ASSUME TypeOK, NEW a \in Appeals, NEW to \in LiveStatuses, Change(a, to)
  PROVE  Lifecycle!Next
<1>. DEFINE from == status[a]
<1>1. CaseStep(a) BY DEF CaseStep
<1>2. status'[a] = to /\ Responsible(a)' = Responsible(a)
  BY Moved DEF Change, Responsible
<1>3. /\ Phase' = [Phase EXCEPT ![a] = PhaseOf(to)] /\ Owner' = Owner
      /\ returns' = returns
  <2>1. Owner' = [Owner EXCEPT ![a] = Owner[a]] BY <1>1, <1>2, PhaseGoes DEF Owner
  <2>2. Owner' = Owner BY <2>1 DEF Owner
  <2> QED BY <1>1, <1>2, <2>2, PhaseGoes DEF Change
<1>4. Phase[a] = PhaseOf(from) BY DEF Phase
<1>5. from \in LiveStatuses /\ \E role \in Roles : AllowedTransition(role, from, to)
  BY DEF Change, Move
<1>6. /\ to # "NEW" /\ (to = "RETURNED" => from \in {"ANSWER_READY", "COMPLETED"})
      /\ to # "RETURNED" => from \in Open
  BY <1>5 DEF AllowedTransition, ApplicantMay, OperatorMay, WorkerMay, AdminMay, Closed,
              Open
<1>7. to # "RETURNED" => Phase[a] \in {"queue", "work", "answered"}
  BY <1>4, <1>5, <1>6, PhaseFacts DEF Statuses
<1>8. CASE to \in {"ASSIGNED", "IN_PROGRESS", "WAITING_FOR_APPLICANT", "ANSWER_READY"}
  <2>1. PhaseOf(to) = "work" \/ PhaseOf(to) = "answered" BY <1>8, PhaseTable
  <2>2. Lifecycle!Work(a)
    BY <1>3, <1>7, <1>8, <2>1
    DEF Lifecycle!Work, Lifecycle!Go, Lifecycle!Going, Phase, Owner
  <2> QED BY <2>2 DEF Lifecycle!Next
<1>9. CASE to = "COMPLETED"
  <2>1. Lifecycle!Complete(a)
    BY <1>3, <1>7, <1>9, PhaseTable
    DEF Lifecycle!Complete, Lifecycle!Go, Lifecycle!Going, Phase, Owner
  <2> QED BY <2>1 DEF Lifecycle!Next
<1>10. CASE to = "RETURNED"
  <2>1. Phase[a] \in {"answered", "completed"} BY <1>4, <1>6, <1>10, PhaseTable
  <2>2. Lifecycle!Reopen(a)
    BY <1>3, <1>10, <2>1, PhaseTable DEF Lifecycle!Reopen, Lifecycle!Go, Phase, Owner
  <2> QED BY <2>2 DEF Lifecycle!Next
<1>11. CASE to \in {"REJECTED", "CLOSED_NO_RESPONSE"}
  <2>1. Phase' = [b \in Appeals |-> IF b \in {a} THEN "dismissed" ELSE Phase[b]]
    BY <1>3, <1>11, PhaseTable DEF Phase
  <2>2. Lifecycle!Dismiss({a})
    BY <1>3, <1>7, <1>11, <2>1 DEF Lifecycle!Dismiss, Lifecycle!Going, Phase, Owner
  <2> QED BY <2>2 DEF Lifecycle!Next
<1> QED BY <1>6, <1>8, <1>9, <1>10, <1>11 DEF LiveStatuses

\* So is every other step of one case, unless the lifecycle does not see it.
LEMMA CaseStepsImplement ==
  ASSUME TypeOK, NEW a \in Appeals, CaseStep(a)
  PROVE  [Lifecycle!Next]_Lifecycle!caseVars
<1>1. /\ Phase' = [Phase EXCEPT ![a] = PhaseOf(status'[a])]
      /\ Owner' = [Owner EXCEPT ![a] = Responsible(a)']
      /\ Phase[a] = PhaseOf(status[a]) /\ Owner[a] = Responsible(a)
  BY PhaseGoes DEF Phase, Owner
<1>2. status[a] \in Statuses BY DEF TypeOK
<1>3. ASSUME Responsible(a)' = Responsible(a)
      PROVE  Owner' = Owner
  BY <1>1, <1>3 DEF Owner
<1>4. ASSUME status'[a] = status[a], Responsible(a)' = Responsible(a), returns' = returns
      PROVE  UNCHANGED Lifecycle!caseVars
  <2>1. Phase' = Phase BY <1>1, <1>4 DEF Phase
  <2> QED BY <1>3, <1>4, <2>1 DEF Lifecycle!caseVars, Phase, Owner
<1>5. ASSUME assigned' = assigned
      PROVE  Responsible(a)' = Responsible(a)
  BY <1>5 DEF Responsible
<1>6. ASSUME NEW to \in LiveStatuses, Change(a, to)
      PROVE  Lifecycle!Next
  BY <1>6, ChangesImplement
<1>7. ASSUME NEW role, Talk(a, role)
      PROVE  UNCHANGED Lifecycle!caseVars
  BY <1>4, <1>5, <1>7, Moved DEF Talk
<1>8. ASSUME NEW e \in Experts, TakeOver(a, e)
      PROVE  Lifecycle!Next
  <2>1. assigned'[a] = Join(a, e, "RESPONSIBLE") /\ status'[a] = "ASSIGNED"
    BY <1>8, Moved DEF TakeOver, TypeOK
  <2>2. Responsible(a)' = {e} BY <2>1, JoinedResponsible
  <2>3. Phase[a] \in {"queue", "work", "answered"}
    BY <1>1, <1>2, <1>8, PhaseFacts DEF TakeOver, Move, Open
  <2>4. Lifecycle!Take(a, e)
    BY <1>1, <1>8, <2>1, <2>2, <2>3, PhaseTable
    DEF Lifecycle!Take, Lifecycle!Go, Lifecycle!Going, Phase, Owner, TakeOver
  <2> QED BY <2>4 DEF Lifecycle!Next
<1>9. ASSUME NEW e \in Experts, Support(a, e)
      PROVE  UNCHANGED Lifecycle!caseVars
  <2>1. assigned'[a] = Join(a, e, "COEXECUTOR") /\ status'[a] = status[a]
    BY <1>9, Moved DEF Support, TypeOK
  <2> QED BY <1>4, <1>9, <2>1, JoinedResponsible DEF Support
<1>10. CASE AnswerAndClose(a)
  <2>1. status[a] = "NEW" /\ status'[a] = "COMPLETED" BY <1>10, Moved DEF AnswerAndClose
  <2>2. Lifecycle!Complete(a)
    BY <1>1, <1>3, <1>5, <1>10, <2>1, PhaseTable
    DEF Lifecycle!Complete, Lifecycle!Go, Lifecycle!Going, Phase, Owner, AnswerAndClose
  <2> QED BY <2>2 DEF Lifecycle!Next
<1>11. CASE SendBack(a)
  <2>1. /\ status[a] = "ANSWER_READY" /\ status'[a] = "RETURNED"
        /\ assigned'[a] = {}
    BY <1>11, Moved DEF SendBack, TypeOK
  <2>2. Responsible(a)' = {} BY <2>1 DEF Responsible
  <2>3. Lifecycle!SendBack(a)
    BY <1>1, <1>11, <2>1, <2>2, PhaseTable
    DEF Lifecycle!SendBack, Lifecycle!Go, Phase, Owner, SendBack
  <2> QED BY <2>3 DEF Lifecycle!Next
<1>12. CASE Hear(a)
  BY <1>4, <1>5, <1>12 DEF Hear
<1>13. CASE Submit(a)
  <2>1. status[a] = "NONE" /\ status'[a] = "NEW" BY <1>13 DEF Submit, TypeOK
  <2>2. Lifecycle!Submit(a)
    BY <1>1, <1>3, <1>5, <1>13, <2>1, PhaseTable
    DEF Lifecycle!Submit, Lifecycle!Go, Phase, Owner, Submit
  <2> QED BY <2>2 DEF Lifecycle!Next
<1>14. CASE Erase(a)
  <2>1. status[a] # "NONE" /\ status'[a] = "DELETED" BY <1>14 DEF Erase, TypeOK
  <2>2. Phase[a] \in Lifecycle!Phases \ {"absent"}
    BY <1>1, <1>2, <2>1, PhaseFacts DEF Lifecycle!Phases
  <2>3. Lifecycle!Erase(a)
    BY <1>1, <1>3, <1>5, <1>14, <2>1, <2>2, PhaseTable
    DEF Lifecycle!Erase, Lifecycle!Go, Phase, Owner, Erase
  <2> QED BY <2>3 DEF Lifecycle!Next
<1> QED
  BY <1>6, <1>7, <1>8, <1>9, <1>10, <1>11, <1>12, <1>13, <1>14 DEF CaseStep

\* What the worker closes is dismissed, all of it at once.
LEMMA LapseImplements ==
  ASSUME NEW S \in SUBSET Appeals, Lapse(S)
  PROVE  Lifecycle!Next
<1>1. \A a \in S : Phase[a] = "work" BY PhaseTable DEF Lapse, Phase
<1>2. Phase' = [a \in Appeals |-> IF a \in S THEN "dismissed" ELSE Phase[a]]
  BY PhaseTable DEF Lapse, Phase
<1>3. Owner' = Owner BY DEF Lapse, Owner, Responsible
<1>4. Lifecycle!Dismiss(S)
  BY <1>1, <1>2, <1>3 DEF Lifecycle!Dismiss, Lifecycle!Going, Phase, Owner, Lapse
<1> QED BY <1>4 DEF Lifecycle!Next

\* The lifecycle begins with no appeals, and each step of Casework is one of its
\* steps or none.
LEMMA LifecycleInitially == Init => Lifecycle!Init
BY PhaseTable DEF Init, Lifecycle!Init, Responsible

LEMMA StepsImplement == LockInv /\ [Next]_vars => [Lifecycle!Next]_Lifecycle!caseVars
<1>1. LockInv => TypeOK BY DEF LockInv
<1>2. UNCHANGED core => UNCHANGED Lifecycle!caseVars
  BY DEF core, Lifecycle!caseVars, Responsible
<1> QED BY <1>1, <1>2, StepsAreCases, CaseStepsImplement, LapseImplements DEF CoreNext

\* Casework implements CaseLifecycle, for any number of appeals, experts and
\* requests: nothing reopens what is dismissed or erased, and who answers for an
\* appeal changes by a takeover or an answer sent back within the limit.
THEOREM LifecycleIsImplemented == Spec => ImplementsLifecycle
BY LifecycleInitially, StepsImplement, CaseSafe, PTL
   DEF Spec, ImplementsLifecycle, Lifecycle!Spec
=============================================================================
