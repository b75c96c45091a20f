---------------------------- MODULE CaseworkSteps ----------------------------
(***************************************************************************)
(* What a step of Casework can do to the core of an appeal, that is to its *)
(* status, experts, returns, history and chat, told without requests and   *)
(* locks; and what follows for the safety properties and for the           *)
(* refinement of CaseLifecycle.                                            *)
(*                                                                         *)
(* The theorems of CaseworkProofs make this possible: as a handler's reads *)
(* stay true, the status it has seen is the status of the appeal when it   *)
(* commits.                                                                *)
(***************************************************************************)
EXTENDS CaseworkProofs

core == <<status, deleted, returns, assigned, history, chat>>

\* A live appeal goes to a status, perhaps the one it has, after said was said.
Move(a, to, said) ==
  /\ status[a] \in LiveStatuses
  /\ status'  = [status EXCEPT ![a] = to]
  /\ history' = [history EXCEPT ![a] = IF to # status[a]
                   THEN HistoryRow(status[a], to) ELSE @]
  /\ chat'    = [chat EXCEPT ![a] = ChatBeforeRow(@, said, to # status[a])]
  /\ UNCHANGED deleted

Change(a, to) ==
  /\ to \in LiveStatuses
  /\ \E role \in Roles : AllowedTransition(role, status[a], to)
  /\ Move(a, to, {})
  /\ UNCHANGED <<returns, assigned>>

AnswerAndClose(a) ==
  /\ status[a] = "NEW"
  /\ Move(a, "COMPLETED", {"SYSTEM"})
  /\ UNCHANGED <<returns, assigned>>

Talk(a, role) ==
  /\ MayWrite(role, status[a], a)
  /\ Move(a, status[a], {role})
  /\ UNCHANGED <<returns, assigned>>

TakeOver(a, e) ==
  /\ status[a] \notin Closed
  /\ Move(a, "ASSIGNED", {})
  /\ assigned' = [assigned EXCEPT ![a] = Join(a, e, "RESPONSIBLE")]
  /\ UNCHANGED returns

Support(a, e) ==
  /\ e \notin AssignedTo(a)
  /\ Move(a, status[a], {})
  /\ assigned' = [assigned EXCEPT ![a] = Join(a, e, "COEXECUTOR")]
  /\ UNCHANGED returns

SendBack(a) ==
  /\ status[a] = "ANSWER_READY"
  /\ returns[a] < ReturnLimit
  /\ Move(a, "RETURNED", {})
  /\ assigned' = [assigned EXCEPT ![a] = {}]
  /\ returns'  = [returns EXCEPT ![a] = @ + 1]

Hear(a) ==
  /\ chat' = [chat EXCEPT ![a] = @ \cup {"APPLICANT"}]
  /\ UNCHANGED <<status, deleted, returns, assigned, history>>

Submit(a) ==
  /\ status[a] = "NONE"
  /\ status'  = [status EXCEPT ![a] = "NEW"]
  /\ history' = [history EXCEPT ![a] = HistoryRow("NONE", "NEW")]
  /\ UNCHANGED <<deleted, returns, assigned, chat>>

Erase(a) ==
  /\ status[a] # "NONE"
  /\ status'  = [status EXCEPT ![a] = "DELETED"]
  /\ deleted' = [deleted EXCEPT ![a] = TRUE]
  /\ UNCHANGED <<returns, assigned, history, chat>>

Lapse(S) ==
  /\ \A a \in S : status[a] = "WAITING_FOR_APPLICANT"
  /\ status'  = [a \in Appeals |-> IF a \in S THEN "CLOSED_NO_RESPONSE" ELSE status[a]]
  /\ history' = [a \in Appeals |-> IF a \in S
                   THEN HistoryRow("WAITING_FOR_APPLICANT", "CLOSED_NO_RESPONSE")
                   ELSE history[a]]
  /\ chat'    = [a \in Appeals |-> IF a \in S THEN {} ELSE chat[a]]
  /\ UNCHANGED <<deleted, returns, assigned>>

CaseStep(a) ==
  \/ \E to \in LiveStatuses : Change(a, to)
  \/ \E role \in {"OPERATOR", "EXPERT"} : Talk(a, role)
  \/ \E e \in Experts : TakeOver(a, e) \/ Support(a, e)
  \/ AnswerAndClose(a) \/ SendBack(a) \/ Hear(a) \/ Submit(a) \/ Erase(a)

CoreNext == (\E a \in Appeals : CaseStep(a)) \/ (\E S \in SUBSET Appeals : Lapse(S))

-----------------------------------------------------------------------------
\* A handler that settles moves the appeal it holds.
LEMMA SettleMoves ==
  ASSUME LockInv, NEW p \in Procs, tx[p].pc = "holds", NEW to, NEW said,
         NEW touched, NEW items, Settle(p, to, said, touched, items),
         UNCHANGED deleted
  PROVE  /\ tx[p].appeal \in Appeals /\ tx[p].seen = status[tx[p].appeal]
         /\ returns[tx[p].appeal] = tx[p].counted
         /\ Move(tx[p].appeal, to, said)
<1>1. tx[p].appeal \in Appeals
  BY PhaseMeansBusy, BusyHasFields DEF LockInv
<1>2. /\ tx[p].seen = status[tx[p].appeal] /\ tx[p].seen \in LiveStatuses
      /\ returns[tx[p].appeal] = tx[p].counted
  BY DEF LockInv, ReadsStayTrue
<1>3. status' = [status EXCEPT ![tx[p].appeal] = to]
  BY <1>1, <1>2 DEF Settle, LockInv, TypeOK
<1> QED BY <1>1, <1>2, <1>3 DEF Settle, Move

\* A move to the same status in which nothing is said changes nothing.
LEMMA StayChangesNothing ==
  ASSUME TypeOK, NEW a \in Appeals, Move(a, status[a], {}),
         UNCHANGED <<returns, assigned>>
  PROVE  UNCHANGED core
<1>1. status' = status /\ history' = history BY DEF Move, TypeOK
<1>2. chat' = chat BY DEF Move, TypeOK, ChatBeforeRow
<1> QED BY <1>1, <1>2 DEF core, Move

\* What the staff do is a step of the case, or leaves its core alone.
LEMMA StaffStepsAreCases ==
  ASSUME LockInv, NEW p \in Procs, StaffOperation(p)
  PROVE  CoreNext \/ UNCHANGED core
<1>. DEFINE a == tx[p].appeal
<1>1. tx[p].pc = "holds" /\ UNCHANGED <<deleted, returns>>
  BY DEF StaffOperation, SetPriority, ReplyAndClose, Reply, Note, StaffMessage,
         ChangeStatus, Assign, AddCoexecutor, RejectRequest, RequestHelp, Holding
<1>2. TypeOK BY DEF LockInv
<1>3. a \in Appeals /\ tx[p].seen = status[a] /\ tx[p].seen \in LiveStatuses
  BY <1>1, PhaseMeansBusy, BusyHasFields DEF LockInv, ReadsStayTrue
<1>. SUFFICES CaseStep(a) \/ UNCHANGED core
  BY <1>3 DEF CoreNext
<1>. USE <1>1, <1>3, SettleMoves
<1>4. ASSUME NEW touched, NEW items, Settle(p, tx[p].seen, {}, touched, items),
             UNCHANGED assigned
      PROVE  UNCHANGED core
  <2>1. Move(a, status[a], {}) BY <1>4
  <2> QED BY <1>2, <1>4, <2>1, StayChangesNothing
<1>5. CASE SetPriority(p) \/ Note(p)
  BY <1>4, <1>5 DEF SetPriority, Note
<1>6. CASE ReplyAndClose(p)
  <2>1. AnswerAndClose(a) BY <1>6 DEF ReplyAndClose, AnswerAndClose
  <2> QED BY <2>1 DEF CaseStep
<1>7. CASE Reply(p)
  <2>1. Talk(a, "EXPERT") BY <1>7 DEF Reply, Talk, MayWrite
  <2> QED BY <2>1 DEF CaseStep
<1>8. CASE StaffMessage(p)
  <2>. DEFINE role == Role(tx[p].who)
  <2>1. role \in {"OPERATOR", "EXPERT"} BY <1>8 DEF StaffMessage, Holding
  <2>2. Talk(a, role) BY <1>8 DEF StaffMessage, Talk
  <2> QED BY <2>1, <2>2 DEF CaseStep
<1>9. ASSUME NEW to \in LiveStatuses, ChangeStatus(p, to)
      PROVE  CaseStep(a)
  <2>1. Role(tx[p].who) \in Roles BY DEF Role, Roles
  <2>2. Change(a, to) BY <1>9, <2>1 DEF ChangeStatus, Change
  <2> QED BY <2>2 DEF CaseStep
<1>10. ASSUME NEW e \in Experts, NEW r \in Requests \cup {NoRequest}, Assign(p, e, r)
       PROVE  CaseStep(a)
  <2>1. TakeOver(a, e) BY <1>10 DEF Assign, TakeOver
  <2> QED BY <2>1 DEF CaseStep
<1>11. ASSUME NEW e \in Experts, NEW r \in Requests \cup {NoRequest},
              AddCoexecutor(p, e, r)
       PROVE  CaseStep(a)
  <2>1. Support(a, e) BY <1>11 DEF AddCoexecutor, Support
  <2> QED BY <2>1 DEF CaseStep
<1>12. ASSUME NEW r \in Requests, RejectRequest(p, r)
       PROVE  UNCHANGED core
  BY <1>4, <1>12 DEF RejectRequest
<1>13. ASSUME NEW kind \in RequestKinds, NEW r \in Requests, RequestHelp(p, kind, r)
       PROVE  UNCHANGED core
  BY <1>4, <1>13 DEF RequestHelp
<1> QED
  BY <1>5, <1>6, <1>7, <1>8, <1>9, <1>10, <1>11, <1>12, <1>13 DEF StaffOperation

\* What the applicant does is a step of the case, or leaves its core alone.
LEMMA ApplicantStepsAreCases ==
  ASSUME LockInv, NEW p \in Procs, ApplicantOperation(p)
  PROVE  CoreNext \/ UNCHANGED core
<1>. DEFINE a == tx[p].appeal
<1>1. TypeOK BY DEF LockInv
<1>2. tx[p] # Idle
  BY PhaseMeansBusy
  DEF ApplicantOperation, ApplicantStatus, ConfirmHelp, ReturnAnswer, RateOrComplain,
      CheckChatOpen, AddApplicantMessage, RequestReassignment, DeleteAppeal,
      OpenSession, Holding
<1>3. a \in Appeals /\ Exists(a)
  BY <1>1, <1>2, BusyHasFields DEF LockInv, BusyOnRows
<1>. SUFFICES CaseStep(a) \/ UNCHANGED core
  BY <1>3 DEF CoreNext
<1>4. ASSUME NEW to \in LiveStatuses, ApplicantStatus(p, to)
      PROVE  CaseStep(a)
  <2>1. Change(a, to)
    BY <1>4, SettleMoves DEF ApplicantStatus, Holding, Change, Roles
  <2> QED BY <2>1 DEF CaseStep
<1>5. ASSUME NEW complaint \in BOOLEAN, ConfirmHelp(p, complaint)
      PROVE  CaseStep(a)
  <2>1. /\ AllowedTransition("APPLICANT", "ANSWER_READY", "COMPLETED")
        /\ "COMPLETED" \in LiveStatuses /\ "APPLICANT" \in Roles
    BY DEF AllowedTransition, ApplicantMay, LiveStatuses, Roles
  <2>2. Change(a, "COMPLETED")
    BY <1>5, <2>1, SettleMoves DEF ConfirmHelp, Holding, Change
  <2> QED BY <2>1, <2>2 DEF CaseStep
<1>6. ASSUME NEW complaint \in BOOLEAN, ReturnAnswer(p, complaint)
      PROVE  CaseStep(a)
  <2>1. SendBack(a)
    BY <1>6, SettleMoves DEF ReturnAnswer, Resolvable, Holding, SendBack
  <2> QED BY <2>1 DEF CaseStep
<1>7. ASSUME NEW complaint \in BOOLEAN, RateOrComplain(p, complaint)
      PROVE  UNCHANGED core
  <2>1. Move(a, status[a], {}) /\ UNCHANGED <<returns, assigned>>
    BY <1>7, SettleMoves DEF RateOrComplain, Holding
  <2> QED BY <1>1, <1>3, <2>1, StayChangesNothing
<1>8. CASE CheckChatOpen(p) \/ OpenSession(p)
  BY <1>8 DEF CheckChatOpen, OpenSession, cases, core
<1>9. ASSUME NEW crisis \in BOOLEAN, AddApplicantMessage(p, crisis)
      PROVE  CaseStep(a)
  <2>1. Hear(a) BY <1>9 DEF AddApplicantMessage, Hear
  <2> QED BY <2>1 DEF CaseStep
<1>10. ASSUME NEW r \in Requests, RequestReassignment(p, r)
       PROVE  UNCHANGED core
  BY <1>10 DEF RequestReassignment, core
<1>11. CASE DeleteAppeal(p)
  <2>1. status' = [status EXCEPT ![a] = "DELETED"]
    BY <1>1, <1>3, <1>11 DEF DeleteAppeal, LockInv, DeletionIsWhole, TypeOK
  <2>2. Erase(a) BY <1>3, <1>11, <2>1 DEF DeleteAppeal, Erase, Exists
  <2> QED BY <2>2 DEF CaseStep
<1> QED
  BY <1>4, <1>5, <1>6, <1>7, <1>8, <1>9, <1>10, <1>11 DEF ApplicantOperation

\* Every step of Casework is a step of one case, the closing of several by the
\* worker, or leaves the core of all cases alone.
LEMMA StepsAreCases == LockInv /\ [Next]_vars => [CoreNext]_core
<1>. SUFFICES ASSUME LockInv, [Next]_vars PROVE CoreNext \/ UNCHANGED core
  OBVIOUS
<1>1. CASE UNCHANGED vars BY <1>1 DEF vars, core
<1>2. ASSUME NEW p \in Procs, Acquire(p) \/ Refuse(p) \/ Abort(p)
      PROVE  UNCHANGED core
  BY <1>2 DEF Acquire, Refuse, Abort, cases, core
<1>3. ASSUME NEW p \in Procs, NEW a \in Appeals,
             \/ WithApplicant(p, a) \/ Authenticate(p, a)
             \/ \E u \in Staff : StaffOnly(p, u, a)
      PROVE  UNCHANGED core
  BY <1>3 DEF WithApplicant, Authenticate, StaffOnly, Begin, cases, core
<1>4. ASSUME NEW a \in Appeals, SessionExpires(a) \/ Age(a)
      PROVE  UNCHANGED core
  BY <1>4 DEF SessionExpires, Age, core
<1>5. ASSUME NEW a \in Appeals, NEW extras \in SUBSET Extras, CreateAppeal(a, extras)
      PROVE  CoreNext
  <2>1. Submit(a) BY <1>5 DEF CreateAppeal, Submit, Exists
  <2> QED BY <2>1 DEF CoreNext, CaseStep
<1>6. ASSUME NEW S \in SUBSET Appeals, AutoClose(S)
      PROVE  CoreNext
  <2>1. Lapse(S) BY <1>6 DEF AutoClose, Closable, Inactive, Lapse
  <2> QED BY <2>1 DEF CoreNext
<1> QED
  BY <1>1, <1>2, <1>3, <1>4, <1>5, <1>6, StaffStepsAreCases, ApplicantStepsAreCases
  DEF Next, ApiNext, Step
-----------------------------------------------------------------------------
(***************************************************************************)
(* The safety properties.                                                  *)
(***************************************************************************)

\* A move at the appeal that moves, and at all the others.
LEMMA Moved ==
  ASSUME TypeOK, NEW a \in Appeals, NEW to, NEW said, Move(a, to, said)
  PROVE  /\ status'[a] = to
         /\ to # status[a] => history'[a] = HistoryRow(status[a], to)
         /\ to = status[a] => history'[a] = history[a]
         /\ chat'[a] = ChatBeforeRow(chat[a], said, to # status[a])
         /\ \A b \in Appeals \ {a} :
              /\ status'[b] = status[b] /\ history'[b] = history[b]
              /\ chat'[b] = chat[b]
BY DEF Move, TypeOK

\* All that a step of one case does to the other cases: nothing.
LEMMA OthersStay ==
  ASSUME TypeOK, NEW a \in Appeals, CaseStep(a), NEW b \in Appeals \ {a}
  PROVE  /\ status'[b] = status[b] /\ history'[b] = history[b]
         /\ chat'[b] = chat[b] /\ deleted'[b] = deleted[b]
         /\ returns'[b] = returns[b] /\ assigned'[b] = assigned[b]
<1>1. CASE Hear(a) BY <1>1 DEF Hear, TypeOK
<1>2. CASE Submit(a) BY <1>2 DEF Submit, TypeOK
<1>3. CASE Erase(a) BY <1>3 DEF Erase, TypeOK
<1>4. ASSUME NEW e \in Experts, TakeOver(a, e) \/ Support(a, e)
      PROVE  /\ status'[b] = status[b] /\ history'[b] = history[b]
             /\ chat'[b] = chat[b] /\ deleted'[b] = deleted[b]
             /\ returns'[b] = returns[b] /\ assigned'[b] = assigned[b]
  BY <1>4 DEF TakeOver, Support, Move, TypeOK
<1>5. CASE SendBack(a) BY <1>5 DEF SendBack, Move, TypeOK
<1>6. ASSUME NEW to, NEW said, Move(a, to, said), UNCHANGED <<returns, assigned>>
      PROVE  /\ status'[b] = status[b] /\ history'[b] = history[b]
             /\ chat'[b] = chat[b] /\ deleted'[b] = deleted[b]
             /\ returns'[b] = returns[b] /\ assigned'[b] = assigned[b]
  BY <1>6, Moved DEF Move
<1> QED
  BY <1>1, <1>2, <1>3, <1>4, <1>5, <1>6
  DEF CaseStep, Change, Talk, AnswerAndClose

\* No row of the table leads to the status of a new appeal, and none leads away
\* from what is deleted or was never there.
LEMMA TableFacts ==
  ASSUME NEW role \in Roles, NEW from \in Statuses, NEW to \in LiveStatuses,
         AllowedTransition(role, from, to)
  PROVE  to # "NEW" /\ to # from
BY DEF AllowedTransition, ApplicantMay, OperatorMay, WorkerMay, AdminMay

\* An appeal has no experts before it is created.
NothingBeforeCreation == \A a \in Appeals : status[a] = "NONE" => assigned[a] = {}

\* The inductive invariant of the case: its parts rely on one another, on the
\* types and on the agreement of deleted_at and the status, not on the locks.
CaseInv == /\ HistoryTellsStatus /\ ReturnsAreLimited /\ OneResponsible
           /\ OperatorSilentOnceAssigned /\ StaffSilentOnceClosed
           /\ NothingBeforeCreation

\* The newest history row names the status after every step.
LEMMA HistoryKept ==
  ASSUME TypeOK, HistoryTellsStatus, CoreNext
  PROVE  HistoryTellsStatus'
<1>1. ASSUME NEW a \in Appeals, CaseStep(a)
      PROVE  HistoryTellsStatus'
  <2>1. status'[a] # "DELETED" => history'[a].to = status'[a]
    <3>1. ASSUME NEW to, NEW said, Move(a, to, said)
          PROVE  history'[a].to = status'[a]
      <4>1. status'[a] = to BY <3>1, Moved
      <4>2. CASE to # status[a]
        <5>1. history'[a] = HistoryRow(status[a], to) BY <3>1, <4>2, Moved
        <5> QED BY <4>1, <5>1 DEF HistoryRow
      <4>3. CASE to = status[a]
        <5>1. history'[a] = history[a] BY <3>1, <4>3, Moved
        <5>2. status[a] # "DELETED" BY <3>1 DEF Move, LiveStatuses
        <5> QED BY <4>1, <4>3, <5>1, <5>2 DEF HistoryTellsStatus
      <4> QED BY <4>2, <4>3
    <3>2. CASE Hear(a) BY <3>2 DEF Hear, HistoryTellsStatus
    <3>3. CASE Submit(a) BY <3>3 DEF Submit, HistoryRow, TypeOK
    <3>4. CASE Erase(a) BY <3>4 DEF Erase, TypeOK
    <3> QED BY <1>1, <3>1, <3>2, <3>3, <3>4
            DEF CaseStep, Change, Talk, TakeOver, Support, AnswerAndClose, SendBack
  <2> QED BY <1>1, <2>1, OthersStay DEF HistoryTellsStatus
<1>2. ASSUME NEW S \in SUBSET Appeals, Lapse(S)
      PROVE  HistoryTellsStatus'
  BY <1>2 DEF Lapse, HistoryTellsStatus, HistoryRow
<1> QED BY <1>1, <1>2 DEF CoreNext

\* The return count grows only below its limit.
LEMMA ReturnsKept ==
  ASSUME TypeOK, ReturnsAreLimited, CoreNext
  PROVE  ReturnsAreLimited'
<1>1. ASSUME NEW a \in Appeals, CaseStep(a)
      PROVE  ReturnsAreLimited'
  <2>1. CASE SendBack(a)
    BY <1>1, <2>1, OthersStay DEF SendBack, ReturnsAreLimited, ReturnLimit, TypeOK
  <2>2. CASE ~SendBack(a)
    BY <1>1, <2>2 DEF CaseStep, Change, Talk, TakeOver, Support, AnswerAndClose,
                      Hear, Submit, Erase, ReturnsAreLimited
  <2> QED BY <2>1, <2>2
<1> QED BY <1>1 DEF CoreNext, Lapse, ReturnsAreLimited
\* No appeal has experts before it exists: an expert joins a live appeal only.
LEMMA NothingKept ==
  ASSUME TypeOK, NothingBeforeCreation, CoreNext
  PROVE  NothingBeforeCreation'
<1>1. ASSUME NEW a \in Appeals, CaseStep(a)
      PROVE  NothingBeforeCreation'
  <2>1. status'[a] = "NONE" => status[a] = "NONE" /\ assigned'[a] = assigned[a]
    <3>1. ASSUME NEW to \in LiveStatuses, NEW said, Move(a, to, said)
          PROVE  status'[a] # "NONE"
      BY <3>1, Moved DEF LiveStatuses
    <3>2. CASE Hear(a) BY <3>2 DEF Hear
    <3>3. CASE Submit(a) \/ Erase(a) BY <3>3 DEF Submit, Erase, TypeOK
    <3>4. /\ "ASSIGNED" \in LiveStatuses /\ "COMPLETED" \in LiveStatuses
          /\ "RETURNED" \in LiveStatuses
      BY DEF LiveStatuses
    <3>5. ASSUME NEW said, Move(a, status[a], said)
          PROVE  status'[a] # "NONE"
      BY <3>1, <3>5 DEF Move
    <3> QED BY <1>1, <3>1, <3>2, <3>3, <3>4, <3>5
            DEF CaseStep, Change, Talk, TakeOver, Support, AnswerAndClose, SendBack
  <2> QED BY <1>1, <2>1, OthersStay DEF NothingBeforeCreation
<1>2. ASSUME NEW S \in SUBSET Appeals, Lapse(S)
      PROVE  NothingBeforeCreation'
  BY <1>2 DEF Lapse, NothingBeforeCreation
<1> QED BY <1>1, <1>2 DEF CoreNext

\* What OneResponsible says of one set of assignments.
OneEach(rows) ==
  \A x, y \in rows :
    \/ x = y
    \/ x.expert # y.expert /\ {x.kind, y.kind} # {"RESPONSIBLE"}

\* Joining keeps one row for each expert and one responsible expert.
LEMMA JoinKeepsOneEach ==
  ASSUME TypeOK, NEW a \in Appeals, NEW e \in Experts, NEW kind \in Kinds,
         OneEach(assigned[a])
  PROVE  OneEach(Join(a, e, kind))
<1>. DEFINE row == [expert |-> e, kind |-> kind]
<1>1. SUFFICES ASSUME NEW x \in Join(a, e, kind), NEW y \in Join(a, e, kind), x # y
      PROVE  x.expert # y.expert /\ {x.kind, y.kind} # {"RESPONSIBLE"}
  BY DEF OneEach
<1>2. row.expert = e /\ row.kind = kind OBVIOUS
<1>. HIDE DEF row
<1>3. ASSUME NEW z \in Join(a, e, kind), z # row
      PROVE  /\ z \in assigned[a] /\ z.expert # e
             /\ kind = "RESPONSIBLE" => z.kind # "RESPONSIBLE"
  BY <1>3 DEF Join, row
<1>4. CASE x = row \/ y = row
  BY <1>1, <1>2, <1>3, <1>4
<1>5. CASE x # row /\ y # row
  BY <1>1, <1>3, <1>5 DEF OneEach
<1> QED BY <1>4, <1>5

\* One responsible expert, one row for each expert, and none for a new appeal.
LEMMA OneResponsibleKept ==
  ASSUME TypeOK, OneResponsible, NothingBeforeCreation, CoreNext
  PROVE  OneResponsible'
<1>. DEFINE
  Fine(a) == OneEach(assigned[a]) /\ (status[a] = "NEW" => Responsible(a) = {})
<1>1. OneResponsible <=> \A a \in Appeals : Fine(a)
  BY DEF OneResponsible, OneEach
<1>2. OneResponsible' <=> \A a \in Appeals : Fine(a)'
  BY DEF OneResponsible, OneEach
<1>3. ASSUME NEW a \in Appeals, assigned'[a] = assigned[a],
             status'[a] = "NEW" => status[a] = "NEW"
      PROVE  Fine(a)'
  BY <1>1, <1>3 DEF OneEach, Responsible
<1>4. ASSUME NEW a \in Appeals, CaseStep(a)
      PROVE  Fine(a)'
  <2>1. ASSUME NEW to \in LiveStatuses, Change(a, to)
        PROVE  Fine(a)'
    <3>1. to # "NEW" BY <2>1, TableFacts DEF Change, TypeOK
    <3>2. status'[a] = to BY <2>1, Moved DEF Change
    <3> QED BY <1>3, <2>1, <3>1, <3>2 DEF Change
  <2>2. ASSUME NEW role \in {"OPERATOR", "EXPERT"}, Talk(a, role)
        PROVE  Fine(a)'
    BY <1>3, <2>2, Moved DEF Talk
  <2>3. ASSUME NEW e \in Experts, TakeOver(a, e)
        PROVE  Fine(a)'
    <3>1. assigned'[a] = Join(a, e, "RESPONSIBLE") /\ status'[a] = "ASSIGNED"
      BY <2>3, Moved DEF TakeOver, TypeOK
    <3>2. OneEach(assigned[a]) BY <1>1
    <3>3. OneEach(Join(a, e, "RESPONSIBLE")) BY <3>2, JoinKeepsOneEach DEF Kinds
    <3> QED BY <3>1, <3>3 DEF OneEach
  <2>4. ASSUME NEW e \in Experts, Support(a, e)
        PROVE  Fine(a)'
    <3>1. assigned'[a] = Join(a, e, "COEXECUTOR") /\ status'[a] = status[a]
      BY <2>4, Moved DEF Support, TypeOK
    <3>2. OneEach(assigned[a]) BY <1>1
    <3>3. OneEach(Join(a, e, "COEXECUTOR")) BY <3>2, JoinKeepsOneEach DEF Kinds
    <3>4. \A x \in assigned'[a] : x.kind = "RESPONSIBLE" => x \in assigned[a]
      BY <3>1 DEF Join
    <3>5. Responsible(a)' \subseteq Responsible(a) BY <3>4 DEF Responsible
    <3> QED BY <1>1, <3>1, <3>3, <3>5 DEF OneEach
  <2>5. CASE AnswerAndClose(a)
    BY <1>3, <2>5, Moved DEF AnswerAndClose
  <2>6. CASE SendBack(a)
    <3>1. assigned'[a] = {} BY <2>6 DEF SendBack, TypeOK
    <3> QED BY <3>1 DEF OneEach, Responsible
  <2>7. CASE Hear(a) BY <1>3, <2>7 DEF Hear
  <2>8. CASE Submit(a)
    <3>1. assigned'[a] = {} BY <2>8 DEF Submit, NothingBeforeCreation
    <3> QED BY <3>1 DEF OneEach, Responsible
  <2>9. CASE Erase(a)
    BY <1>3, <2>9 DEF Erase, TypeOK
  <2> QED BY <1>4, <2>1, <2>2, <2>3, <2>4, <2>5, <2>6, <2>7, <2>8, <2>9 DEF CaseStep
<1>5. ASSUME NEW a \in Appeals, CaseStep(a), NEW b \in Appeals \ {a}
      PROVE  Fine(b)'
  BY <1>3, <1>5, OthersStay
<1>6. ASSUME NEW S \in SUBSET Appeals, Lapse(S), NEW a \in Appeals
      PROVE  Fine(a)'
  BY <1>3, <1>6 DEF Lapse
<1> QED BY <1>2, <1>4, <1>5, <1>6 DEF CoreNext
\* A step that moves to another status leaves the chat empty.
LEMMA MovedChat ==
  ASSUME TypeOK, NEW a \in Appeals, NEW to, NEW said, Move(a, to, said),
         to # status[a]
  PROVE  chat'[a] = {} /\ status'[a] = to
BY Moved DEF ChatBeforeRow

\* A step that moves to the same status adds what is said.
LEMMA SaidChat ==
  ASSUME TypeOK, NEW a \in Appeals, NEW said, Move(a, status[a], said)
  PROVE  chat'[a] = chat[a] \cup said /\ status'[a] = status[a]
BY Moved DEF ChatBeforeRow

\* The staff stay silent in a closed chat after every step.
LEMMA StaffSilentKept ==
  ASSUME TypeOK, StaffSilentOnceClosed, CoreNext
  PROVE  StaffSilentOnceClosed'
<1>. DEFINE Silent(a) == status[a] \in Closed => chat[a] \subseteq {"APPLICANT"}
<1>1. ASSUME NEW a \in Appeals, CaseStep(a)
      PROVE  Silent(a)'
  <2>1. ASSUME NEW to, NEW said, Move(a, to, said), to # status[a]
        PROVE  Silent(a)'
    BY <2>1, MovedChat
  <2>2. ASSUME Move(a, status[a], {})
        PROVE  Silent(a)'
    BY <2>2, SaidChat DEF StaffSilentOnceClosed
  <2>3. ASSUME NEW role, Talk(a, role)
        PROVE  Silent(a)'
    BY <2>3, SaidChat DEF Talk, MayWrite
  <2>4. ASSUME NEW to, Move(a, to, {})
        PROVE  Silent(a)'
    BY <2>1, <2>2, <2>4
  <2>5. CASE AnswerAndClose(a)
    BY <2>1, <2>5 DEF AnswerAndClose
  <2>6. CASE Hear(a)
    BY <2>6 DEF Hear, StaffSilentOnceClosed, TypeOK
  <2>7. CASE Submit(a) \/ Erase(a)
    BY <2>7 DEF Submit, Erase, Closed, TypeOK
  <2> QED BY <1>1, <2>3, <2>4, <2>5, <2>6, <2>7
          DEF CaseStep, Change, TakeOver, Support, SendBack
<1>2. ASSUME NEW a \in Appeals, CaseStep(a), NEW b \in Appeals \ {a}
      PROVE  Silent(b)'
  BY <1>2, OthersStay DEF StaffSilentOnceClosed
<1>3. ASSUME NEW S \in SUBSET Appeals, Lapse(S), NEW a \in Appeals
      PROVE  Silent(a)'
  BY <1>3 DEF Lapse, StaffSilentOnceClosed
<1> QED BY <1>1, <1>2, <1>3 DEF CoreNext, StaffSilentOnceClosed

\* The operator stays silent once an expert is responsible, after every step.
LEMMA OperatorSilentKept ==
  ASSUME TypeOK, OperatorSilentOnceAssigned, CoreNext
  PROVE  OperatorSilentOnceAssigned'
<1>. DEFINE Silent(a) == "OPERATOR" \in chat[a] /\ ~deleted[a] =>
                           status[a] \in OperatorTalks /\ Responsible(a) = {}
<1>1. ASSUME NEW a \in Appeals, CaseStep(a)
      PROVE  Silent(a)'
  <2>1. ASSUME NEW to, NEW said, Move(a, to, said), to # status[a]
        PROVE  Silent(a)'
    BY <2>1, MovedChat
  <2>2. ASSUME Move(a, status[a], {}), Responsible(a)' \subseteq Responsible(a)
        PROVE  Silent(a)'
    BY <2>2, SaidChat DEF OperatorSilentOnceAssigned, Move
  <2>3. ASSUME NEW role, Talk(a, role)
        PROVE  Silent(a)'
    <3>1. /\ chat'[a] = chat[a] \cup {role} /\ status'[a] = status[a]
          /\ deleted' = deleted /\ Responsible(a)' = Responsible(a)
      BY <2>3, SaidChat DEF Talk, Move, Responsible
    <3>2. CASE role = "OPERATOR" BY <2>3, <3>1, <3>2 DEF Talk, MayWrite
    <3>3. CASE role # "OPERATOR" BY <3>1, <3>3 DEF OperatorSilentOnceAssigned
    <3> QED BY <3>2, <3>3
  <2>4. ASSUME NEW to \in LiveStatuses, Change(a, to)
        PROVE  Silent(a)'
    <3>1. to # status[a] BY <2>4, TableFacts DEF Change, TypeOK
    <3> QED BY <2>1, <2>4, <3>1 DEF Change
  <2>5. ASSUME NEW e \in Experts, TakeOver(a, e)
        PROVE  Silent(a)'
    <3>1. CASE status[a] = "ASSIGNED"
      <4>1. Move(a, status[a], {}) BY <2>5, <3>1 DEF TakeOver
      <4>2. chat'[a] = chat[a] BY <4>1, SaidChat
      <4>3. deleted' = deleted BY <4>1 DEF Move
      <4> QED BY <3>1, <4>2, <4>3 DEF OperatorSilentOnceAssigned, OperatorTalks
    <3>2. CASE status[a] # "ASSIGNED" BY <2>1, <2>5, <3>2 DEF TakeOver
    <3> QED BY <3>1, <3>2
  <2>6. ASSUME NEW e \in Experts, Support(a, e)
        PROVE  Silent(a)'
    <3>1. assigned'[a] = Join(a, e, "COEXECUTOR") BY <2>6 DEF Support, TypeOK
    <3>2. \A x \in assigned'[a] : x.kind = "RESPONSIBLE" => x \in assigned[a]
      BY <3>1 DEF Join
    <3>3. Responsible(a)' \subseteq Responsible(a) BY <3>2 DEF Responsible
    <3> QED BY <2>2, <2>6, <3>3 DEF Support
  <2>7. CASE AnswerAndClose(a) \/ SendBack(a)
    BY <2>1, <2>7 DEF AnswerAndClose, SendBack
  <2>8. CASE Hear(a)
    <3>1. chat'[a] = chat[a] \cup {"APPLICANT"} /\ Responsible(a)' = Responsible(a)
      BY <2>8 DEF Hear, TypeOK, Responsible
    <3> QED BY <2>8, <3>1 DEF Hear, OperatorSilentOnceAssigned
  <2>9. CASE Submit(a) \/ Erase(a)
    BY <2>9 DEF Submit, Erase, OperatorSilentOnceAssigned, OperatorTalks, TypeOK
  <2> QED BY <1>1, <2>3, <2>4, <2>5, <2>6, <2>7, <2>8, <2>9 DEF CaseStep
<1>2. ASSUME NEW a \in Appeals, CaseStep(a), NEW b \in Appeals \ {a}
      PROVE  Silent(b)'
  BY <1>2, OthersStay DEF OperatorSilentOnceAssigned, Responsible
<1>3. ASSUME NEW S \in SUBSET Appeals, Lapse(S), NEW a \in Appeals
      PROVE  Silent(a)'
  BY <1>3 DEF Lapse, OperatorSilentOnceAssigned, Responsible
<1> QED BY <1>1, <1>2, <1>3 DEF CoreNext, OperatorSilentOnceAssigned

\* CaseInv is inductive relative to LockInv.
LEMMA CaseInductive == LockInv /\ CaseInv /\ [Next]_vars => CaseInv'
<1>1. ASSUME LockInv, CaseInv, CoreNext
      PROVE  CaseInv'
  <2>1. TypeOK BY <1>1 DEF LockInv
  <2> QED BY <1>1, <2>1, HistoryKept, ReturnsKept, OneResponsibleKept, NothingKept,
             OperatorSilentKept, StaffSilentKept DEF CaseInv
<1>2. ASSUME CaseInv, UNCHANGED core
      PROVE  CaseInv'
  BY <1>2 DEF core, CaseInv, HistoryTellsStatus, ReturnsAreLimited, OneResponsible,
              OperatorSilentOnceAssigned, StaffSilentOnceClosed,
              NothingBeforeCreation, Responsible
<1> QED BY <1>1, <1>2, StepsAreCases

\* A database without appeals satisfies it.
LEMMA CaseInitially == Init => CaseInv
BY DEF Init, CaseInv, HistoryTellsStatus, ReturnsAreLimited, ReturnLimit,
       OneResponsible, OperatorSilentOnceAssigned, StaffSilentOnceClosed, Closed,
       NothingBeforeCreation, Responsible

\* Both invariants hold in every run.
LEMMA CaseSafe == Spec => [](LockInv /\ CaseInv)
BY LockInitially, CaseInitially, LockInductive, CaseInductive, PTL DEF Spec

\* An appeal is sent back as unhelpful at most twice, for any number of requests
\* that arrive at the same moment.
THEOREM ReturnLimitHolds == Spec => []ReturnsAreLimited
<1>1. CaseInv => ReturnsAreLimited BY DEF CaseInv
<1> QED BY <1>1, CaseSafe, PTL

\* The newest history row of a live appeal names its status.
THEOREM HistoryIsTrue == Spec => []HistoryTellsStatus
<1>1. CaseInv => HistoryTellsStatus BY DEF CaseInv
<1> QED BY <1>1, CaseSafe, PTL

\* An appeal has at most one responsible expert and an expert one row on it.
THEOREM ResponsibilityIsClear == Spec => []OneResponsible
<1>1. CaseInv => OneResponsible BY DEF CaseInv
<1> QED BY <1>1, CaseSafe, PTL

\* An operator does not write beside a responsible expert.
THEOREM StaffKnowWhenToBeSilent == Spec => []OperatorSilentOnceAssigned
<1>1. CaseInv => OperatorSilentOnceAssigned BY DEF CaseInv
<1> QED BY <1>1, CaseSafe, PTL

\* Nobody of the staff writes in the chat of a closed appeal, however the closing
\* and the message overtake one another.
THEOREM ClosedChatsAreLeft == Spec => []StaffSilentOnceClosed
<1>1. CaseInv => StaffSilentOnceClosed BY DEF CaseInv
<1> QED BY <1>1, CaseSafe, PTL

-----------------------------------------------------------------------------
(***************************************************************************)
(* The times of the analytics.                                             *)
(***************************************************************************)
Columns == {"accepted_at", "first_response_at", "resolved_at"}

\* A column that is tracked is set; somebody is responsible; the staff have written.
Due(columns, c) == c \in Tracked => c \in columns
Led(rows)       == \E x \in rows : x.kind = "RESPONSIBLE"
Answered(said)  == \E w \in said : w \in {"OPERATOR", "EXPERT"}

\* A column that is set stays set, and the step that makes it due sets it.
TimesKept ==
  \A a \in Appeals :
    /\ \A c \in Columns : Due(data[a], c) => Due(data'[a], c)
    /\ Led(assigned'[a]) => Led(assigned[a]) \/ Due(data'[a], "accepted_at")
    /\ Answered(chat'[a]) => Answered(chat[a]) \/ Due(data'[a], "first_response_at")
    /\ status'[a] \in Closed => status[a] \in Closed \/ Due(data'[a], "resolved_at")

\* An operation that ends with Settle: an answer of the staff is a first response,
\* a closing sets resolved_at, and a new responsible expert accepts the appeal.
LEMMA OperationKeepsTimes ==
  ASSUME TypeOK, NEW p \in Procs, tx[p] # Idle, NEW to, NEW said, NEW touched, NEW items,
         Settle(p, to, said, touched, items),
         Answered(said) => "first_response_at" \in items,
         NEW rows, assigned' = [assigned EXCEPT ![tx[p].appeal] = rows],
         Led(rows) => "accepted_at" \in items \/ Led(assigned[tx[p].appeal])
  PROVE  TimesKept
<1> DEFINE b     == tx[p].appeal
           moved == to # tx[p].seen
           kept  == items \cup (IF moved /\ to \in Closed THEN {"resolved_at"} ELSE {})
                          \cup (IF moved /\ to = "RETURNED" THEN {"returned"} ELSE {})
<1>1. b \in Appeals
  BY BusyHasFields
<1>2. data' = [data EXCEPT ![b] = @ \cup (kept \cap Tracked)]
  BY DEF Settle, Keep
<1>3. /\ items \subseteq kept
      /\ moved /\ to \in Closed => "resolved_at" \in kept
  OBVIOUS
<1> HIDE DEF kept
<1>4. \A a \in Appeals \ {b} :
        /\ data'[a] = data[a] /\ chat'[a] = chat[a]
        /\ status'[a] = status[a] /\ assigned'[a] = assigned[a]
  BY <1>1, <1>2 DEF Settle, TypeOK
<1>5. data'[b] = data[b] \cup (kept \cap Tracked) /\ assigned'[b] = rows
  BY <1>1, <1>2 DEF TypeOK
<1>6. chat'[b] = (IF moved THEN {} ELSE chat[b] \cup said)
      /\ status'[b] = (IF moved THEN to ELSE status[b])
  BY <1>1 DEF Settle, ChatBeforeRow, TypeOK
<1>7. \A c \in kept : Due(data'[b], c)
  BY <1>5 DEF Due
<1>8. \A c \in Columns : Due(data[b], c) => Due(data'[b], c)
  BY <1>5 DEF Due
<1>9. Answered(chat'[b]) => Answered(chat[b]) \/ Due(data'[b], "first_response_at")
  <2>1. Answered(chat'[b]) => Answered(chat[b]) \/ Answered(said)
    BY <1>6 DEF Answered
  <2> QED
    BY <2>1, <1>3, <1>7
<1>10. status'[b] \in Closed => status[b] \in Closed \/ Due(data'[b], "resolved_at")
  BY <1>3, <1>6, <1>7
<1>11. Led(assigned'[b]) => Led(assigned[b]) \/ Due(data'[b], "accepted_at")
  BY <1>3, <1>5, <1>7
<1> QED
  BY <1>4, <1>8, <1>9, <1>10, <1>11 DEF TimesKept

\* The same for the operations that leave the experts alone.
LEMMA TalkKeepsTimes ==
  ASSUME TypeOK, NEW p \in Procs, tx[p] # Idle, NEW to, NEW said, NEW touched, NEW items,
         Settle(p, to, said, touched, items), UNCHANGED assigned,
         Answered(said) => "first_response_at" \in items
  PROVE  TimesKept
<1> DEFINE rows == assigned[tx[p].appeal]
<1>1. assigned' = [assigned EXCEPT ![tx[p].appeal] = rows]
  BY DEF TypeOK
<1>2. Led(rows) => "accepted_at" \in items \/ Led(assigned[tx[p].appeal])
  OBVIOUS
<1> HIDE DEF rows
<1> QED
  BY <1>1, <1>2, OperationKeepsTimes

\* The operations of the staff.
LEMMA StaffKeepsTimes ==
  ASSUME TypeOK, NEW p \in Procs, StaffOperation(p)
  PROVE  TimesKept
<1> DEFINE a == tx[p].appeal
<1>1. tx[p].pc = "holds" => tx[p] # Idle
  BY PhaseMeansBusy
<1>2. ~Answered({}) /\ ~Answered({"SYSTEM"})
  BY DEF Answered
<1>3. CASE SetPriority(p)
  BY <1>1, <1>2, <1>3, TalkKeepsTimes DEF SetPriority, Holding
<1>4. CASE ReplyAndClose(p)
  BY <1>1, <1>2, <1>4, TalkKeepsTimes DEF ReplyAndClose, Holding
<1>5. CASE Reply(p)
  BY <1>1, <1>2, <1>5, TalkKeepsTimes DEF Reply, Holding
<1>6. CASE Note(p)
  BY <1>1, <1>2, <1>6, TalkKeepsTimes DEF Note, Holding
<1>7. CASE StaffMessage(p)
  <2> DEFINE said == {Role(tx[p].who)}  items == {"first_response_at", "messages"}
  <2>1. tx[p].pc = "holds" /\ UNCHANGED assigned /\ Settle(p, tx[p].seen, said, TRUE, items)
    BY <1>7 DEF StaffMessage, Holding
  <2>2. "first_response_at" \in items
    OBVIOUS
  <2> HIDE DEF said, items
  <2> QED
    BY <1>1, <2>1, <2>2, TalkKeepsTimes
<1>8. ASSUME NEW to \in LiveStatuses, ChangeStatus(p, to) PROVE TimesKept
  BY <1>1, <1>2, <1>8, TalkKeepsTimes DEF ChangeStatus, Holding
<1>9. ASSUME NEW e \in Experts, NEW r \in Requests \cup {NoRequest}, Assign(p, e, r)
      PROVE  TimesKept
  <2> DEFINE rows == Join(a, e, "RESPONSIBLE")
  <2>1. /\ assigned' = [assigned EXCEPT ![a] = rows] /\ tx[p].pc = "holds"
        /\ Settle(p, "ASSIGNED", {}, FALSE, {"accepted_at"})
    BY <1>9 DEF Assign, Holding
  <2> HIDE DEF rows
  <2> QED
    BY <1>1, <1>2, <2>1, OperationKeepsTimes
<1>10. ASSUME NEW e \in Experts, NEW r \in Requests \cup {NoRequest}, AddCoexecutor(p, e, r)
       PROVE  TimesKept
  <2> DEFINE rows == Join(a, e, "COEXECUTOR")
  <2>1. /\ assigned' = [assigned EXCEPT ![a] = rows] /\ tx[p].pc = "holds"
        /\ Settle(p, tx[p].seen, {}, FALSE, {})
    BY <1>10 DEF AddCoexecutor, Holding
  <2>2. Led(rows) => Led(assigned[a])
    BY DEF Join, Led
  <2> HIDE DEF rows
  <2> QED
    BY <1>1, <1>2, <2>1, <2>2, OperationKeepsTimes
<1>11. ASSUME NEW kind, NEW r \in Requests, RejectRequest(p, r) \/ RequestHelp(p, kind, r)
       PROVE  TimesKept
  BY <1>1, <1>2, <1>11, TalkKeepsTimes DEF RejectRequest, RequestHelp, Holding
<1> QED
  BY <1>3, <1>4, <1>5, <1>6, <1>7, <1>8, <1>9, <1>10, <1>11 DEF StaffOperation

\* The operations of the applicant.
LEMMA ApplicantKeepsTimes ==
  ASSUME TypeOK, NEW p \in Procs, ApplicantOperation(p)
  PROVE  TimesKept
<1> DEFINE a == tx[p].appeal
<1>1. tx[p].pc \in {"begun", "holds", "checked"} => tx[p] # Idle
  BY PhaseMeansBusy
<1>2. ~Answered({}) /\ ~Answered({"SYSTEM"})
  BY DEF Answered
<1>3. ASSUME NEW to \in LiveStatuses, ApplicantStatus(p, to) PROVE TimesKept
  BY <1>1, <1>2, <1>3, TalkKeepsTimes DEF ApplicantStatus, Holding
<1>4. ASSUME NEW complaint \in BOOLEAN, ConfirmHelp(p, complaint) PROVE TimesKept
  BY <1>1, <1>2, <1>4, TalkKeepsTimes DEF ConfirmHelp, Holding
<1>5. ASSUME NEW complaint \in BOOLEAN, RateOrComplain(p, complaint) PROVE TimesKept
  BY <1>1, <1>2, <1>5, TalkKeepsTimes DEF RateOrComplain, Holding
<1>6. ASSUME NEW complaint \in BOOLEAN, ReturnAnswer(p, complaint) PROVE TimesKept
  <2>1. /\ assigned' = [assigned EXCEPT ![a] = {}] /\ tx[p].pc = "holds"
        /\ Settle(p, "RETURNED", {}, FALSE, Feedback(complaint))
    BY <1>6 DEF ReturnAnswer, Holding
  <2>2. ~Led({})
    BY DEF Led
  <2> QED
    BY <1>1, <1>2, <2>1, <2>2, OperationKeepsTimes
<1>7. ASSUME NEW crisis \in BOOLEAN, AddApplicantMessage(p, crisis) PROVE TimesKept
  <2>1. a \in Appeals
    BY <1>1, <1>7, BusyHasFields DEF AddApplicantMessage
  <2>2. \A b \in Appeals : data[b] \subseteq data'[b]
    BY <1>7, <2>1 DEF AddApplicantMessage, Keep, TypeOK
  <2>3. \A b \in Appeals : chat'[b] \subseteq chat[b] \cup {"APPLICANT"}
    BY <1>7, <2>1 DEF AddApplicantMessage, TypeOK
  <2> QED
    BY <1>7, <2>2, <2>3 DEF AddApplicantMessage, TimesKept, Due, Answered
<1>8. CASE DeleteAppeal(p)
  <2>1. a \in Appeals
    BY <1>1, <1>8, BusyHasFields DEF DeleteAppeal
  <2>2. \A b \in Appeals, c \in Columns : c \in data[b] => c \in data'[b]
    BY <1>8, <2>1 DEF DeleteAppeal, Columns, TypeOK
  <2>3. \A b \in Appeals : status'[b] \in Closed => status[b] \in Closed
    BY <1>8, <2>1 DEF DeleteAppeal, Closed, TypeOK
  <2> QED
    BY <1>8, <2>2, <2>3 DEF DeleteAppeal, TimesKept, Due, Answered
<1>9. CASE CheckChatOpen(p) \/ OpenSession(p) \/ \E r \in Requests : RequestReassignment(p, r)
  BY <1>9 DEF CheckChatOpen, OpenSession, RequestReassignment, cases, TimesKept
<1> QED
  BY <1>3, <1>4, <1>5, <1>6, <1>7, <1>8, <1>9 DEF ApplicantOperation

\* Every step keeps the times that are known and sets those it makes due.
LEMMA StepsKeepTimes == TypeOK /\ [Next]_vars => TimesKept
<1> SUFFICES ASSUME TypeOK, [Next]_vars PROVE TimesKept
  OBVIOUS
<1>1. UNCHANGED cases => TimesKept
  BY DEF cases, TimesKept, Due, Answered
<1>2. CASE UNCHANGED vars
  BY <1>1, <1>2 DEF vars, cases
<1>3. ASSUME NEW p \in Procs,
             Acquire(p) \/ Refuse(p) \/ Abort(p)
               \/ (\E u \in Staff, a \in Appeals : StaffOnly(p, u, a))
               \/ (\E a \in Appeals : WithApplicant(p, a) \/ Authenticate(p, a))
      PROVE  TimesKept
  BY <1>1, <1>3 DEF Acquire, Refuse, Abort, StaffOnly, WithApplicant, Begin, Authenticate
<1>4. ASSUME NEW a \in Appeals, NEW extras \in SUBSET Extras, CreateAppeal(a, extras)
      PROVE  TimesKept
  <2>1. \A b \in Appeals : data[b] \subseteq data'[b]
    BY <1>4 DEF CreateAppeal, Keep, TypeOK
  <2>2. \A b \in Appeals : status'[b] \in Closed => status[b] \in Closed
    BY <1>4 DEF CreateAppeal, Closed, TypeOK
  <2> QED
    BY <1>4, <2>1, <2>2 DEF CreateAppeal, TimesKept, Due, Answered
<1>5. ASSUME NEW a \in Appeals, SessionExpires(a) \/ Age(a) PROVE TimesKept
  BY <1>5 DEF SessionExpires, Age, TimesKept, Due, Answered
<1>6. ASSUME NEW S \in SUBSET Appeals, AutoClose(S) PROVE TimesKept
  <2>1. \A b \in Appeals :
          /\ data[b] \subseteq data'[b]
          /\ chat'[b] \subseteq chat[b]
          /\ b \in S => Due(data'[b], "resolved_at")
          /\ b \notin S => status'[b] = status[b]
    BY <1>6 DEF AutoClose, Due
  <2> QED
    BY <1>6, <2>1 DEF AutoClose, TimesKept, Due, Answered
<1> QED
  BY <1>2, <1>3, <1>4, <1>5, <1>6, StaffKeepsTimes, ApplicantKeepsTimes DEF Next, ApiNext, Step

\* What is due is there: TimesAreKnown in the terms of a step.
NothingIsMissing ==
  \A a \in Appeals :
    /\ Led(assigned[a]) => Due(data[a], "accepted_at")
    /\ Answered(chat[a]) => Due(data[a], "first_response_at")
    /\ status[a] \in Closed => Due(data[a], "resolved_at")

\* So it is in the beginning.
LEMMA TimesInitially == Init => NothingIsMissing
BY DEF Init, NothingIsMissing, Led, Answered, Closed

\* A step that keeps the times keeps it.
LEMMA TimesInductive == NothingIsMissing /\ TimesKept => NothingIsMissing'
BY DEF NothingIsMissing, TimesKept, Columns

\* It is what the analytics need.
LEMMA TimesSuffice == NothingIsMissing => TimesAreKnown
BY DEF NothingIsMissing, TimesAreKnown, Responsible, Led, Answered, Due

\* The times of the analytics are there when they must be: CaseAction, the
\* applicant's requests and the worker set each with COALESCE, and none forgets it.
THEOREM TimesAreSet == Spec => []TimesAreKnown
<1>1. TypeOK /\ NothingIsMissing /\ [Next]_vars => NothingIsMissing'
  BY StepsKeepTimes, TimesInductive
<1> QED
  BY <1>1, TimesInitially, TimesSuffice, TypeCorrect, PTL DEF Spec
=============================================================================
