---------------------------- MODULE OutboxProofs ----------------------------
(***************************************************************************)
(* Theorems about Outbox, for any sets of appeals, accounts, requests and  *)
(* worker processes and any number of failures: the erasure of a deleted   *)
(* appeal, the refinement of AppealErasure and, for one worker process,    *)
(* the status in the statistics.                                           *)
(***************************************************************************)
EXTENDS Outbox, CaseworkProofs

-----------------------------------------------------------------------------
(***************************************************************************)
(* What a request leaves in the outbox.                                    *)
(***************************************************************************)
\* A step of Casework takes no event back, announces each change of a status and
\* each deletion, and fills in contents only when it creates an appeal.
Recorded ==
  /\ outbox \subseteq outbox'
  /\ \A a \in Appeals :
       /\ status'[a] # status[a] => \E e \in outbox' : WillRefresh(e, a)
       /\ deleted'[a] # deleted[a] => <<"appeal.deletion_requested", a>> \in outbox'
       /\ "contents" \in data'[a] => "contents" \in data[a] \/ ~Exists(a)

\* An operation that ends with Settle and Commit, as all handlers do that hold
\* the row: its event refreshes the facts if the status moves.
LEMMA SettledIsRecorded ==
  ASSUME TypeOK, NEW p \in Procs, tx[p] # Idle, NEW to, NEW said, NEW touched,
         NEW items, "contents" \notin items, NEW type \in EventTypes,
         type \in Refreshing \/ to = tx[p].seen,
         Settle(p, to, said, touched, items), Commit(p, type), UNCHANGED deleted
  PROVE  Recorded
<1> DEFINE a == tx[p].appeal
<1>1. a \in Appeals
  BY BusyHasFields
<1>2. outbox' = outbox \cup {<<type, a>>}
  BY DEF Commit, Write
<1>3. \A b \in Appeals : status'[b] # status[b] => b = a /\ to # tx[p].seen
  BY <1>1 DEF Settle, TypeOK
<1>4. \A b \in Appeals : status'[b] # status[b] => \E e \in outbox' : WillRefresh(e, b)
  <2>1. <<type, a>> \in outbox' /\ (type \in Refreshing => WillRefresh(<<type, a>>, a))
    BY <1>2 DEF WillRefresh
  <2> QED
    BY <1>3, <2>1
<1>5. \A b \in Appeals : "contents" \in data'[b] => "contents" \in data[b]
  <2> DEFINE moved == to # tx[p].seen
             kept == items \cup (IF moved /\ to \in Closed THEN {"resolved_at"} ELSE {})
                           \cup (IF moved /\ to = "RETURNED" THEN {"returned"} ELSE {})
  <2>1. data' = [data EXCEPT ![a] = @ \cup (kept \cap Tracked)]
    BY DEF Settle, Keep
  <2>2. "contents" \notin kept
    OBVIOUS
  <2> HIDE DEF kept
  <2> QED
    BY <1>1, <2>1, <2>2 DEF TypeOK
<1> QED
  BY <1>2, <1>4, <1>5 DEF Recorded

\* What the staff do is recorded.
LEMMA StaffIsRecorded ==
  ASSUME TypeOK, NEW p \in Procs, StaffOperation(p)
  PROVE  Recorded
<1>1. tx[p].pc = "holds" => tx[p] # Idle
  BY DEF Idle
<1>2. "appeal.status_changed" \in Refreshing /\ "appeal.status_changed" \in EventTypes
  BY DEF Refreshing, EventTypes
<1>3. "appeal.message_added" \in EventTypes
  BY DEF EventTypes
<1>4. CASE SetPriority(p)
  BY <1>1, <1>2, <1>4, SettledIsRecorded DEF SetPriority, Holding
<1>5. CASE ReplyAndClose(p)
  BY <1>1, <1>2, <1>5, SettledIsRecorded DEF ReplyAndClose, Holding
<1>6. CASE Reply(p) \/ Note(p)
  BY <1>1, <1>2, <1>6, SettledIsRecorded DEF Reply, Note, Holding
<1>7. CASE StaffMessage(p)
  BY <1>1, <1>3, <1>7, SettledIsRecorded DEF StaffMessage, Holding
<1>8. ASSUME NEW to \in LiveStatuses, ChangeStatus(p, to) PROVE Recorded
  BY <1>1, <1>2, <1>8, SettledIsRecorded DEF ChangeStatus, Holding
<1>9. ASSUME NEW e \in Experts, NEW r \in Requests \cup {NoRequest},
             Assign(p, e, r) \/ AddCoexecutor(p, e, r)
      PROVE  Recorded
  BY <1>1, <1>2, <1>9, SettledIsRecorded DEF Assign, AddCoexecutor, Holding
<1>10. ASSUME NEW kind, NEW r \in Requests, RejectRequest(p, r) \/ RequestHelp(p, kind, r)
       PROVE  Recorded
  BY <1>1, <1>2, <1>10, SettledIsRecorded DEF RejectRequest, RequestHelp, Holding
<1> QED
  BY <1>4, <1>5, <1>6, <1>7, <1>8, <1>9, <1>10 DEF StaffOperation

\* What the applicant does is recorded, the deletion by an event of its own.
LEMMA ApplicantIsRecorded ==
  ASSUME TypeOK, NEW p \in Procs, ApplicantOperation(p)
  PROVE  Recorded
<1>1. tx[p].pc \in {"begun", "holds", "checked"} => tx[p] # Idle
  BY DEF Idle
<1>2. "appeal.status_changed" \in Refreshing /\ "appeal.status_changed" \in EventTypes
  BY DEF Refreshing, EventTypes
<1>3. \A complaint \in BOOLEAN : "contents" \notin Feedback(complaint)
  BY DEF Feedback
<1>4. ASSUME NEW to \in LiveStatuses, ApplicantStatus(p, to) PROVE Recorded
  BY <1>1, <1>2, <1>4, SettledIsRecorded DEF ApplicantStatus, Holding
<1>5. ASSUME NEW complaint \in BOOLEAN, ConfirmHelp(p, complaint) PROVE Recorded
  BY <1>1, <1>2, <1>3, <1>5, SettledIsRecorded DEF ConfirmHelp, Holding
<1>6. ASSUME NEW complaint \in BOOLEAN, ReturnAnswer(p, complaint) PROVE Recorded
  BY <1>1, <1>2, <1>3, <1>6, SettledIsRecorded DEF ReturnAnswer, Holding
<1>7. ASSUME NEW complaint \in BOOLEAN, RateOrComplain(p, complaint) PROVE Recorded
  BY <1>1, <1>2, <1>3, <1>7, SettledIsRecorded DEF RateOrComplain, Holding
<1>8. CASE CheckChatOpen(p) \/ OpenSession(p)
  BY <1>8 DEF CheckChatOpen, OpenSession, cases, Recorded
<1>9. ASSUME NEW crisis \in BOOLEAN, AddApplicantMessage(p, crisis) PROVE Recorded
  <2>1. tx[p].appeal \in Appeals
    BY <1>1, <1>9, BusyHasFields DEF AddApplicantMessage
  <2>2. \A b \in Appeals : "contents" \in data'[b] => "contents" \in data[b]
    BY <1>9, <2>1 DEF AddApplicantMessage, Keep, TypeOK
  <2> QED
    BY <1>9, <2>2 DEF AddApplicantMessage, Commit, Write, Recorded
<1>10. ASSUME NEW r \in Requests, RequestReassignment(p, r) PROVE Recorded
  BY <1>10 DEF RequestReassignment, Recorded
<1>11. CASE DeleteAppeal(p)
  <2> DEFINE a == tx[p].appeal
  <2>1. a \in Appeals
    BY <1>1, <1>11, BusyHasFields DEF DeleteAppeal
  <2>2. outbox' = outbox \cup {<<"appeal.deletion_requested", a>>}
    BY <1>11 DEF DeleteAppeal, Commit, Write
  <2>3. \A b \in Appeals : status'[b] # status[b] \/ deleted'[b] # deleted[b] => b = a
    BY <1>11, <2>1 DEF DeleteAppeal, TypeOK
  <2>4. WillRefresh(<<"appeal.deletion_requested", a>>, a)
    BY DEF WillRefresh, Refreshing
  <2>5. \A b \in Appeals : "contents" \in data'[b] => "contents" \in data[b]
    BY <1>11, <2>1 DEF DeleteAppeal, TypeOK
  <2> QED
    BY <2>2, <2>3, <2>4, <2>5 DEF Recorded
<1> QED
  BY <1>4, <1>5, <1>6, <1>7, <1>8, <1>9, <1>10, <1>11 DEF ApplicantOperation

\* Every step of Casework is recorded.
LEMMA StepsAreRecorded == TypeOK /\ [Next]_vars => Recorded
<1> SUFFICES ASSUME TypeOK, [Next]_vars PROVE Recorded
  OBVIOUS
<1>1. CASE UNCHANGED vars
  BY <1>1 DEF vars, Recorded
<1>2. ASSUME NEW p \in Procs,
             Acquire(p) \/ Refuse(p) \/ Abort(p)
               \/ (\E u \in Users, a \in Appeals : Begin(p, u, a))
               \/ (\E a \in Appeals : Authenticate(p, a))
      PROVE  Recorded
  BY <1>2 DEF Acquire, Refuse, Abort, Begin, Authenticate, cases, Recorded
<1>3. ASSUME NEW p \in Procs, NEW a \in Appeals,
             WithApplicant(p, a) \/ \E u \in Staff : StaffOnly(p, u, a)
      PROVE  Recorded
  BY <1>2, <1>3 DEF WithApplicant, StaffOnly, Users
<1>4. ASSUME NEW a \in Appeals, NEW extras \in SUBSET Extras, CreateAppeal(a, extras)
      PROVE  Recorded
  <2>1. outbox' = outbox \cup {<<"appeal.created", a>>} /\ ~Exists(a) /\ UNCHANGED deleted
    BY <1>4 DEF CreateAppeal, Write
  <2>2. \A b \in Appeals : status'[b] # status[b] \/ data'[b] # data[b] => b = a
    BY <1>4 DEF CreateAppeal, Keep, TypeOK
  <2>3. WillRefresh(<<"appeal.created", a>>, a)
    BY DEF WillRefresh, Refreshing
  <2> QED
    BY <2>1, <2>2, <2>3 DEF Recorded
<1>5. ASSUME NEW a \in Appeals, SessionExpires(a) \/ Age(a) PROVE Recorded
  BY <1>5 DEF SessionExpires, Age, Recorded
<1>6. ASSUME NEW S \in SUBSET Appeals, AutoClose(S) PROVE Recorded
  <2>1. outbox' = outbox \cup ({"appeal.status_changed"} \X S) /\ UNCHANGED deleted
    BY <1>6 DEF AutoClose
  <2>2. \A b \in Appeals : status'[b] # status[b] => b \in S
    BY <1>6 DEF AutoClose
  <2>3. \A b \in S : /\ <<"appeal.status_changed", b>> \in outbox'
                     /\ WillRefresh(<<"appeal.status_changed", b>>, b)
    BY <2>1 DEF WillRefresh, Refreshing
  <2>4. \A b \in Appeals : "contents" \in data'[b] => "contents" \in data[b]
    BY <1>6 DEF AutoClose
  <2> QED
    BY <2>1, <2>2, <2>3, <2>4 DEF Recorded
<1> QED
  BY <1>1, <1>2, <1>3, <1>4, <1>5, <1>6, StaffIsRecorded, ApplicantIsRecorded DEF Next, ApiNext, Step

-----------------------------------------------------------------------------
(***************************************************************************)
(* The worker beside the requests.                                         *)
(***************************************************************************)
\* The inductive invariant of the erasure: the erased appeal is not created again,
\* because deleted_at and the status agree (LockInv).
EraseInv == OutboxTypeOK /\ LockInv /\ ContentsErased

\* A step that handles no event: one of the cases, the closing that begins a tick
\* among them, or the end of a tick.
BesideEvents ==
  /\ [Next]_vars
  /\ UNCHANGED <<facts, job, failed>>
  /\ batch' \in SUBSET (batch \cup Workers)

\* Every step of Outbox is such a step or handles an event.
LEMMA StepsOfOutbox ==
  ASSUME [OutboxNext]_outboxVars
  PROVE  \/ BesideEvents
         \/ \E w \in Workers : Fail(w)
         \/ \E w \in Workers, e \in Events : Pick(w, e) \/ Handle(w, e)
<1>1. CASE ApiNext /\ UNCHANGED <<facts, job, failed, batch>>
  BY <1>1 DEF BesideEvents, Next
<1>2. ASSUME NEW w \in Workers, NEW S \in SUBSET Appeals, StartBatch(w, S)
      PROVE  BesideEvents
  <2>1. [Next]_vars
    BY <1>2 DEF StartBatch, Next
  <2> QED
    BY <1>2, <2>1 DEF StartBatch, BesideEvents
<1>3. ASSUME NEW w \in Workers, EndBatch(w)
      PROVE  BesideEvents
  BY <1>3 DEF EndBatch, BesideEvents
<1>4. CASE UNCHANGED outboxVars
  BY <1>4 DEF outboxVars, BesideEvents
<1> QED
  BY <1>1, <1>2, <1>3, <1>4 DEF OutboxNext

\* The worker leaves the rows of the requests alone but for data and the outbox.
LEMMA WorkerKeepsLocks ==
  ASSUME LockInv, data' \in [Appeals -> SUBSET Tracked],
         outbox' \in SUBSET (EventTypes \X Appeals),
         UNCHANGED <<status, deleted, returns, quiet, assigned, requests, history,
                     chat, sessions, tx>>
  PROVE  LockInv'
BY DEF LockInv, TypeOK, ReadsStayTrue, Authorized, AssignedTo, DeletionIsWhole,
       BusyOnRows, Exists

\* A worker that is busy has an event and what it has read for it.
LEMMA JobHasFields ==
  ASSUME OutboxTypeOK, NEW w \in Workers, job[w] # Rest
  PROVE  /\ job[w].event \in Events /\ job[w].fact \in Facts
         /\ job[w].step \in {"picked", "read"}
BY DEF OutboxTypeOK

\* What refreshFacts reads is a row of analytics_facts.
LEMMA SnapshotTypes ==
  ASSUME TypeOK, NEW a \in Appeals
  PROVE  Snapshot(a) \in Facts
<1>1. NoFact \in Facts
  BY DEF NoFact, Facts, Statuses
<1>2. [final_status |-> status[a], data |-> data[a] \cap FactData] \in Facts
  BY DEF TypeOK, Facts
<1> QED
  BY <1>1, <1>2 DEF Snapshot

\* The worker's steps keep the state well formed.
LEMMA WorkerTypes ==
  ASSUME OutboxTypeOK, NEW w \in Workers, NEW e \in Events,
         Fail(w) \/ Pick(w, e) \/ Handle(w, e)
  PROVE  OutboxTypeOK'
<1> USE FailuresAreCounted
<1>1. TypeOK /\ e[2] \in Appeals
  BY DEF OutboxTypeOK, Events
<1>2. NoFact \in Facts
  BY DEF NoFact, Facts, Statuses
<1>3. CASE Fail(w)
  <2>1. job[w].event \in Events
    BY <1>3, JobHasFields DEF Fail
  <2>2. TypeOK'
    BY <1>1, <1>3, <2>1 DEF Fail, TypeOK, Events
  <2>3. failed' \in 0 .. MaxFailures
    BY <1>3 DEF Fail, OutboxTypeOK
  <2> QED
    BY <1>3, <2>2, <2>3 DEF Fail, OutboxTypeOK
<1>4. CASE Pick(w, e)
  <2>1. TypeOK'
    BY <1>1, <1>4 DEF Pick, TypeOK
  <2> QED
    BY <1>2, <1>4, <2>1 DEF Pick, OutboxTypeOK
<1>5. CASE Refresh(w, e)
  <2>1. TypeOK'
    BY <1>1, <1>5 DEF Refresh, vars, TypeOK
  <2>2. Snapshot(e[2]) \in Facts
    BY <1>1, SnapshotTypes
  <2> QED
    BY <1>5, <2>1, <2>2 DEF Refresh, OutboxTypeOK
<1>6. CASE FinishRefresh(w, e)
  <2>1. job[w].fact \in Facts
    BY <1>6, JobHasFields DEF FinishRefresh
  <2>2. TypeOK'
    BY <1>1, <1>6 DEF FinishRefresh, TypeOK
  <2> QED
    BY <1>6, <2>1, <2>2 DEF FinishRefresh, OutboxTypeOK
<1>7. CASE FinishOther(w, e)
  <2>1. TypeOK'
    BY <1>1, <1>7 DEF FinishOther, vars, TypeOK
  <2> QED
    BY <1>7, <2>1 DEF FinishOther, OutboxTypeOK
<1> QED
  BY <1>3, <1>4, <1>5, <1>6, <1>7 DEF Handle

\* The worker's steps leave true what the requests have read.
LEMMA WorkerLocks ==
  ASSUME OutboxTypeOK, LockInv, NEW w \in Workers, NEW e \in Events,
         Fail(w) \/ Pick(w, e) \/ Handle(w, e)
  PROVE  LockInv'
<1>1. data' \in [Appeals -> SUBSET Tracked] /\ outbox' \in SUBSET (EventTypes \X Appeals)
  BY WorkerTypes DEF OutboxTypeOK, TypeOK
<1> QED
  BY <1>1, WorkerKeepsLocks
     DEF Fail, Pick, Handle, Refresh, FinishRefresh, FinishOther, vars

\* Requests leave the worker's part of the state alone.
LEMMA RequestTypes ==
  ASSUME OutboxTypeOK, BesideEvents
  PROVE  OutboxTypeOK'
BY TypeInductive DEF BesideEvents, OutboxTypeOK

\* An event stays pending while requests go on.
LEMMA PendingStays ==
  ASSUME outbox \subseteq outbox', UNCHANGED job, NEW a \in Appeals, DeletionPending(a)
  PROVE  DeletionPending(a)'
BY DEF DeletionPending

\* The erasure: a request that deletes leaves the event, and the worker lets go of
\* an event only when it is free again or its contents are gone.
LEMMA EraseInductive == EraseInv /\ [OutboxNext]_outboxVars => EraseInv'
<1> SUFFICES ASSUME EraseInv, [OutboxNext]_outboxVars PROVE EraseInv'
  OBVIOUS
<1> USE DEF EraseInv
<1>0. TypeOK
  BY DEF OutboxTypeOK
<1>1. ASSUME BesideEvents PROVE EraseInv'
  <2>0. [Next]_vars /\ UNCHANGED job
    BY <1>1 DEF BesideEvents
  <2>1. Recorded
    BY <1>0, <2>0, StepsAreRecorded
  <2>2. ASSUME NEW a \in Appeals, deleted'[a], "contents" \in data'[a]
        PROVE  DeletionPending(a)'
    <3>1. CASE deleted[a]
      <4>1. "contents" \in data[a]
        BY <2>1, <2>2, <3>1 DEF Recorded, LockInv, DeletionIsWhole, Exists
      <4>2. DeletionPending(a)
        BY <3>1, <4>1 DEF ContentsErased
      <4> QED
        BY <2>0, <2>1, <4>2, PendingStays DEF Recorded
    <3>2. CASE ~deleted[a]
      <4>1. <<"appeal.deletion_requested", a>> \in outbox'
        BY <2>1, <2>2, <3>2 DEF Recorded
      <4> QED
        BY <4>1 DEF DeletionPending
    <3> QED
      BY <3>1, <3>2
  <2>3. ContentsErased'
    BY <2>2 DEF ContentsErased
  <2> QED
    BY <1>1, <2>0, <2>3, RequestTypes, LockInductive
<1>2. ASSUME NEW w \in Workers, NEW e \in Events, Fail(w) \/ Pick(w, e) \/ Handle(w, e)
      PROVE  EraseInv'
  <2>1. OutboxTypeOK' /\ LockInv'
    BY <1>2, WorkerTypes, WorkerLocks
  <2>2. ASSUME NEW a \in Appeals, deleted'[a], "contents" \in data'[a]
        PROVE  DeletionPending(a)'
    <3> DEFINE del == <<"appeal.deletion_requested", a>>
    <3>1. deleted[a] /\ "contents" \in data[a]
      BY <1>0, <1>2, <2>2
         DEF Fail, Pick, Handle, Refresh, FinishRefresh, FinishOther, vars, TypeOK, Events, Erases
    <3>2. del \in outbox \/ \E v \in Workers : job[v] # Rest /\ job[v].event = del
      BY <3>1 DEF ContentsErased, DeletionPending
    <3> SUFFICES del \in outbox' \/ \E v \in Workers : job'[v] # Rest /\ job'[v].event = del
      BY DEF DeletionPending
    <3>3. \A v \in Workers : v # w => job'[v] = job[v]
      BY <1>2 DEF Fail, Pick, Handle, Refresh, FinishRefresh, FinishOther, OutboxTypeOK
    <3>4. CASE Fail(w)
      BY <3>2, <3>3, <3>4 DEF Fail
    <3>5. CASE Pick(w, e)
      <4>1. job'[w] # Rest /\ job'[w].event = e
        BY <3>5 DEF Pick, OutboxTypeOK, Rest
      <4> QED
        BY <3>2, <3>3, <3>5, <4>1 DEF Pick
    <3>6. CASE Refresh(w, e)
      <4>1. job'[w] # Rest /\ job'[w].event = e /\ job[w].event = e
        BY <3>6 DEF Refresh, OutboxTypeOK, Rest
      <4>2. UNCHANGED outbox
        BY <3>6 DEF Refresh, vars
      <4> QED
        BY <3>2, <3>3, <4>1, <4>2
    <3>7. CASE FinishRefresh(w, e)
      <4>1. e # del
        <5>1. SUFFICES ASSUME e = del PROVE FALSE
          OBVIOUS
        <5>2. data'[a] = data[a] \ Erased
          BY <1>0, <3>7, <5>1 DEF FinishRefresh, TypeOK, Erases
        <5> QED
          BY <2>2, <5>2 DEF Erased
      <4> QED
        BY <3>2, <3>3, <3>7, <4>1 DEF FinishRefresh
    <3>8. CASE FinishOther(w, e)
      <4>1. job[w].event = e /\ e # del
        BY <3>8 DEF FinishOther, Refreshing
      <4>2. UNCHANGED outbox
        BY <3>8 DEF FinishOther, vars
      <4> QED
        BY <3>2, <3>3, <4>1, <4>2
    <3> QED
      BY <1>2, <3>4, <3>5, <3>6, <3>7, <3>8 DEF Handle
  <2>3. ContentsErased'
    BY <2>2 DEF ContentsErased
  <2> QED
    BY <2>1, <2>3
<1>3. ASSUME NEW w \in Workers, Fail(w) PROVE EraseInv'
  <2>1. job[w].event \in Events
    BY <1>3, JobHasFields DEF Fail
  <2> QED
    BY <1>2, <1>3, <2>1
<1> QED
  BY <1>1, <1>2, <1>3, StepsOfOutbox

\* In the beginning there is nothing to erase.
LEMMA EraseInitially == OutboxInit => EraseInv
<1> SUFFICES ASSUME OutboxInit PROVE EraseInv
  OBVIOUS
<1>1. LockInv
  BY LockInitially DEF OutboxInit
<1>2. NoFact \in Facts
  BY DEF NoFact, Facts, Statuses
<1>3. OutboxTypeOK
  BY <1>1, <1>2, FailuresAreCounted DEF OutboxInit, OutboxTypeOK, LockInv
<1>4. ContentsErased
  BY DEF OutboxInit, Init, ContentsErased
<1> QED
  BY <1>1, <1>3, <1>4 DEF EraseInv

\* Events, facts and the workers' transactions stay what they may be (handle).
THEOREM EventsAreKnown == OutboxSpec => []OutboxTypeOK
<1>1. EraseInv => OutboxTypeOK
  BY DEF EraseInv
<1> QED
  BY <1>1, EraseInitially, EraseInductive, PTL DEF OutboxSpec

\* Once the deletion of an appeal has been handled its text is gone, and until then
\* the event is there, whatever requests, workers and failures do (handle).
THEOREM DeletionErases == OutboxSpec => [](OutboxTypeOK /\ ContentsErased)
<1>1. EraseInv => OutboxTypeOK /\ ContentsErased
  BY DEF EraseInv
<1> QED
  BY <1>1, EraseInitially, EraseInductive, PTL DEF OutboxSpec

-----------------------------------------------------------------------------
(***************************************************************************)
(* The refinement of AppealErasure.                                        *)
(***************************************************************************)
\* A step of Casework that neither brings nor deletes an appeal.
TextsStay ==
  /\ UNCHANGED deleted
  /\ \A a \in Appeals :
       /\ "contents" \in data'[a] <=> "contents" \in data[a]
       /\ Exists(a)' <=> Exists(a)
       /\ <<"appeal.deletion_requested", a>> \in outbox' \ outbox => deleted[a]

\* An operation that ends with Settle and Commit touches no text.
LEMMA SettledKeepsTexts ==
  ASSUME LockInv, NEW p \in Procs, tx[p] # Idle, NEW to, NEW said, NEW touched,
         NEW items, "contents" \notin items, NEW type,
         type # "appeal.deletion_requested", to = tx[p].seen \/ to # "NONE",
         Settle(p, to, said, touched, items), Commit(p, type), UNCHANGED deleted
  PROVE  TextsStay
<1> DEFINE a == tx[p].appeal
<1>1. TypeOK /\ a \in Appeals /\ Exists(a)
  BY BusyHasFields DEF LockInv, BusyOnRows
<1>2. outbox' = outbox \cup {<<type, a>>}
  BY DEF Commit, Write
<1>3. \A b \in Appeals : Exists(b)' <=> Exists(b)
  BY <1>1 DEF Settle, TypeOK, Exists
<1>4. \A b \in Appeals : "contents" \in data'[b] <=> "contents" \in data[b]
  <2> DEFINE moved == to # tx[p].seen
             kept == items \cup (IF moved /\ to \in Closed THEN {"resolved_at"} ELSE {})
                           \cup (IF moved /\ to = "RETURNED" THEN {"returned"} ELSE {})
  <2>1. data' = [data EXCEPT ![a] = @ \cup (kept \cap Tracked)]
    BY DEF Settle, Keep
  <2>2. "contents" \notin kept
    OBVIOUS
  <2> HIDE DEF kept
  <2> QED
    BY <1>1, <2>1, <2>2 DEF TypeOK
<1> QED
  BY <1>2, <1>3, <1>4 DEF TextsStay

\* The staff delete nothing.
LEMMA StaffKeepTexts ==
  ASSUME LockInv, NEW p \in Procs, StaffOperation(p)
  PROVE  TextsStay
<1>1. tx[p].pc = "holds" => tx[p] # Idle
  BY DEF Idle
<1>2. \A to \in LiveStatuses : to # "NONE"
  BY DEF LiveStatuses
<1>3. CASE SetPriority(p)
  BY <1>1, <1>3, SettledKeepsTexts DEF SetPriority, Holding
<1>4. CASE ReplyAndClose(p)
  BY <1>1, <1>4, SettledKeepsTexts DEF ReplyAndClose, Holding
<1>5. CASE Reply(p) \/ Note(p)
  BY <1>1, <1>5, SettledKeepsTexts DEF Reply, Note, Holding
<1>6. CASE StaffMessage(p)
  BY <1>1, <1>6, SettledKeepsTexts DEF StaffMessage, Holding
<1>7. ASSUME NEW to \in LiveStatuses, ChangeStatus(p, to) PROVE TextsStay
  BY <1>1, <1>2, <1>7, SettledKeepsTexts DEF ChangeStatus, Holding
<1>8. ASSUME NEW e \in Experts, NEW r \in Requests \cup {NoRequest},
             Assign(p, e, r) \/ AddCoexecutor(p, e, r)
      PROVE  TextsStay
  BY <1>1, <1>8, SettledKeepsTexts DEF Assign, AddCoexecutor, Holding
<1>9. ASSUME NEW kind, NEW r \in Requests, RejectRequest(p, r) \/ RequestHelp(p, kind, r)
      PROVE  TextsStay
  BY <1>1, <1>9, SettledKeepsTexts DEF RejectRequest, RequestHelp, Holding
<1> QED
  BY <1>3, <1>4, <1>5, <1>6, <1>7, <1>8, <1>9 DEF StaffOperation

\* The applicant deletes with DeleteAppeal only.
LEMMA ApplicantKeepsTexts ==
  ASSUME LockInv, NEW p \in Procs, ApplicantOperation(p), ~DeleteAppeal(p)
  PROVE  TextsStay
<1>1. tx[p].pc \in {"begun", "holds", "checked"} => tx[p] # Idle
  BY DEF Idle
<1>2. \A to \in LiveStatuses : to # "NONE"
  BY DEF LiveStatuses
<1>3. \A complaint \in BOOLEAN : "contents" \notin Feedback(complaint)
  BY DEF Feedback
<1>4. ASSUME NEW to \in LiveStatuses, ApplicantStatus(p, to) PROVE TextsStay
  BY <1>1, <1>2, <1>4, SettledKeepsTexts DEF ApplicantStatus, Holding
<1>5. ASSUME NEW complaint \in BOOLEAN, ConfirmHelp(p, complaint) PROVE TextsStay
  BY <1>1, <1>3, <1>5, SettledKeepsTexts DEF ConfirmHelp, Holding
<1>6. ASSUME NEW complaint \in BOOLEAN, ReturnAnswer(p, complaint) PROVE TextsStay
  BY <1>1, <1>3, <1>6, SettledKeepsTexts DEF ReturnAnswer, Holding
<1>7. ASSUME NEW complaint \in BOOLEAN, RateOrComplain(p, complaint) PROVE TextsStay
  BY <1>1, <1>3, <1>7, SettledKeepsTexts DEF RateOrComplain, Holding
<1>8. CASE CheckChatOpen(p) \/ OpenSession(p)
  BY <1>8 DEF CheckChatOpen, OpenSession, cases, Exists, TextsStay
<1>9. ASSUME NEW crisis \in BOOLEAN, AddApplicantMessage(p, crisis) PROVE TextsStay
  <2>1. tx[p].appeal \in Appeals /\ TypeOK
    BY <1>1, <1>9, BusyHasFields DEF AddApplicantMessage, LockInv
  <2>2. \A b \in Appeals : "contents" \in data'[b] <=> "contents" \in data[b]
    BY <1>9, <2>1 DEF AddApplicantMessage, Keep, TypeOK
  <2> QED
    BY <1>9, <2>2 DEF AddApplicantMessage, Commit, Write, Exists, TextsStay
<1>10. ASSUME NEW r \in Requests, RequestReassignment(p, r) PROVE TextsStay
  BY <1>10 DEF RequestReassignment, Exists, TextsStay
<1> QED
  BY <1>4, <1>5, <1>6, <1>7, <1>8, <1>9, <1>10 DEF ApplicantOperation

\* An appeal comes with its text and goes by its deletion; no other step of Casework
\* brings or deletes one.
LEMMA StepsMoveTexts ==
  ASSUME LockInv, [Next]_vars
  PROVE  \/ TextsStay
         \/ \E a \in Appeals, extras \in SUBSET Extras : CreateAppeal(a, extras)
         \/ \E p \in Procs : DeleteAppeal(p)
<1>1. CASE UNCHANGED vars
  BY <1>1 DEF vars, Exists, TextsStay
<1>2. ASSUME NEW p \in Procs,
             Acquire(p) \/ Refuse(p) \/ Abort(p)
               \/ (\E u \in Users, a \in Appeals : Begin(p, u, a))
               \/ (\E a \in Appeals : Authenticate(p, a))
      PROVE  TextsStay
  BY <1>2 DEF Acquire, Refuse, Abort, Begin, Authenticate, cases, Exists, TextsStay
<1>3. ASSUME NEW p \in Procs, NEW a \in Appeals,
             WithApplicant(p, a) \/ \E u \in Staff : StaffOnly(p, u, a)
      PROVE  TextsStay
  BY <1>2, <1>3 DEF WithApplicant, StaffOnly, Users
<1>4. ASSUME NEW a \in Appeals, SessionExpires(a) \/ Age(a) PROVE TextsStay
  BY <1>4 DEF SessionExpires, Age, Exists, TextsStay
<1>5. ASSUME NEW S \in SUBSET Appeals, AutoClose(S) PROVE TextsStay
  <2>1. outbox' = outbox \cup ({"appeal.status_changed"} \X S) /\ UNCHANGED deleted
    BY <1>5 DEF AutoClose
  <2>2. \A b \in Appeals : "contents" \in data'[b] <=> "contents" \in data[b]
    BY <1>5 DEF AutoClose
  <2>3. \A b \in Appeals : Exists(b)' <=> Exists(b)
    BY <1>5 DEF AutoClose, Closable, Inactive, Exists
  <2> QED
    BY <2>1, <2>2, <2>3 DEF TextsStay
<1> QED
  BY <1>1, <1>2, <1>3, <1>4, <1>5, StaffKeepTexts, ApplicantKeepsTexts DEF Next, ApiNext, Step

Texts == {a \in Appeals : "contents" \in data[a]}
Gone  == {a \in Appeals : deleted[a]}

\* Every appeal there is has its text until it is deleted.
TextsAreKept ==
  \A a \in Appeals : /\ "contents" \in data[a] => Exists(a)
                     /\ Exists(a) /\ ~deleted[a] => "contents" \in data[a]

\* No event of a deletion is on its way but for a deletion.
DeletionsAreTrue == \A a \in Appeals : DeletionPending(a) => deleted[a]

TextInv == EraseInv /\ TextsAreKept /\ DeletionsAreTrue

\* The requests create and delete.
LEMMA RequestsImplementErasure ==
  ASSUME "contents" \in Tracked, TextInv, BesideEvents
  PROVE  /\ TextsAreKept' /\ DeletionsAreTrue'
         /\ [Deletion!Next]_Deletion!erasureVars
<1> USE DEF BesideEvents
<1>1. LockInv /\ TypeOK
  BY DEF TextInv, EraseInv, LockInv
<1>2. CASE TextsStay
  <2>1. TextsAreKept'
    BY <1>2 DEF TextsStay, TextsAreKept, TextInv
  <2>2. DeletionsAreTrue'
    BY <1>2 DEF TextsStay, DeletionsAreTrue, TextInv, DeletionPending
  <2>3. Texts' = Texts /\ Gone' = Gone
    BY <1>2 DEF TextsStay, Texts, Gone
  <2> QED
    BY <2>1, <2>2, <2>3 DEF Deletion!erasureVars, Texts, Gone
<1>3. ASSUME NEW a \in Appeals, NEW extras \in SUBSET Extras, CreateAppeal(a, extras)
      PROVE  /\ TextsAreKept' /\ DeletionsAreTrue'
             /\ [Deletion!Next]_Deletion!erasureVars
  <2>1. ~Exists(a) /\ ~deleted[a] /\ "contents" \notin data[a]
    BY <1>1, <1>3 DEF CreateAppeal, TextInv, TextsAreKept, LockInv, DeletionIsWhole, Exists
  <2>2. Exists(a)' /\ UNCHANGED deleted /\ "contents" \in data'[a]
    BY <1>1, <1>3 DEF CreateAppeal, Keep, TypeOK, Exists
  <2>3. \A b \in Appeals \ {a} : data'[b] = data[b] /\ status'[b] = status[b]
    BY <1>1, <1>3 DEF CreateAppeal, Keep, TypeOK
  <2>4. outbox' = outbox \cup {<<"appeal.created", a>>}
    BY <1>3 DEF CreateAppeal, Write
  <2>5. TextsAreKept'
    BY <2>2, <2>3 DEF TextInv, TextsAreKept, Exists
  <2>6. DeletionsAreTrue'
    BY <2>2, <2>4 DEF TextInv, DeletionsAreTrue, DeletionPending
  <2>7. Texts' = Texts \cup {a} /\ Gone' = Gone /\ a \notin Texts \cup Gone
    BY <2>1, <2>2, <2>3 DEF Texts, Gone
  <2>8. Deletion!Submit(a)
    BY <2>7 DEF Deletion!Submit, Texts, Gone
  <2> QED
    BY <2>5, <2>6, <2>8 DEF Deletion!Next
<1>4. ASSUME NEW p \in Procs, DeleteAppeal(p)
      PROVE  /\ TextsAreKept' /\ DeletionsAreTrue'
             /\ [Deletion!Next]_Deletion!erasureVars
  <2>1. PICK a \in Appeals : a = tx[p].appeal /\ Exists(a)
    BY <1>1, <1>4, PhaseMeansBusy, BusyHasFields DEF DeleteAppeal, LockInv, BusyOnRows
  <2>2. /\ Exists(a)' /\ deleted'[a]
        /\ \A b \in Appeals : "contents" \in data'[b] <=> "contents" \in data[b]
    BY <1>1, <1>4, <2>1 DEF DeleteAppeal, TypeOK, Exists
  <2>3. \A b \in Appeals \ {a} : deleted'[b] = deleted[b] /\ status'[b] = status[b]
    BY <1>1, <1>4, <2>1 DEF DeleteAppeal, TypeOK
  <2>4. outbox' = outbox \cup {<<"appeal.deletion_requested", a>>}
    BY <1>4, <2>1 DEF DeleteAppeal, Commit, Write
  <2>5. TextsAreKept'
    BY <2>1, <2>2, <2>3 DEF TextInv, TextsAreKept, Exists
  <2>6. DeletionsAreTrue'
    BY <2>2, <2>3, <2>4 DEF TextInv, DeletionsAreTrue, DeletionPending
  <2>7. Texts' = Texts /\ Gone' = Gone \cup {a}
    BY <2>1, <2>2, <2>3 DEF Texts, Gone
  <2>8. CASE a \in Gone
    BY <2>5, <2>6, <2>7, <2>8 DEF Deletion!erasureVars, Texts, Gone
  <2>9. CASE a \notin Gone
    <3>1. a \in Texts
      BY <2>1, <2>9 DEF TextInv, TextsAreKept, Texts, Gone
    <3>2. Deletion!Delete(a)
      BY <2>7, <2>9, <3>1 DEF Deletion!Delete, Texts, Gone
    <3> QED
      BY <2>1, <2>5, <2>6, <3>2 DEF Deletion!Next
  <2> QED
    BY <2>8, <2>9
<1> QED
  BY <1>1, <1>2, <1>3, <1>4, StepsMoveTexts

\* The worker erases, and only what was deleted.
LEMMA WorkerImplementsErasure ==
  ASSUME TextInv, NEW w \in Workers, NEW e \in Events,
         Fail(w) \/ Pick(w, e) \/ Handle(w, e)
  PROVE  /\ TextsAreKept' /\ DeletionsAreTrue'
         /\ [Deletion!Next]_Deletion!erasureVars
<1>1. OutboxTypeOK /\ TypeOK /\ e[2] \in Appeals
  BY DEF TextInv, EraseInv, LockInv, Events
<1>2. UNCHANGED <<status, deleted>>
  BY DEF Fail, Pick, Handle, Refresh, FinishRefresh, FinishOther, vars
<1>3. \A v \in Workers \ {w} : job'[v] = job[v]
  BY <1>1 DEF Fail, Pick, Handle, Refresh, FinishRefresh, FinishOther, OutboxTypeOK
<1>4. ASSUME NEW a \in Appeals, DeletionPending(a)'
      PROVE  DeletionPending(a)
  <2> DEFINE del == <<"appeal.deletion_requested", a>>
  <2>1. del \in outbox' \/ \E v \in Workers : job'[v] # Rest /\ job'[v].event = del
    BY <1>4 DEF DeletionPending
  <2> SUFFICES del \in outbox \/ \E v \in Workers : job[v] # Rest /\ job[v].event = del
    BY DEF DeletionPending
  <2>2. CASE Fail(w)
    BY <1>1, <1>3, <2>1, <2>2 DEF Fail, OutboxTypeOK
  <2>3. CASE Pick(w, e)
    BY <1>1, <1>3, <2>1, <2>3 DEF Pick, OutboxTypeOK
  <2>4. CASE Refresh(w, e)
    <3>1. job'[w].event = e /\ job[w].event = e /\ job[w] # Rest /\ UNCHANGED outbox
      BY <1>1, <2>4 DEF Refresh, OutboxTypeOK, Rest, vars
    <3> QED
      BY <1>3, <2>1, <3>1
  <2>5. CASE FinishRefresh(w, e) \/ FinishOther(w, e)
    <3>1. job'[w] = Rest /\ UNCHANGED outbox
      BY <1>1, <2>5 DEF FinishRefresh, FinishOther, OutboxTypeOK, vars
    <3> QED
      BY <1>3, <2>1, <3>1
  <2> QED
    BY <2>2, <2>3, <2>4, <2>5 DEF Handle
<1>5. DeletionsAreTrue'
  BY <1>2, <1>4 DEF TextInv, DeletionsAreTrue
<1>6. CASE /\ FinishRefresh(w, e) /\ e[1] = "appeal.deletion_requested"
           /\ "contents" \in data[e[2]]
  <2> DEFINE a == e[2]
  <2>1. e = <<"appeal.deletion_requested", a>>
    BY <1>6 DEF Events
  <2>2. deleted[a]
    BY <1>1, <1>6, <2>1 DEF TextInv, DeletionsAreTrue, DeletionPending, FinishRefresh
  <2>3. /\ \A b \in Appeals \ {a} : data'[b] = data[b]
        /\ "contents" \notin data'[a]
    BY <1>1, <1>6 DEF FinishRefresh, Erases, Erased, TypeOK
  <2>4. TextsAreKept'
    BY <1>2, <2>2, <2>3 DEF TextInv, TextsAreKept, Exists
  <2>5. Texts' = Texts \ {a} /\ Gone' = Gone /\ a \in Texts \cap Gone
    BY <1>1, <1>2, <1>6, <2>2, <2>3 DEF Texts, Gone
  <2>6. Deletion!Erase(a)
    BY <2>5 DEF Deletion!Erase, Texts, Gone
  <2> QED
    BY <1>1, <1>5, <2>4, <2>6 DEF Deletion!Next
<1>7. CASE ~(/\ FinishRefresh(w, e) /\ e[1] = "appeal.deletion_requested"
             /\ "contents" \in data[e[2]])
  <2>1. \A b \in Appeals : "contents" \in data'[b] <=> "contents" \in data[b]
    BY <1>1, <1>7
       DEF Fail, Pick, Handle, Refresh, FinishRefresh, FinishOther, vars, TypeOK, Erases
  <2>2. TextsAreKept'
    BY <1>2, <2>1 DEF TextInv, TextsAreKept, Exists
  <2>3. Texts' = Texts /\ Gone' = Gone
    BY <1>2, <2>1 DEF Texts, Gone
  <2> QED
    BY <1>5, <2>2, <2>3 DEF Deletion!erasureVars, Texts, Gone
<1> QED
  BY <1>6, <1>7

\* Both begin without a text.
LEMMA ErasureInitially == OutboxInit => TextInv /\ Deletion!Init
<1> SUFFICES ASSUME OutboxInit PROVE TextInv /\ Deletion!Init
  OBVIOUS
<1>1. EraseInv
  BY EraseInitially
<1>2. TextsAreKept
  BY DEF OutboxInit, Init, TextsAreKept, Exists
<1>3. DeletionsAreTrue
  BY DEF OutboxInit, Init, DeletionsAreTrue, DeletionPending, Rest
<1>4. Deletion!Init
  BY DEF OutboxInit, Init, Deletion!Init
<1> QED
  BY <1>1, <1>2, <1>3, <1>4 DEF TextInv

\* Every step of Outbox is one of AppealErasure or leaves the texts alone.
LEMMA StepsImplementErasure ==
  ASSUME "contents" \in Tracked
  PROVE  TextInv /\ [OutboxNext]_outboxVars
           => TextInv' /\ [Deletion!Next]_Deletion!erasureVars
<1> SUFFICES ASSUME TextInv, [OutboxNext]_outboxVars
             PROVE  TextInv' /\ [Deletion!Next]_Deletion!erasureVars
  OBVIOUS
<1>1. EraseInv'
  BY EraseInductive DEF TextInv
<1>2. ASSUME NEW w \in Workers, Fail(w)
      PROVE  \E e \in Events : Fail(w)
  BY <1>2, JobHasFields DEF Fail, TextInv, EraseInv
<1>3. CASE BesideEvents
  BY <1>1, <1>3, RequestsImplementErasure DEF TextInv
<1>4. ASSUME NEW w \in Workers, NEW e \in Events, Fail(w) \/ Pick(w, e) \/ Handle(w, e)
      PROVE  TextInv' /\ [Deletion!Next]_Deletion!erasureVars
  BY <1>1, <1>4, WorkerImplementsErasure DEF TextInv
<1> QED
  BY <1>2, <1>3, <1>4, StepsOfOutbox

\* Outbox implements AppealErasure, for any number of appeals, requests, workers and
\* failures: the text of an appeal is kept until its applicant deletes it, is erased
\* by the worker for nothing else, and does not come back (handle, DeleteAppeal).
\* The assumption says that the instance follows the texts.
THEOREM ErasureIsImplemented ==
  ASSUME "contents" \in Tracked
  PROVE  OutboxSpec => ImplementsErasure
BY ErasureInitially, StepsImplementErasure, PTL
   DEF OutboxSpec, ImplementsErasure, Deletion!Spec

-----------------------------------------------------------------------------
(***************************************************************************)
(* The status in the statistics, with one worker process.                  *)
(***************************************************************************)
\* What a worker has read for an appeal is its status, or an event waits that will
\* have it read again.  With two workers the other one might have taken that event
\* already, and the older reading be committed last.
StaleReadsAreCovered ==
  \A w \in Workers, a \in Appeals :
    job[w].step = "read" /\ job[w].event[2] = a =>
      /\ job[w].event[1] \in Refreshing
      /\ AnalyticsEnabled => \/ job[w].fact.final_status = status[a]
                             \/ \E e \in outbox : WillRefresh(e, a)

FactInv == OutboxTypeOK /\ FactsFollowStatus /\ StaleReadsAreCovered

\* The statistics of one appeal are right or will be corrected.
Follows(a) ==
  \/ facts[a].final_status = status[a]
  \/ \E e \in outbox : WillRefresh(e, a)
  \/ \E w \in Workers :
       /\ job[w] # Rest /\ WillRefresh(job[w].event, a)
       /\ job[w].step = "picked" \/ job[w].fact.final_status = status[a]

\* Requests keep the invariant: a change of status brings its event.
LEMMA RequestsKeepFacts ==
  ASSUME FactInv, BesideEvents
  PROVE  FactInv'
<1> USE DEF BesideEvents
<1>1. Recorded
  BY StepsAreRecorded DEF FactInv, OutboxTypeOK
<1>2. OutboxTypeOK'
  BY RequestTypes DEF FactInv
<1>3. ASSUME NEW a \in Appeals
      PROVE  \/ status'[a] = status[a]
             \/ \E e \in outbox' : WillRefresh(e, a)
  BY <1>1 DEF Recorded
<1>4. \A a \in Appeals : (\E e \in outbox : WillRefresh(e, a)) =>
                          \E e \in outbox' : WillRefresh(e, a)
  BY <1>1 DEF Recorded
<1>5. FactsFollowStatus'
  BY <1>3, <1>4 DEF FactInv, FactsFollowStatus
<1>6. StaleReadsAreCovered'
  BY <1>3, <1>4 DEF FactInv, StaleReadsAreCovered
<1> QED
  BY <1>2, <1>5, <1>6 DEF FactInv

\* The one worker keeps it: nobody else takes an event between its reading and
\* its commit.
LEMMA WorkerKeepsFacts ==
  ASSUME \A v, w \in Workers : v = w,
         FactInv, NEW w \in Workers, NEW e \in Events,
         Fail(w) \/ Pick(w, e) \/ Handle(w, e)
  PROVE  FactInv'
<1> USE DEF FactInv
<1>1. OutboxTypeOK'
  BY WorkerTypes
<1>2. \A v \in Workers : v = w
  OBVIOUS
<1>3. e[2] \in Appeals /\ status \in [Appeals -> Statuses]
  BY DEF Events, OutboxTypeOK, TypeOK
<1>4. AnalyticsEnabled => \A a \in Appeals : Follows(a)
  BY DEF FactsFollowStatus, Follows
<1>5. UNCHANGED status
  BY DEF Fail, Pick, Handle, Refresh, FinishRefresh, FinishOther, vars
<1>6. StaleReadsAreCovered' /\ (AnalyticsEnabled => \A a \in Appeals : Follows(a)')
  <2>1. CASE Fail(w)
    <3>1. job'[w] = Rest /\ outbox' = outbox \cup {job[w].event} /\ UNCHANGED facts
      BY <2>1 DEF Fail, OutboxTypeOK
    <3>2. StaleReadsAreCovered'
      BY <1>2, <3>1 DEF StaleReadsAreCovered, Rest
    <3>3. ASSUME AnalyticsEnabled, NEW a \in Appeals PROVE Follows(a)'
      BY <1>2, <1>4, <1>5, <3>1, <3>3 DEF Follows
    <3> QED
      BY <3>2, <3>3
  <2>2. CASE Pick(w, e)
    <3>1. /\ job[w] = Rest
          /\ job'[w] = [step |-> "picked", event |-> e, fact |-> NoFact]
          /\ outbox' = outbox \ {e} /\ UNCHANGED facts
      BY <2>2 DEF Pick, OutboxTypeOK
    <3>2. StaleReadsAreCovered'
      BY <1>2, <3>1 DEF StaleReadsAreCovered
    <3>3. ASSUME AnalyticsEnabled, NEW a \in Appeals PROVE Follows(a)'
      BY <1>2, <1>4, <1>5, <3>1, <3>3 DEF Follows, Rest
    <3> QED
      BY <3>2, <3>3
  <2>3. CASE Refresh(w, e)
    <3>1. /\ job[w].event = e /\ e[1] \in Refreshing
          /\ job'[w] = [step |-> "read", event |-> e, fact |-> Snapshot(e[2])]
          /\ UNCHANGED <<facts, outbox>>
      BY <2>3 DEF Refresh, OutboxTypeOK, vars
    <3>2. AnalyticsEnabled => Snapshot(e[2]).final_status = status[e[2]]
      BY DEF Snapshot
    <3>3. StaleReadsAreCovered'
      BY <1>2, <1>5, <3>1, <3>2 DEF StaleReadsAreCovered
    <3>4. ASSUME AnalyticsEnabled, NEW a \in Appeals PROVE Follows(a)'
      <4>1. job'[w] # Rest
        BY <3>1 DEF Rest
      <4> QED
        BY <1>2, <1>4, <1>5, <3>1, <3>2, <3>4, <4>1 DEF Follows, WillRefresh
    <3> QED
      BY <3>3, <3>4
  <2>4. CASE FinishRefresh(w, e)
    <3>1. /\ job[w].step = "read" /\ job[w].event = e
          /\ job'[w] = Rest /\ UNCHANGED outbox
          /\ facts' = [facts EXCEPT ![e[2]] = job[w].fact]
      BY <2>4 DEF FinishRefresh, OutboxTypeOK
    <3>2. StaleReadsAreCovered'
      BY <1>2, <3>1 DEF StaleReadsAreCovered, Rest
    <3>3. ASSUME AnalyticsEnabled, NEW a \in Appeals PROVE Follows(a)'
      <4>1. CASE a = e[2]
        <5>1. facts'[a] = job[w].fact
          BY <3>1, <4>1 DEF OutboxTypeOK
        <5>2. \/ job[w].fact.final_status = status[a]
              \/ \E x \in outbox : WillRefresh(x, a)
          BY <3>1, <3>3, <4>1 DEF StaleReadsAreCovered
        <5> QED
          BY <1>5, <3>1, <5>1, <5>2 DEF Follows
      <4>2. CASE a # e[2]
        <5>1. facts'[a] = facts[a]
          BY <3>1, <4>2 DEF OutboxTypeOK
        <5> QED
          BY <1>2, <1>4, <1>5, <3>1, <3>3, <4>2, <5>1 DEF Follows, WillRefresh
      <4> QED
        BY <4>1, <4>2
    <3> QED
      BY <3>2, <3>3
  <2>5. CASE FinishOther(w, e)
    <3>1. /\ job[w].event = e /\ e[1] \notin Refreshing
          /\ job'[w] = Rest /\ UNCHANGED <<facts, outbox>>
      BY <2>5 DEF FinishOther, OutboxTypeOK, vars
    <3>2. StaleReadsAreCovered'
      BY <1>2, <3>1 DEF StaleReadsAreCovered, Rest
    <3>3. ASSUME AnalyticsEnabled, NEW a \in Appeals PROVE Follows(a)'
      BY <1>2, <1>4, <1>5, <3>1, <3>3 DEF Follows, WillRefresh
    <3> QED
      BY <3>2, <3>3
  <2> QED
    BY <2>1, <2>2, <2>3, <2>4, <2>5 DEF Handle
<1>7. FactsFollowStatus'
  BY <1>6 DEF FactsFollowStatus, Follows
<1> QED
  BY <1>1, <1>6, <1>7

\* The invariant is inductive for one worker.
LEMMA FactsInductive ==
  ASSUME \A v, w \in Workers : v = w
  PROVE  FactInv /\ [OutboxNext]_outboxVars => FactInv'
<1> SUFFICES ASSUME FactInv, [OutboxNext]_outboxVars PROVE FactInv'
  OBVIOUS
<1>1. ASSUME NEW w \in Workers, Fail(w) PROVE FactInv'
  <2>1. job[w].event \in Events
    BY <1>1, JobHasFields DEF Fail, FactInv
  <2> QED
    BY <1>1, <2>1, WorkerKeepsFacts
<1>2. ASSUME NEW w \in Workers, NEW e \in Events, Pick(w, e) \/ Handle(w, e)
      PROVE  FactInv'
  BY <1>2, WorkerKeepsFacts
<1>3. ASSUME BesideEvents PROVE FactInv'
  BY <1>3, RequestsKeepFacts
<1> QED
  BY <1>1, <1>2, <1>3, StepsOfOutbox

\* No change of status is lost for the statistics: with one worker process, as
\* docker-compose.yml starts it, analytics_facts has the status of the appeal or
\* an event that will correct it is on its way (refreshFacts).
THEOREM NoStatusIsLost ==
  ASSUME \A v, w \in Workers : v = w
  PROVE  OutboxSpec => []FactsFollowStatus
<1>1. OutboxInit => FactInv
  <2> SUFFICES ASSUME OutboxInit PROVE FactInv
    OBVIOUS
  <2>1. OutboxTypeOK
    BY EraseInitially DEF EraseInv
  <2>2. FactsFollowStatus
    BY DEF OutboxInit, Init, FactsFollowStatus, NoFact
  <2>3. StaleReadsAreCovered
    BY DEF OutboxInit, StaleReadsAreCovered, Rest
  <2> QED
    BY <2>1, <2>2, <2>3 DEF FactInv
<1>2. FactInv => FactsFollowStatus
  BY DEF FactInv
<1> QED
  BY <1>1, <1>2, FactsInductive, PTL DEF OutboxSpec
=============================================================================
