--------------------------- MODULE CaseViewsProofs ---------------------------
(***************************************************************************)
(* Theorems about CaseViews, for any number of pages, requests, appeals    *)
(* and accounts: a page that shares the row of an appeal sees one state.   *)
(***************************************************************************)
EXTENDS CaseViews, CaseworkProofs

\* What the pages read of a case stays what it was, and nobody locks its row.
KeepsRow(a) ==
  /\ status'[a] = status[a] /\ deleted'[a] = deleted[a]
  /\ assigned'[a] = assigned[a]
  /\ \A p \in Procs : tx'[p].pc = "holds" => tx'[p].appeal # a

\* A page is open on an appeal that has a row.
ViewsOnRows ==
  \A v \in Views, u \in Staff, a \in Appeals : Reading(v, u, a) => Exists(a)

\* The inductive invariant: LockInv gives a page the consistency of the row it
\* finds unlocked.
ViewInv == LockInv /\ ViewTypeOK /\ ViewStaysTrue /\ ViewsOnRows

\* What a page has read is the truth about a case that nobody is changing.
Sound(row) ==
  \A u \in Staff, a \in Appeals : row # Unread /\ row.who = u /\ row.appeal = a =>
    /\ Exists(a) /\ Authorized(u, a) /\ LockFree(a)
    /\ row.step = "answered" => row.canChat = MaySeeChat(u, a)

-----------------------------------------------------------------------------
\* A transaction that ends, on another row, keeps this one.
LEMMA EndedElsewhere ==
  ASSUME TypeOK, NEW a \in Appeals, LockFree(a), NEW p \in Procs,
         tx' = [tx EXCEPT ![p] = Idle],
         status'[a] = status[a], deleted'[a] = deleted[a], assigned'[a] = assigned[a]
  PROVE  KeepsRow(a)
<1>1. \A q \in Procs : tx'[q].pc = "holds" => tx'[q] = tx[q]
  BY DEF TypeOK, Idle
<1> QED BY <1>1 DEF KeepsRow, LockFree

\* The staff's operations need the row, and this one is free.
LEMMA StaffKeepRow ==
  ASSUME LockInv, NEW a \in Appeals, LockFree(a), NEW p \in Procs, StaffOperation(p)
  PROVE  KeepsRow(a)
<1>. DEFINE b == tx[p].appeal
<1>1. tx[p].pc = "holds" /\ UNCHANGED deleted /\ tx' = [tx EXCEPT ![p] = Idle]
  BY DEF StaffOperation, SetPriority, ReplyAndClose, Reply, Note, StaffMessage,
         ChangeStatus, Assign, AddCoexecutor, RejectRequest, RequestHelp, Holding, Commit
<1>2. TypeOK /\ a # b /\ b \in Appeals
  BY <1>1, PhaseMeansBusy, BusyHasFields DEF LockInv, LockFree
<1>3. ASSUME NEW to, NEW said, NEW touched, NEW items,
             Settle(p, to, said, touched, items)
      PROVE  status'[a] = status[a]
  BY <1>2, <1>3 DEF Settle, TypeOK
<1>4. ASSUME NEW rows, assigned' = [assigned EXCEPT ![b] = rows]
      PROVE  assigned'[a] = assigned[a]
  BY <1>2, <1>4 DEF TypeOK
<1>5. status'[a] = status[a]
  BY <1>3 DEF StaffOperation, SetPriority, ReplyAndClose, Reply, Note, StaffMessage,
         ChangeStatus, Assign, AddCoexecutor, RejectRequest, RequestHelp
<1>6. assigned'[a] = assigned[a]
  BY <1>4 DEF StaffOperation, SetPriority, ReplyAndClose, Reply, Note, StaffMessage,
         ChangeStatus, Assign, AddCoexecutor, RejectRequest, RequestHelp
<1> QED BY <1>1, <1>2, <1>5, <1>6, EndedElsewhere

\* The applicant's operations need the row too, or only refer to it.
LEMMA ApplicantKeepsRow ==
  ASSUME LockInv, NEW a \in Appeals, LockFree(a), ~TakesRow(a),
         NEW p \in Procs, ApplicantOperation(p)
  PROVE  KeepsRow(a)
<1>. DEFINE b == tx[p].appeal
<1>1. TypeOK BY DEF LockInv
<1>2. CASE CheckChatOpen(p)
  <2>1. UNCHANGED <<status, deleted, assigned>>
    BY <1>2 DEF CheckChatOpen, cases
  <2>2. tx[p] \in Transactions
    BY <1>1, <1>2, PhaseMeansBusy, BusyHasFields DEF CheckChatOpen
  <2>3. tx'[p].pc = "checked" /\ \A q \in Procs \ {p} : tx'[q] = tx[q]
    BY <1>1, <1>2, <2>2 DEF CheckChatOpen, TypeOK, Transactions
  <2> QED BY <2>1, <2>3 DEF KeepsRow, LockFree
<1>3. ASSUME NEW crisis \in BOOLEAN, AddApplicantMessage(p, crisis)
      PROVE  KeepsRow(a)
  BY <1>1, <1>3, EndedElsewhere DEF AddApplicantMessage, Commit
<1>4. ASSUME NEW r \in Requests, RequestReassignment(p, r)
      PROVE  KeepsRow(a)
  BY <1>1, <1>4, EndedElsewhere DEF RequestReassignment
<1>5. CASE OpenSession(p)
  BY <1>1, <1>5, EndedElsewhere DEF OpenSession
<1>6. CASE DeleteAppeal(p)
  <2>1. tx[p] # Idle BY <1>6, PhaseMeansBusy DEF DeleteAppeal
  <2>2. a # b BY <1>6, <2>1 DEF TakesRow
  <2>3. /\ status'[a] = status[a] /\ deleted'[a] = deleted[a]
        /\ assigned' = assigned /\ tx' = [tx EXCEPT ![p] = Idle]
    BY <1>1, <1>6, <2>2 DEF DeleteAppeal, Commit, TypeOK
  <2> QED BY <1>1, <2>3, EndedElsewhere
<1>7. ASSUME tx[p].pc = "holds", tx' = [tx EXCEPT ![p] = Idle], UNCHANGED deleted,
             NEW to, NEW items, Settle(p, to, {}, FALSE, items),
             \/ UNCHANGED assigned
             \/ assigned' = [assigned EXCEPT ![b] = {}]
      PROVE  KeepsRow(a)
  <2>1. a # b BY <1>7 DEF LockFree
  <2>2. status'[a] = status[a] /\ assigned'[a] = assigned[a]
    BY <1>1, <1>7, <2>1 DEF Settle, TypeOK
  <2> QED BY <1>1, <1>7, <2>2, EndedElsewhere
<1>8. ASSUME NEW to \in LiveStatuses, ApplicantStatus(p, to)
      PROVE  KeepsRow(a)
  BY <1>7, <1>8 DEF ApplicantStatus, Holding, Commit
<1>9. ASSUME NEW complaint \in BOOLEAN,
             ConfirmHelp(p, complaint) \/ RateOrComplain(p, complaint)
      PROVE  KeepsRow(a)
  BY <1>7, <1>9 DEF ConfirmHelp, RateOrComplain, Holding, Commit
<1>10. ASSUME NEW complaint \in BOOLEAN, ReturnAnswer(p, complaint)
       PROVE  KeepsRow(a)
  BY <1>7, <1>10 DEF ReturnAnswer, Holding, Commit
<1> QED
  BY <1>2, <1>3, <1>4, <1>5, <1>6, <1>8, <1>9, <1>10 DEF ApplicantOperation

\* A request that begins, or that locks another row, keeps this one.
LEMMA ReplacedElsewhere ==
  ASSUME NEW a \in Appeals, LockFree(a), NEW p \in Procs, TypeOK, NEW next,
         tx' = [tx EXCEPT ![p] = next], next.pc = "holds" => next.appeal # a,
         UNCHANGED cases
  PROVE  KeepsRow(a)
BY DEF TypeOK, KeepsRow, LockFree, cases

\* No step of Casework that stays beside the pages changes what they read.
LEMMA BesideKeepsRow ==
  ASSUME LockInv, NEW a \in Appeals, Exists(a), LockFree(a), ~TakesRow(a), [Next]_vars
  PROVE  KeepsRow(a)
<1>1. TypeOK BY DEF LockInv
<1>2. CASE UNCHANGED vars
  BY <1>2 DEF vars, KeepsRow, LockFree
<1>3. ASSUME NEW p \in Procs, Refuse(p) \/ Abort(p)
      PROVE  KeepsRow(a)
  BY <1>1, <1>3, EndedElsewhere DEF Refuse, Abort, cases
<1>4. ASSUME NEW p \in Procs, Acquire(p)
      PROVE  KeepsRow(a)
  <2>. DEFINE next == [tx[p] EXCEPT !.pc = "holds", !.seen = status[tx[p].appeal],
                                    !.counted = returns[tx[p].appeal]]
  <2>1. tx[p] # Idle /\ tx[p] \in Transactions
    BY <1>1, <1>4, PhaseMeansBusy, BusyHasFields DEF Acquire
  <2>2. tx[p].appeal # a BY <1>4, <2>1 DEF TakesRow
  <2>3. next.appeal # a BY <2>1, <2>2 DEF Transactions
  <2>4. tx' = [tx EXCEPT ![p] = next] /\ UNCHANGED cases BY <1>4 DEF Acquire
  <2>. HIDE DEF next
  <2> QED BY <1>1, <2>3, <2>4, ReplacedElsewhere
<1>5. ASSUME NEW p \in Procs, NEW u, NEW b, Begin(p, u, b) \/ Authenticate(p, b)
      PROVE  KeepsRow(a)
  BY <1>1, <1>5, ReplacedElsewhere DEF Begin, Authenticate
<1>6. ASSUME NEW b \in Appeals, NEW extras \in SUBSET Extras, CreateAppeal(b, extras)
      PROVE  KeepsRow(a)
  <2>1. b # a BY <1>6 DEF CreateAppeal
  <2>2. status'[a] = status[a] /\ UNCHANGED <<deleted, assigned, tx>>
    BY <1>1, <1>6, <2>1 DEF CreateAppeal, TypeOK
  <2> QED BY <2>2 DEF KeepsRow, LockFree
<1>7. ASSUME NEW b \in Appeals, SessionExpires(b) \/ Age(b)
      PROVE  KeepsRow(a)
  BY <1>7 DEF SessionExpires, Age, KeepsRow, LockFree
<1>8. ASSUME NEW S \in SUBSET Appeals, AutoClose(S)
      PROVE  KeepsRow(a)
  <2>1. a \notin S BY <1>8 DEF TakesRow
  <2> QED BY <1>8, <2>1 DEF AutoClose, KeepsRow, LockFree
<1> QED
  BY <1>2, <1>3, <1>4, <1>5, <1>6, <1>7, <1>8, StaffKeepRow, ApplicantKeepsRow
  DEF Next, ApiNext, Step, StaffOnly, WithApplicant

-----------------------------------------------------------------------------
\* Whatever the requests and the pages do next, ViewInv holds again.
LEMMA ViewInductive == ViewInv /\ [ViewNext]_viewVars => ViewInv'
<1>. SUFFICES ASSUME ViewInv, [ViewNext]_viewVars PROVE ViewInv'
  OBVIOUS
<1>1. [Next]_vars
  BY DEF ViewNext, ReadCanChat, CloseView, DropView, OpenView, viewVars
<1>2. LockInv' /\ TypeOK'
  BY <1>1, LockInductive DEF ViewInv, LockInv
<1>3. CASE UNCHANGED view /\ Beside
  <2>1. ASSUME NEW v \in Views, NEW u \in Staff, NEW a \in Appeals, Reading(v, u, a)
        PROVE  KeepsRow(a)
    <3>1. ~TakesRow(a) BY <1>3, <2>1 DEF Beside, Shared
    <3>2. Exists(a) /\ LockFree(a)
      BY <2>1 DEF ViewInv, ViewsOnRows, ViewStaysTrue
    <3> QED BY <1>1, <3>1, <3>2, BesideKeepsRow DEF ViewInv
  <2>2. ViewTypeOK' BY <1>2, <1>3 DEF ViewInv, ViewTypeOK
  <2>3. ViewsOnRows'
    BY <1>3, <2>1 DEF ViewInv, ViewsOnRows, Reading, Exists, KeepsRow
  <2>4. ViewStaysTrue'
    <3>. SUFFICES ASSUME NEW v \in Views, NEW u \in Staff, NEW a \in Appeals,
                         Reading(v, u, a)'
         PROVE  /\ Authorized(u, a)' /\ LockFree(a)'
                /\ view'[v].step = "answered" => view'[v].canChat = MaySeeChat(u, a)'
      BY DEF ViewStaysTrue
    <3>1. Reading(v, u, a) BY <1>3 DEF Reading
    <3>2. KeepsRow(a) BY <2>1, <3>1
    <3>3. /\ Authorized(u, a)
          /\ view[v].step = "answered" => view[v].canChat = MaySeeChat(u, a)
      BY <3>1 DEF ViewInv, ViewStaysTrue
    <3> QED BY <1>3, <3>2, <3>3
            DEF KeepsRow, LockFree, Authorized, AssignedTo, MaySeeChat, Responsible
  <2> QED BY <1>2, <2>2, <2>3, <2>4 DEF ViewInv
<1>4. ASSUME UNCHANGED vars, NEW v \in Views, NEW row, Sound(row),
             row \in Readers \cup {Unread}, view' = [view EXCEPT ![v] = row]
      PROVE  ViewInv'
  <2>2. \A w \in Views : view'[w] = IF w = v THEN row ELSE view[w]
    BY <1>4 DEF ViewInv, ViewTypeOK
  <2>3. ViewTypeOK' BY <1>2, <1>4 DEF ViewInv, ViewTypeOK
  <2>4. /\ \A a, u : Authorized(u, a)' <=> Authorized(u, a)
        /\ \A a : LockFree(a)' <=> LockFree(a)
        /\ \A a : Exists(a)' <=> Exists(a)
        /\ \A a, u : MaySeeChat(u, a)' = MaySeeChat(u, a)
    BY <1>4 DEF vars, Authorized, AssignedTo, LockFree, Exists, MaySeeChat, Responsible
  <2>5. ViewsOnRows' /\ ViewStaysTrue'
    BY <1>4, <2>2, <2>4 DEF ViewInv, ViewStaysTrue, ViewsOnRows, Reading, Sound
  <2> QED BY <1>2, <2>3, <2>5 DEF ViewInv
<1>5. CASE UNCHANGED viewVars
  <2>1. UNCHANGED view /\ UNCHANGED vars BY <1>5 DEF viewVars
  <2>2. /\ \A a, u : Authorized(u, a)' <=> Authorized(u, a)
        /\ \A a : LockFree(a)' <=> LockFree(a)
        /\ \A a : Exists(a)' <=> Exists(a)
        /\ \A a, u : MaySeeChat(u, a)' = MaySeeChat(u, a)
    BY <2>1 DEF vars, Authorized, AssignedTo, LockFree, Exists, MaySeeChat, Responsible
  <2> QED BY <1>2, <2>1, <2>2
          DEF ViewInv, ViewTypeOK, ViewStaysTrue, ViewsOnRows, Reading
<1>6. ASSUME NEW v \in Views, NEW u \in Staff, NEW a \in Appeals, OpenView(v, u, a)
      PROVE  ViewInv'
  <2>. DEFINE row == [step |-> "authorized", who |-> u, appeal |-> a, canChat |-> FALSE]
  <2>1. /\ row \in Readers /\ row.step # "answered" /\ row.who = u /\ row.appeal = a
    BY DEF Readers
  <2>2. view' = [view EXCEPT ![v] = row] /\ UNCHANGED vars BY <1>6 DEF OpenView
  <2>3. Exists(a) /\ Authorized(u, a) /\ LockFree(a) BY <1>6 DEF OpenView
  <2>. HIDE DEF row
  <2>4. Sound(row) BY <2>1, <2>3 DEF Sound
  <2> QED BY <1>4, <2>1, <2>2, <2>4
<1>7. ASSUME NEW v \in Views, ReadCanChat(v)
      PROVE  ViewInv'
  <2>. DEFINE row == [view[v] EXCEPT !.step = "answered",
                        !.canChat = MaySeeChat(view[v].who, view[v].appeal)]
  <2>1. view[v] \in Readers /\ view[v] # Unread
    BY <1>7 DEF ReadCanChat, ViewInv, ViewTypeOK
  <2>2. MaySeeChat(view[v].who, view[v].appeal) \in BOOLEAN BY DEF MaySeeChat
  <2>3. /\ row \in Readers /\ row.who = view[v].who /\ row.appeal = view[v].appeal
        /\ row.canChat = MaySeeChat(view[v].who, view[v].appeal)
    BY <2>1, <2>2 DEF Readers
  <2>4. view' = [view EXCEPT ![v] = row] /\ UNCHANGED vars BY <1>7 DEF ReadCanChat
  <2>. HIDE DEF row
  <2>5. Sound(row)
    BY <2>1, <2>3 DEF Sound, ViewInv, ViewStaysTrue, ViewsOnRows, Reading
  <2> QED BY <1>4, <2>3, <2>4, <2>5
<1>8. ASSUME NEW v \in Views, CloseView(v) \/ DropView(v)
      PROVE  ViewInv'
  <2>1. UNCHANGED vars /\ view' = [view EXCEPT ![v] = Unread]
    BY <1>8 DEF CloseView, DropView
  <2>2. Sound(Unread) BY DEF Sound
  <2> QED BY <1>4, <2>1, <2>2
<1> QED BY <1>3, <1>5, <1>6, <1>7, <1>8 DEF ViewNext

\* Before anybody reads it holds.
LEMMA ViewInitially == ViewInit => ViewInv
BY LockInitially
   DEF ViewInit, ViewInv, LockInv, ViewTypeOK, ViewStaysTrue, ViewsOnRows, Reading

\* Every page of a case shows one state of it, the one its reader may see.
THEOREM PagesShowOneState == ViewSpec => [](ViewTypeOK /\ ViewStaysTrue)
<1>1. ViewInv => ViewTypeOK /\ ViewStaysTrue BY DEF ViewInv
<1> QED BY <1>1, ViewInitially, ViewInductive, PTL DEF ViewSpec

\* CaseDetail changes nothing and lets requests wait: what happens to the cases
\* beside the pages is what happens without them, so that every theorem about Spec
\* holds of ViewSpec.
THEOREM PagesDisturbNoCase == ViewSpec => Spec
<1>1. ViewInit => Init BY DEF ViewInit
<1>2. [ViewNext]_viewVars => [Next]_vars
  BY DEF ViewNext, viewVars, ReadCanChat, CloseView, DropView, OpenView
<1> QED BY <1>1, <1>2, PTL DEF ViewSpec, Spec
=============================================================================
