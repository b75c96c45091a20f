--------------------------- MODULE CaseworkProofs ---------------------------
(***************************************************************************)
(* Theorems about Casework, for any number of appeals, accounts, request   *)
(* rows and concurrent requests.                                           *)
(***************************************************************************)
EXTENDS Casework, TLAPS

Authors == {"APPLICANT", "OPERATOR", "EXPERT"}

-----------------------------------------------------------------------------
(***************************************************************************)
(* What the helpers of the operations write.                               *)
(***************************************************************************)
\* A request that is not idle has its fields.
LEMMA BusyHasFields ==
  ASSUME TypeOK, NEW p \in Procs, tx[p] # Idle
  PROVE  /\ tx[p] \in Transactions
         /\ tx[p].appeal \in Appeals /\ tx[p].who \in Users
         /\ tx[p].seen \in Statuses /\ tx[p].counted \in Nat
BY DEF TypeOK, Transactions

\* A request with a phase of its own is not idle.
LEMMA PhaseMeansBusy ==
  ASSUME NEW p \in Procs,
         tx[p].pc \in {"begun", "holds", "checked", "authenticated"}
  PROVE  tx[p] # Idle
BY DEF Idle

\* Commit leaves a well-formed outbox and set of requests.
LEMMA CommitTypes ==
  ASSUME TypeOK, NEW p \in Procs, tx[p] # Idle, NEW type \in EventTypes,
         Commit(p, type)
  PROVE  /\ outbox' \in SUBSET (EventTypes \X Appeals)
         /\ tx' \in [Procs -> Transactions \cup {Idle}]
<1>1. tx[p].appeal \in Appeals BY BusyHasFields
<1>2. <<type, tx[p].appeal>> \in EventTypes \X Appeals BY <1>1
<1>3. outbox' \in SUBSET (EventTypes \X Appeals)
  BY <1>2 DEF Commit, Write, TypeOK
<1>4. tx' \in [Procs -> Transactions \cup {Idle}]
  BY DEF Commit, TypeOK
<1> QED BY <1>3, <1>4

\* An expert who joins an appeal leaves well-formed assignments.
LEMMA JoinTypes ==
  ASSUME TypeOK, NEW a \in Appeals, NEW e \in Experts, NEW kind \in Kinds
  PROVE  Join(a, e, kind) \in SUBSET Assignments
<1>. DEFINE row == [expert |-> e, kind |-> kind]
<1>1. row \in Assignments BY DEF Assignments
<1>2. assigned[a] \subseteq Assignments BY DEF TypeOK
<1>. HIDE DEF row
<1>3. {x \in assigned[a] : /\ x.expert # e
                           /\ kind = "RESPONSIBLE" => x.kind # "RESPONSIBLE"}
        \cup {row} \subseteq Assignments
  BY <1>1, <1>2
<1> QED BY <1>3 DEF Join, row

\* Settle leaves well-formed columns.
LEMMA SettleTypes ==
  ASSUME TypeOK, NEW p \in Procs, tx[p] # Idle, NEW to \in Statuses,
         NEW said, said \subseteq Authors \/ to # tx[p].seen,
         NEW touched \in BOOLEAN, NEW items,
         Settle(p, to, said, touched, items)
  PROVE  /\ status' \in [Appeals -> Statuses]
         /\ history' \in [Appeals -> [from : Statuses, to : Statuses]]
         /\ chat' \in [Appeals -> SUBSET Authors]
         /\ quiet' \in [Appeals -> BOOLEAN]
         /\ data' \in [Appeals -> SUBSET Tracked]
<1>1. tx[p].appeal \in Appeals /\ tx[p].seen \in Statuses BY BusyHasFields
<1>2. status' \in [Appeals -> Statuses]
  BY <1>1 DEF Settle, TypeOK
<1>3. history' \in [Appeals -> [from : Statuses, to : Statuses]]
  BY <1>1 DEF Settle, HistoryRow, TypeOK
<1>4. chat' \in [Appeals -> SUBSET Authors]
  BY <1>1 DEF Settle, ChatBeforeRow, TypeOK, Authors
<1>5. quiet' \in [Appeals -> BOOLEAN]
  BY <1>1 DEF Settle, TypeOK
<1>6. data' \in [Appeals -> SUBSET Tracked]
  BY <1>1 DEF Settle, Keep, TypeOK
<1> QED BY <1>2, <1>3, <1>4, <1>5, <1>6

\* The rest of the state is typed when an operation ends as most of them do:
\* with Settle, Commit and well-formed assignments, requests and counts.
LEMMA OperationTypes ==
  ASSUME TypeOK, NEW p \in Procs, tx[p] # Idle, NEW to \in Statuses,
         NEW said, said \subseteq Authors \/ to # tx[p].seen,
         NEW touched \in BOOLEAN, NEW items, NEW type \in EventTypes,
         Settle(p, to, said, touched, items), Commit(p, type),
         UNCHANGED <<deleted, sessions>>,
         returns' \in [Appeals -> Nat],
         assigned' \in [Appeals -> SUBSET Assignments],
         requests' \in [Requests -> RequestRows \cup {NoRow}]
  PROVE  TypeOK'
<1>1. /\ outbox' \in SUBSET (EventTypes \X Appeals)
      /\ tx' \in [Procs -> Transactions \cup {Idle}]
  BY CommitTypes
<1>2. /\ status' \in [Appeals -> Statuses]
      /\ history' \in [Appeals -> [from : Statuses, to : Statuses]]
      /\ chat' \in [Appeals -> SUBSET Authors]
      /\ quiet' \in [Appeals -> BOOLEAN]
      /\ data' \in [Appeals -> SUBSET Tracked]
  BY SettleTypes
<1>3. deleted' \in [Appeals -> BOOLEAN] /\ sessions' \in [Appeals -> BOOLEAN]
  BY DEF TypeOK
<1> QED BY <1>1, <1>2, <1>3 DEF TypeOK, Authors

\* Approving a request keeps the table of requests well formed.
LEMMA ApproveTypes ==
  ASSUME TypeOK, NEW r, NEW a, NEW kind, Answers(r, a, kind), Approve(r)
  PROVE  requests' \in [Requests -> RequestRows \cup {NoRow}]
<1>1. CASE r = NoRequest
  BY <1>1 DEF Approve, TypeOK
<1>2. CASE r # NoRequest
  <2>1. r \in Requests /\ requests[r] \in RequestRows
    BY <1>2 DEF Answers, TypeOK
  <2>2. [requests[r] EXCEPT !.state = "APPROVED"] \in RequestRows
    BY <2>1 DEF RequestRows
  <2> QED BY <1>2, <2>1, <2>2 DEF Approve, TypeOK
<1> QED BY <1>1, <1>2

-----------------------------------------------------------------------------
(***************************************************************************)
(* Type correctness.                                                       *)
(***************************************************************************)

\* The staff's operations keep the state well formed.
LEMMA StaffTypes ==
  ASSUME TypeOK, NEW p \in Procs, StaffOperation(p)
  PROVE  TypeOK'
<1>0. /\ tx[p].pc = "holds" => tx[p] # Idle
      /\ tx[p] # Idle => tx[p].appeal \in Appeals /\ tx[p].seen \in Statuses
  BY BusyHasFields DEF Idle
<1>. USE <1>0
<1>e. {"appeal.status_changed", "appeal.message_added"} \subseteq EventTypes
  BY DEF EventTypes
<1>s. /\ "ASSIGNED" \in Statuses /\ "COMPLETED" \in Statuses
      /\ LiveStatuses \subseteq Statuses
  BY DEF Statuses, LiveStatuses
<1>u. /\ returns \in [Appeals -> Nat]
      /\ assigned \in [Appeals -> SUBSET Assignments]
      /\ requests \in [Requests -> RequestRows \cup {NoRow}]
  BY DEF TypeOK
<1>1. CASE SetPriority(p)
  BY <1>1, <1>e, <1>u, OperationTypes DEF SetPriority, Holding
<1>2. CASE ReplyAndClose(p)
  BY <1>2, <1>e, <1>s, <1>u, OperationTypes DEF ReplyAndClose, Holding
<1>3. CASE Reply(p)
  <2>1. {"EXPERT"} \subseteq Authors BY DEF Authors
  <2> QED BY <1>3, <2>1, <1>e, <1>u, OperationTypes DEF Reply, Holding
<1>4. CASE Note(p)
  BY <1>4, <1>e, <1>u, OperationTypes DEF Note, Holding
<1>5. CASE StaffMessage(p)
  <2>1. {Role(tx[p].who)} \subseteq Authors
    BY <1>5 DEF StaffMessage, Holding, Authors
  <2> QED BY <1>5, <2>1, <1>e, <1>u, OperationTypes DEF StaffMessage, Holding
<1>6. ASSUME NEW to \in LiveStatuses, ChangeStatus(p, to)
      PROVE  TypeOK'
  BY <1>6, <1>e, <1>s, <1>u, OperationTypes DEF ChangeStatus, Holding
<1>7. ASSUME NEW e \in Experts, NEW r \in Requests \cup {NoRequest}, Assign(p, e, r)
      PROVE  TypeOK'
  <2>1. requests' \in [Requests -> RequestRows \cup {NoRow}]
    BY <1>7, ApproveTypes DEF Assign
  <2>2. assigned' \in [Appeals -> SUBSET Assignments]
    <3>1. Join(tx[p].appeal, e, "RESPONSIBLE") \in SUBSET Assignments
      BY <1>7, <1>u, JoinTypes DEF Kinds, Assign, Holding
    <3> QED BY <1>7, <3>1, <1>u DEF Assign, TypeOK
  <2> QED BY <1>7, <2>1, <2>2, <1>e, <1>s, <1>u, OperationTypes DEF Assign, Holding
<1>8. ASSUME NEW e \in Experts, NEW r \in Requests \cup {NoRequest},
             AddCoexecutor(p, e, r)
      PROVE  TypeOK'
  <2>1. requests' \in [Requests -> RequestRows \cup {NoRow}]
    BY <1>8, ApproveTypes DEF AddCoexecutor
  <2>2. assigned' \in [Appeals -> SUBSET Assignments]
    <3>1. Join(tx[p].appeal, e, "COEXECUTOR") \in SUBSET Assignments
      BY <1>8, <1>u, JoinTypes DEF Kinds, AddCoexecutor, Holding
    <3> QED BY <1>8, <3>1, <1>u DEF AddCoexecutor, TypeOK
  <2> QED BY <1>8, <2>1, <2>2, <1>e, <1>u, OperationTypes DEF AddCoexecutor, Holding
<1>9. ASSUME NEW r \in Requests, RejectRequest(p, r)
      PROVE  TypeOK'
  <2>1. requests[r] \in RequestRows BY <1>9, <1>u DEF RejectRequest
  <2>2. [requests[r] EXCEPT !.state = "REJECTED"] \in RequestRows
    BY <2>1 DEF RequestRows
  <2>3. requests' \in [Requests -> RequestRows \cup {NoRow}]
    BY <1>9, <2>2, <1>u DEF RejectRequest
  <2> QED BY <1>9, <2>3, <1>e, <1>u, OperationTypes DEF RejectRequest, Holding
<1>10. ASSUME NEW kind \in RequestKinds, NEW r \in Requests, RequestHelp(p, kind, r)
       PROVE  TypeOK'
  <2>1. requests' \in [Requests -> RequestRows \cup {NoRow}]
    BY <1>10, <1>u DEF RequestHelp, Insert, RequestRows, Holding
  <2> QED BY <1>10, <2>1, <1>e, <1>u, OperationTypes DEF RequestHelp, Holding
<1> QED
  BY <1>1, <1>2, <1>3, <1>4, <1>5, <1>6, <1>7, <1>8, <1>9, <1>10 DEF StaffOperation

\* The applicant's operations keep the state well formed.
LEMMA ApplicantTypes ==
  ASSUME TypeOK, NEW p \in Procs, ApplicantOperation(p)
  PROVE  TypeOK'
<1>0. /\ tx[p].pc \in {"begun", "holds", "checked", "authenticated"} => tx[p] # Idle
      /\ tx[p] # Idle => /\ tx[p].appeal \in Appeals /\ tx[p].seen \in Statuses
                         /\ tx[p] \in Transactions
  BY BusyHasFields, PhaseMeansBusy
<1>. USE <1>0
<1>e. /\ "appeal.status_changed" \in EventTypes /\ "appeal.message_added" \in EventTypes
      /\ "appeal.deletion_requested" \in EventTypes
  BY DEF EventTypes
<1>s. /\ "RETURNED" \in Statuses /\ "COMPLETED" \in Statuses
      /\ "DELETED" \in Statuses /\ LiveStatuses \subseteq Statuses
  BY DEF Statuses, LiveStatuses
<1>u. /\ returns \in [Appeals -> Nat]
      /\ assigned \in [Appeals -> SUBSET Assignments]
      /\ requests \in [Requests -> RequestRows \cup {NoRow}]
  BY DEF TypeOK
<1>1. ASSUME NEW to \in LiveStatuses, ApplicantStatus(p, to)
      PROVE  TypeOK'
  BY <1>1, <1>e, <1>s, <1>u, OperationTypes DEF ApplicantStatus, Holding
<1>2. ASSUME NEW complaint \in BOOLEAN, ConfirmHelp(p, complaint)
      PROVE  TypeOK'
  BY <1>2, <1>e, <1>s, <1>u, OperationTypes DEF ConfirmHelp, Holding
<1>3. ASSUME NEW complaint \in BOOLEAN, ReturnAnswer(p, complaint)
      PROVE  TypeOK'
  <2>1. tx[p].appeal \in Appeals BY <1>3 DEF ReturnAnswer, Holding
  <2>2. returns' \in [Appeals -> Nat] BY <1>3, <2>1, <1>u DEF ReturnAnswer
  <2>3. assigned' \in [Appeals -> SUBSET Assignments] BY <1>3, <1>u DEF ReturnAnswer
  <2> QED BY <1>3, <2>2, <2>3, <1>e, <1>s, <1>u, OperationTypes DEF ReturnAnswer, Holding
<1>4. ASSUME NEW complaint \in BOOLEAN, RateOrComplain(p, complaint)
      PROVE  TypeOK'
  BY <1>4, <1>e, <1>u, OperationTypes DEF RateOrComplain, Holding
<1>5. CASE CheckChatOpen(p)
  <2>1. status[tx[p].appeal] \in Statuses /\ tx[p] \in Transactions
    BY <1>5 DEF CheckChatOpen, TypeOK
  <2>2. [tx[p] EXCEPT !.pc = "checked", !.seen = status[tx[p].appeal]] \in Transactions
    BY <2>1 DEF Transactions
  <2> QED BY <1>5, <2>2 DEF CheckChatOpen, cases, TypeOK
<1>6. ASSUME NEW crisis \in BOOLEAN, AddApplicantMessage(p, crisis)
      PROVE  TypeOK'
  <2>1. tx[p] # Idle BY <1>6 DEF AddApplicantMessage
  <2>2. /\ outbox' \in SUBSET (EventTypes \X Appeals)
        /\ tx' \in [Procs -> Transactions \cup {Idle}]
    BY <1>6, <1>e, <2>1, CommitTypes DEF AddApplicantMessage
  <2>3. data' \in [Appeals -> SUBSET Tracked]
    BY <1>6, <2>1 DEF AddApplicantMessage, Keep, TypeOK
  <2> QED BY <1>6, <2>1, <2>2, <2>3 DEF AddApplicantMessage, TypeOK
<1>7. ASSUME NEW r \in Requests, RequestReassignment(p, r)
      PROVE  TypeOK'
  <2>1. tx[p] # Idle BY <1>7 DEF RequestReassignment
  <2>2. requests' \in [Requests -> RequestRows \cup {NoRow}]
    BY <1>7, <2>1, <1>u DEF RequestReassignment, Insert, RequestRows, RequestKinds
  <2> QED BY <1>7, <2>2 DEF RequestReassignment, TypeOK
<1>8. CASE DeleteAppeal(p)
  <2>1. tx[p] # Idle BY <1>8 DEF DeleteAppeal
  <2>2. /\ outbox' \in SUBSET (EventTypes \X Appeals)
        /\ tx' \in [Procs -> Transactions \cup {Idle}]
    BY <1>8, <1>e, <2>1, CommitTypes DEF DeleteAppeal
  <2>3. requests' \in [Requests -> RequestRows \cup {NoRow}]
    BY <1>8, <1>u DEF DeleteAppeal
  <2>4. status' \in [Appeals -> Statuses]
    BY <1>8, <1>s, <2>1 DEF DeleteAppeal, TypeOK
  <2> QED BY <1>8, <2>1, <2>2, <2>3, <2>4 DEF DeleteAppeal, TypeOK
<1>9. CASE OpenSession(p)
  <2>1. tx[p] # Idle BY <1>9 DEF OpenSession
  <2> QED BY <1>9, <2>1 DEF OpenSession, TypeOK
<1> QED
  BY <1>1, <1>2, <1>3, <1>4, <1>5, <1>6, <1>7, <1>8, <1>9 DEF ApplicantOperation

\* How requests begin and end, time and the worker keep the state well formed.
LEMMA EnvironmentTypes ==
  ASSUME TypeOK,
         \/ \E p \in Procs : Acquire(p) \/ Refuse(p) \/ Abort(p)
         \/ \E p \in Procs, u \in Users, a \in Appeals : Begin(p, u, a)
         \/ \E p \in Procs, a \in Appeals : Authenticate(p, a)
         \/ \E a \in Appeals : SessionExpires(a) \/ Age(a)
         \/ \E a \in Appeals, extras \in SUBSET Extras : CreateAppeal(a, extras)
         \/ \E S \in SUBSET Appeals : AutoClose(S)
  PROVE  TypeOK'
<1>1. ASSUME NEW p \in Procs, Acquire(p)
      PROVE  TypeOK'
  <2>1. tx[p] \in Transactions /\ tx[p].appeal \in Appeals
    BY <1>1, PhaseMeansBusy, BusyHasFields DEF Acquire
  <2>2. status[tx[p].appeal] \in Statuses /\ returns[tx[p].appeal] \in Nat
    BY <2>1 DEF TypeOK
  <2>3. [tx[p] EXCEPT !.pc = "holds", !.seen = status[tx[p].appeal],
                      !.counted = returns[tx[p].appeal]] \in Transactions
    BY <2>1, <2>2 DEF Transactions
  <2> QED BY <1>1, <2>3 DEF Acquire, cases, TypeOK
<1>2. ASSUME NEW p \in Procs, Refuse(p) \/ Abort(p)
      PROVE  TypeOK'
  BY <1>2 DEF Refuse, Abort, cases, TypeOK
<1>3. ASSUME NEW p \in Procs, NEW u \in Users, NEW a \in Appeals, Begin(p, u, a)
      PROVE  TypeOK'
  <2>1. [pc |-> "begun", who |-> u, appeal |-> a, seen |-> "NONE", counted |-> 0]
          \in Transactions
    BY DEF Transactions, Statuses
  <2> QED BY <1>3, <2>1 DEF Begin, cases, TypeOK
<1>4. ASSUME NEW p \in Procs, NEW a \in Appeals, Authenticate(p, a)
      PROVE  TypeOK'
  <2>1. [pc |-> "authenticated", who |-> Applicant, appeal |-> a, seen |-> "NONE",
         counted |-> 0] \in Transactions
    BY DEF Transactions, Statuses, Users
  <2> QED BY <1>4, <2>1 DEF Authenticate, cases, TypeOK
<1>5. ASSUME NEW a \in Appeals, SessionExpires(a) \/ Age(a)
      PROVE  TypeOK'
  BY <1>5 DEF SessionExpires, Age, TypeOK
<1>6. ASSUME NEW a \in Appeals, NEW extras \in SUBSET Extras, CreateAppeal(a, extras)
      PROVE  TypeOK'
  <2>1. "NEW" \in Statuses /\ "NONE" \in Statuses
    BY DEF Statuses, LiveStatuses
  <2>2. outbox' \in SUBSET (EventTypes \X Appeals)
    BY <1>6 DEF CreateAppeal, Write, EventTypes, TypeOK
  <2>3. data' \in [Appeals -> SUBSET Tracked]
    BY <1>6 DEF CreateAppeal, Keep, TypeOK
  <2> QED BY <1>6, <2>1, <2>2, <2>3 DEF CreateAppeal, HistoryRow, TypeOK
<1>7. ASSUME NEW S \in SUBSET Appeals, AutoClose(S)
      PROVE  TypeOK'
  <2>1. "CLOSED_NO_RESPONSE" \in Statuses /\ "WAITING_FOR_APPLICANT" \in Statuses
    BY DEF Statuses, LiveStatuses
  <2>2. outbox' \in SUBSET (EventTypes \X Appeals)
    <3>1. {"appeal.status_changed"} \X S \subseteq EventTypes \X Appeals
      BY DEF EventTypes
    <3> QED BY <1>7, <3>1 DEF AutoClose, TypeOK
  <2>3. data' \in [Appeals -> SUBSET Tracked]
    BY <1>7 DEF AutoClose, TypeOK
  <2> QED BY <1>7, <2>1, <2>2, <2>3 DEF AutoClose, HistoryRow, TypeOK
<1> QED BY <1>1, <1>2, <1>3, <1>4, <1>5, <1>6, <1>7

\* Every step keeps the state well formed.
LEMMA TypeInductive == TypeOK /\ [Next]_vars => TypeOK'
<1>. SUFFICES ASSUME TypeOK, [Next]_vars PROVE TypeOK'
  OBVIOUS
<1>1. CASE UNCHANGED vars
  BY <1>1 DEF vars, TypeOK
<1>2. CASE Next
  <2>1. ASSUME NEW p \in Procs, NEW u \in Staff, NEW a \in Appeals,
               StaffOnly(p, u, a)
        PROVE  TypeOK'
    BY <2>1, EnvironmentTypes DEF StaffOnly, Users
  <2>2. ASSUME NEW p \in Procs, NEW a \in Appeals, WithApplicant(p, a)
        PROVE  TypeOK'
    BY <2>2, EnvironmentTypes DEF WithApplicant, Users
  <2> QED
    BY <1>2, <2>1, <2>2, StaffTypes, ApplicantTypes, EnvironmentTypes DEF Next, ApiNext, Step
<1> QED BY <1>1, <1>2

\* The state of Casework is well formed in every run.
THEOREM TypeCorrect == Spec => []TypeOK
<1>1. Init => TypeOK
  BY DEF Init, TypeOK, Statuses
<1> QED BY <1>1, TypeInductive, PTL DEF Spec

-----------------------------------------------------------------------------
(***************************************************************************)
(* The row lock.                                                           *)
(***************************************************************************)

\* A request that is under way is about an appeal that has a row.
BusyOnRows == \A p \in Procs : tx[p] # Idle => Exists(tx[p].appeal)

\* The inductive invariant behind ReadsStayTrue: a status read under the lock is
\* a live one because deleted_at and the status agree, and because the middleware
\* lets no request begin on an appeal that has no row.
LockInv == TypeOK /\ ReadsStayTrue /\ DeletionIsWhole /\ BusyOnRows

\* A transaction that ends, and wrote only to the row of an appeal nobody else
\* holds, leaves true what all the others have read.
LEMMA OthersUndisturbed ==
  ASSUME TypeOK, ReadsStayTrue, NEW p \in Procs, NEW a \in Appeals,
         tx' = [tx EXCEPT ![p] = Idle],
         \A q \in Procs \ {p} : tx[q].pc = "holds" => tx[q].appeal # a,
         \A b \in Appeals \ {a} :
           /\ status'[b] = status[b] /\ deleted'[b] = deleted[b]
           /\ returns'[b] = returns[b] /\ assigned'[b] = assigned[b]
  PROVE  ReadsStayTrue'
<1>1. \A q \in Procs : tx'[q].pc = "holds" => q # p /\ tx'[q] = tx[q]
  BY DEF TypeOK, Idle
<1>2. SUFFICES ASSUME NEW q \in Procs, q # p, tx[q].pc = "holds", tx'[q] = tx[q]
      PROVE  LET b == tx[q].appeal IN
             /\ \A r \in Procs : tx'[r].pc = "holds" /\ tx'[r].appeal = b => r = q
             /\ status'[b] = tx[q].seen /\ tx[q].seen \in LiveStatuses
             /\ returns'[b] = tx[q].counted
             /\ ~deleted'[b]
             /\ tx[q].who \in Experts => tx[q].who \in {x.expert : x \in assigned'[b]}
  BY <1>1 DEF ReadsStayTrue, Authorized, AssignedTo
<1>3. tx[q].appeal \in Appeals \ {a}
  BY <1>2, PhaseMeansBusy, BusyHasFields
<1>4. \A r \in Procs : tx'[r].pc = "holds" /\ tx'[r].appeal = tx[q].appeal => r = q
  BY <1>1, <1>2 DEF ReadsStayTrue
<1> QED BY <1>2, <1>3, <1>4 DEF ReadsStayTrue, Authorized, AssignedTo

\* Every operation under the row lock that ends with Settle keeps LockInv.
LEMMA HolderKeepsLockInv ==
  ASSUME LockInv, TypeOK', NEW p \in Procs, tx[p].pc = "holds",
         NEW to \in LiveStatuses, NEW said, NEW touched, NEW items, NEW type,
         Settle(p, to, said, touched, items), Commit(p, type),
         UNCHANGED deleted,
         \A b \in Appeals \ {tx[p].appeal} :
           returns'[b] = returns[b] /\ assigned'[b] = assigned[b]
  PROVE  LockInv'
<1>. DEFINE a == tx[p].appeal
<1>1. a \in Appeals /\ tx[p] # Idle /\ tx[p].seen \in Statuses
  BY PhaseMeansBusy, BusyHasFields DEF LockInv
<1>2. /\ tx' = [tx EXCEPT ![p] = Idle]
      /\ \A b \in Appeals \ {a} : status'[b] = status[b]
      /\ status'[a] \in {to, status[a]}
  BY <1>1 DEF Commit, Settle, LockInv, TypeOK
<1>3. /\ \A q \in Procs \ {p} : tx[q].pc = "holds" => tx[q].appeal # a
      /\ status[a] \in LiveStatuses /\ ~deleted[a]
  BY DEF LockInv, ReadsStayTrue, Authorized
<1>4. ReadsStayTrue'
  <2>1. \A b \in Appeals \ {a} :
          /\ status'[b] = status[b] /\ deleted'[b] = deleted[b]
          /\ returns'[b] = returns[b] /\ assigned'[b] = assigned[b]
    BY <1>2
  <2> QED BY <1>1, <1>2, <1>3, <2>1, OthersUndisturbed DEF LockInv
<1>5. status'[a] \notin {"NONE", "DELETED"}
  BY <1>2, <1>3 DEF LiveStatuses
<1>6. DeletionIsWhole'
  BY <1>1, <1>2, <1>3, <1>5 DEF LockInv, DeletionIsWhole
<1>7. BusyOnRows'
  <2>. SUFFICES ASSUME NEW q \in Procs, tx'[q] # Idle
       PROVE  status'[tx'[q].appeal] # "NONE"
    BY DEF BusyOnRows, Exists
  <2>1. tx'[q] = tx[q] /\ tx[q] # Idle BY <1>2 DEF LockInv, TypeOK
  <2>2. tx[q].appeal \in Appeals BY <2>1, BusyHasFields DEF LockInv
  <2> QED BY <1>2, <1>5, <2>1, <2>2 DEF LockInv, BusyOnRows, Exists
<1> QED BY <1>4, <1>6, <1>7 DEF LockInv

\* The staff's operations keep LockInv.
LEMMA StaffKeepsLockInv ==
  ASSUME LockInv, NEW p \in Procs, StaffOperation(p)
  PROVE  LockInv'
<1>1. TypeOK' BY StaffTypes DEF LockInv
<1>2. tx[p].pc = "holds" /\ tx[p].seen \in LiveStatuses
  BY DEF StaffOperation, SetPriority, ReplyAndClose, Reply, Note, StaffMessage,
         ChangeStatus, Assign, AddCoexecutor, RejectRequest, RequestHelp, Holding,
         LockInv, ReadsStayTrue
<1>3. "ASSIGNED" \in LiveStatuses /\ "COMPLETED" \in LiveStatuses
  BY DEF LiveStatuses
<1>4. ASSUME NEW a \in Appeals, NEW rows, assigned' = [assigned EXCEPT ![a] = rows]
      PROVE  \A b \in Appeals \ {a} : assigned'[b] = assigned[b]
  BY <1>4 DEF LockInv, TypeOK
<1>5. tx[p].appeal \in Appeals
  BY <1>2, PhaseMeansBusy, BusyHasFields DEF LockInv
<1>. USE <1>1, <1>2, <1>3, HolderKeepsLockInv
<1>6. CASE SetPriority(p)   BY <1>6 DEF SetPriority
<1>7. CASE ReplyAndClose(p) BY <1>7 DEF ReplyAndClose
<1>8. CASE Reply(p)         BY <1>8 DEF Reply
<1>9. CASE Note(p)          BY <1>9 DEF Note
<1>10. CASE StaffMessage(p) BY <1>10 DEF StaffMessage
<1>11. ASSUME NEW to \in LiveStatuses, ChangeStatus(p, to)
       PROVE  LockInv'
  BY <1>11 DEF ChangeStatus
<1>12. ASSUME NEW e \in Experts, NEW r \in Requests \cup {NoRequest}, Assign(p, e, r)
       PROVE  LockInv'
  <2>1. \A b \in Appeals \ {tx[p].appeal} : assigned'[b] = assigned[b]
    BY <1>4, <1>5, <1>12 DEF Assign
  <2> QED BY <1>12, <2>1 DEF Assign
<1>13. ASSUME NEW e \in Experts, NEW r \in Requests \cup {NoRequest},
              AddCoexecutor(p, e, r)
       PROVE  LockInv'
  <2>1. \A b \in Appeals \ {tx[p].appeal} : assigned'[b] = assigned[b]
    BY <1>4, <1>5, <1>13 DEF AddCoexecutor
  <2> QED BY <1>13, <2>1 DEF AddCoexecutor
<1>14. ASSUME NEW r \in Requests, RejectRequest(p, r)
       PROVE  LockInv'
  BY <1>14 DEF RejectRequest
<1>15. ASSUME NEW kind \in RequestKinds, NEW r \in Requests, RequestHelp(p, kind, r)
       PROVE  LockInv'
  BY <1>15 DEF RequestHelp
<1> QED
  BY <1>6, <1>7, <1>8, <1>9, <1>10, <1>11, <1>12, <1>13, <1>14, <1>15
  DEF StaffOperation

\* A step that ends one request or moves it on without the lock, and changes no
\* column the lock protects, keeps LockInv.
LEMMA UnlockedKeepsLockInv ==
  ASSUME LockInv, TypeOK', NEW p \in Procs, NEW next,
         next.pc # "holds",
         next # Idle => next.appeal \in Appeals /\ Exists(next.appeal),
         tx' = [tx EXCEPT ![p] = next],
         UNCHANGED <<status, deleted, returns, assigned>>
  PROVE  LockInv'
<1>1. \A q \in Procs : tx'[q].pc = "holds" => tx'[q] = tx[q]
  BY DEF LockInv, TypeOK
<1>2. ReadsStayTrue'
  BY <1>1 DEF LockInv, ReadsStayTrue, Authorized, AssignedTo
<1>3. BusyOnRows'
  BY DEF LockInv, TypeOK, BusyOnRows, Exists
<1> QED BY <1>2, <1>3 DEF LockInv, DeletionIsWhole

\* The applicant's operations keep LockInv.
LEMMA ApplicantKeepsLockInv ==
  ASSUME LockInv, NEW p \in Procs, ApplicantOperation(p)
  PROVE  LockInv'
<1>1. TypeOK' BY ApplicantTypes DEF LockInv
<1>2. tx[p].pc = "holds" => tx[p].seen \in LiveStatuses
  BY DEF LockInv, ReadsStayTrue
<1>3. "COMPLETED" \in LiveStatuses /\ "RETURNED" \in LiveStatuses
  BY DEF LiveStatuses
<1>4. /\ tx[p] # Idle
      /\ tx[p] \in Transactions /\ tx[p].appeal \in Appeals /\ Exists(tx[p].appeal)
  <2>1. tx[p].pc \in {"begun", "holds", "checked", "authenticated"}
    BY DEF ApplicantOperation, ApplicantStatus, ConfirmHelp, ReturnAnswer,
           RateOrComplain, CheckChatOpen, AddApplicantMessage, RequestReassignment,
           DeleteAppeal, OpenSession, Holding
  <2> QED BY <2>1, PhaseMeansBusy, BusyHasFields DEF LockInv, BusyOnRows
<1>5. Idle.pc # "holds" BY DEF Idle
<1>6. ASSUME NEW to \in LiveStatuses, ApplicantStatus(p, to)
      PROVE  LockInv'
  BY <1>1, <1>2, <1>6, HolderKeepsLockInv DEF ApplicantStatus, Holding
<1>7. ASSUME NEW complaint \in BOOLEAN, ConfirmHelp(p, complaint)
      PROVE  LockInv'
  BY <1>1, <1>3, <1>7, HolderKeepsLockInv DEF ConfirmHelp, Holding
<1>8. ASSUME NEW complaint \in BOOLEAN, ReturnAnswer(p, complaint)
      PROVE  LockInv'
  <2>1. \A b \in Appeals \ {tx[p].appeal} :
          returns'[b] = returns[b] /\ assigned'[b] = assigned[b]
    BY <1>4, <1>8 DEF ReturnAnswer, LockInv, TypeOK
  <2> QED BY <1>1, <1>3, <1>8, <2>1, HolderKeepsLockInv DEF ReturnAnswer, Holding
<1>9. ASSUME NEW complaint \in BOOLEAN, RateOrComplain(p, complaint)
      PROVE  LockInv'
  BY <1>1, <1>2, <1>9, HolderKeepsLockInv DEF RateOrComplain, Holding
<1>10. CASE CheckChatOpen(p)
  <2>. DEFINE next == [tx[p] EXCEPT !.pc = "checked", !.seen = status[tx[p].appeal]]
  <2>1. next.pc # "holds" /\ next.appeal = tx[p].appeal
    BY <1>4 DEF Transactions
  <2>2. tx' = [tx EXCEPT ![p] = next] /\ UNCHANGED <<status, deleted, returns, assigned>>
    BY <1>10 DEF CheckChatOpen, cases
  <2>. HIDE DEF next
  <2> QED BY <1>1, <1>4, <2>1, <2>2, UnlockedKeepsLockInv
<1>11. ASSUME NEW crisis \in BOOLEAN, AddApplicantMessage(p, crisis)
       PROVE  LockInv'
  BY <1>1, <1>5, <1>11, UnlockedKeepsLockInv DEF AddApplicantMessage, Commit
<1>12. ASSUME NEW r \in Requests, RequestReassignment(p, r)
       PROVE  LockInv'
  BY <1>1, <1>5, <1>12, UnlockedKeepsLockInv DEF RequestReassignment
<1>13. CASE DeleteAppeal(p)
  <2>. DEFINE a == tx[p].appeal
  <2>1. /\ tx' = [tx EXCEPT ![p] = Idle]
        /\ \A b \in Appeals \ {a} :
             /\ status'[b] = status[b] /\ deleted'[b] = deleted[b]
             /\ returns'[b] = returns[b] /\ assigned'[b] = assigned[b]
        /\ status'[a] = "DELETED" /\ deleted'[a]
    BY <1>4, <1>13 DEF DeleteAppeal, Commit, LockInv, TypeOK, DeletionIsWhole
  <2>2. \A q \in Procs \ {p} : tx[q].pc = "holds" => tx[q].appeal # a
    BY <1>13 DEF DeleteAppeal, LockFree
  <2>3. ReadsStayTrue'
    BY <1>4, <2>1, <2>2, OthersUndisturbed DEF LockInv
  <2>4. DeletionIsWhole'
    BY <2>1 DEF LockInv, DeletionIsWhole
  <2>5. BusyOnRows'
    <3>. SUFFICES ASSUME NEW q \in Procs, tx'[q] # Idle
         PROVE  status'[tx'[q].appeal] # "NONE"
      BY DEF BusyOnRows, Exists
    <3>1. tx'[q] = tx[q] /\ tx[q] # Idle BY <2>1 DEF LockInv, TypeOK
    <3>2. tx[q].appeal \in Appeals BY <3>1, BusyHasFields DEF LockInv
    <3> QED BY <2>1, <3>1, <3>2 DEF LockInv, BusyOnRows, Exists
  <2> QED BY <1>1, <2>3, <2>4, <2>5 DEF LockInv
<1>14. CASE OpenSession(p)
  BY <1>1, <1>5, <1>14, UnlockedKeepsLockInv DEF OpenSession
<1> QED
  BY <1>6, <1>7, <1>8, <1>9, <1>10, <1>11, <1>12, <1>13, <1>14
  DEF ApplicantOperation

\* Rows that no request holds may change under every request that is waiting.
LEMMA UnheldRowsMayChange ==
  ASSUME LockInv, TypeOK', NEW S \in SUBSET Appeals,
         \A a \in S : LockFree(a) /\ status'[a] \in LiveStatuses /\ ~deleted[a],
         \A b \in Appeals \ S : status'[b] = status[b],
         UNCHANGED <<deleted, returns, assigned, tx>>
  PROVE  LockInv'
<1>1. \A q \in Procs : tx[q].pc = "holds" => tx[q].appeal \in Appeals \ S
  BY PhaseMeansBusy, BusyHasFields DEF LockInv, LockFree
<1>2. ReadsStayTrue'
  BY <1>1 DEF LockInv, ReadsStayTrue, Authorized, AssignedTo
<1>3. \A s \in LiveStatuses : s # "NONE" /\ s # "DELETED"
  BY DEF LiveStatuses
<1>4. DeletionIsWhole'
  BY <1>3 DEF LockInv, DeletionIsWhole
<1>5. BusyOnRows'
  <2>. SUFFICES ASSUME NEW q \in Procs, tx[q] # Idle
       PROVE  status'[tx[q].appeal] # "NONE"
    BY DEF BusyOnRows, Exists
  <2>1. tx[q].appeal \in Appeals BY BusyHasFields DEF LockInv
  <2> QED BY <1>3, <2>1 DEF LockInv, BusyOnRows, Exists
<1> QED BY <1>2, <1>4, <1>5 DEF LockInv

\* A request that locks its row reads what LockInv says it has read.
LEMMA AcquireKeepsLockInv ==
  ASSUME LockInv, NEW p \in Procs, Acquire(p)
  PROVE  LockInv'
<1>. DEFINE a    == tx[p].appeal
            next == [tx[p] EXCEPT !.pc = "holds", !.seen = status[a],
                                  !.counted = returns[a]]
<1>1. TypeOK' BY EnvironmentTypes DEF LockInv
<1>2. /\ tx[p] \in Transactions /\ a \in Appeals /\ Exists(a)
  BY PhaseMeansBusy, BusyHasFields DEF Acquire, LockInv, BusyOnRows
<1>3. /\ next.pc = "holds" /\ next.appeal = a /\ next.who = tx[p].who
      /\ next.seen = status[a] /\ next.counted = returns[a]
  BY <1>2 DEF Transactions
<1>4. status[a] \in LiveStatuses
  <2>1. status[a] \in Statuses /\ ~deleted[a] /\ status[a] # "NONE"
    BY <1>2 DEF Acquire, Authorized, LockInv, TypeOK, Exists
  <2> QED BY <1>2, <2>1 DEF LockInv, DeletionIsWhole, Statuses
<1>5. /\ tx' = [tx EXCEPT ![p] = next] /\ LockFree(a) /\ Authorized(tx[p].who, a)
      /\ UNCHANGED <<status, deleted, returns, assigned>>
  BY DEF Acquire, cases
<1>. HIDE DEF next
<1>6. tx'[p] = next /\ \A q \in Procs \ {p} : tx'[q] = tx[q]
  BY <1>5 DEF LockInv, TypeOK
<1>7. ReadsStayTrue'
  <2>. SUFFICES ASSUME NEW q \in Procs, tx'[q].pc = "holds"
       PROVE  LET b == tx'[q].appeal IN
              /\ \A r \in Procs : tx'[r].pc = "holds" /\ tx'[r].appeal = b => r = q
              /\ status[b] = tx'[q].seen /\ tx'[q].seen \in LiveStatuses
              /\ returns[b] = tx'[q].counted
              /\ Authorized(tx'[q].who, b)
    BY <1>5 DEF ReadsStayTrue, Authorized, AssignedTo
  <2>1. CASE q = p
    BY <1>3, <1>4, <1>5, <1>6, <2>1 DEF LockFree
  <2>2. CASE q # p
    BY <1>3, <1>5, <1>6, <2>2 DEF LockFree, LockInv, ReadsStayTrue
  <2> QED BY <2>1, <2>2
<1>8. DeletionIsWhole' BY <1>5 DEF LockInv, DeletionIsWhole
<1>9. BusyOnRows'
  BY <1>2, <1>3, <1>5, <1>6 DEF LockInv, BusyOnRows, Exists
<1> QED BY <1>1, <1>7, <1>8, <1>9 DEF LockInv

\* LockInv is an inductive invariant.
LEMMA LockInductive == LockInv /\ [Next]_vars => LockInv'
<1>. SUFFICES ASSUME LockInv, [Next]_vars PROVE LockInv'
  OBVIOUS
<1>1. TypeOK' BY TypeInductive DEF LockInv
<1>2. Idle.pc # "holds" BY DEF Idle
<1>3. CASE UNCHANGED vars
  BY <1>3 DEF vars, LockInv, TypeOK, ReadsStayTrue, Authorized, AssignedTo,
              DeletionIsWhole, BusyOnRows, Exists
<1>4. ASSUME NEW p \in Procs, Step(p)
      PROVE  LockInv'
  <2>1. CASE Refuse(p)
    BY <1>1, <1>2, <2>1, UnlockedKeepsLockInv DEF Refuse, cases
  <2> QED
    BY <1>4, <2>1, AcquireKeepsLockInv, StaffKeepsLockInv, ApplicantKeepsLockInv DEF Step
<1>5. ASSUME NEW p \in Procs, Abort(p)
      PROVE  LockInv'
  BY <1>1, <1>2, <1>5, UnlockedKeepsLockInv DEF Abort, cases
<1>6. ASSUME NEW p \in Procs, NEW u \in Users, NEW a \in Appeals, Begin(p, u, a)
      PROVE  LockInv'
  BY <1>1, <1>6, UnlockedKeepsLockInv DEF Begin, cases
<1>7. ASSUME NEW p \in Procs, NEW a \in Appeals, Authenticate(p, a)
      PROVE  LockInv'
  BY <1>1, <1>7, UnlockedKeepsLockInv DEF Authenticate, cases
<1>8. ASSUME NEW a \in Appeals, NEW extras \in SUBSET Extras, CreateAppeal(a, extras)
      PROVE  LockInv'
  <2>1. LockFree(a) /\ ~deleted[a] /\ status'[a] = "NEW"
    <3>1. \A s \in LiveStatuses : s # "NONE" BY DEF LiveStatuses
    <3> QED BY <1>8, <3>1 DEF CreateAppeal, Exists, LockFree, LockInv, TypeOK,
                              ReadsStayTrue, DeletionIsWhole
  <2>2. \A b \in Appeals \ {a} : status'[b] = status[b]
    BY <1>8 DEF CreateAppeal, LockInv, TypeOK
  <2>3. "NEW" \in LiveStatuses BY DEF LiveStatuses
  <2>4. UNCHANGED <<deleted, returns, assigned, tx>> BY <1>8 DEF CreateAppeal
  <2>. DEFINE S == {a}
  <2>5. /\ S \in SUBSET Appeals
        /\ \A x \in S : LockFree(x) /\ status'[x] \in LiveStatuses /\ ~deleted[x]
        /\ \A b \in Appeals \ S : status'[b] = status[b]
    BY <2>1, <2>2, <2>3
  <2>. HIDE DEF S
  <2> QED BY <1>1, <2>4, <2>5, UnheldRowsMayChange
<1>9. ASSUME NEW a \in Appeals, SessionExpires(a) \/ Age(a)
      PROVE  LockInv'
  <2>1. UNCHANGED <<status, deleted, returns, assigned, tx>>
    BY <1>9 DEF SessionExpires, Age
  <2> QED BY <1>1, <2>1 DEF LockInv, ReadsStayTrue, Authorized, AssignedTo,
                            DeletionIsWhole, BusyOnRows, Exists
<1>10. ASSUME NEW S \in SUBSET Appeals, AutoClose(S)
       PROVE  LockInv'
  <2>1. \A a \in S : LockFree(a) /\ status'[a] \in LiveStatuses /\ ~deleted[a]
    BY <1>10 DEF AutoClose, Closable, Inactive, LockInv, DeletionIsWhole, LiveStatuses
  <2>2. \A b \in Appeals \ S : status'[b] = status[b]
    BY <1>10 DEF AutoClose
  <2>3. UNCHANGED <<deleted, returns, assigned, tx>> BY <1>10 DEF AutoClose
  <2> QED BY <1>1, <2>1, <2>2, <2>3, UnheldRowsMayChange
<1>11. ASSUME NEW p \in Procs, NEW a \in Appeals,
              WithApplicant(p, a) \/ \E u \in Staff : StaffOnly(p, u, a)
       PROVE  LockInv'
  BY <1>6, <1>11 DEF WithApplicant, StaffOnly, Users
<1> QED BY <1>3, <1>4, <1>5, <1>7, <1>8, <1>9, <1>10, <1>11 DEF Next, ApiNext

\* No request is under way in the beginning, and no appeal is deleted.
LEMMA LockInitially == Init => LockInv
<1>. SUFFICES ASSUME Init PROVE LockInv
  OBVIOUS
<1>1. TypeOK BY DEF Init, TypeOK, Statuses
<1>2. \A p \in Procs : tx[p] = Idle BY DEF Init
<1>3. ReadsStayTrue /\ BusyOnRows BY <1>2 DEF ReadsStayTrue, BusyOnRows, Idle
<1>4. DeletionIsWhole BY DEF Init, DeletionIsWhole
<1> QED BY <1>1, <1>3, <1>4 DEF LockInv

\* What a handler has read under the row lock stays true until it commits, and a
\* deleted appeal has the status that says so.
THEOREM LocksProtectReads == Spec => [](ReadsStayTrue /\ DeletionIsWhole)
<1>1. LockInv => ReadsStayTrue /\ DeletionIsWhole BY DEF LockInv
<1> QED BY <1>1, LockInitially, LockInductive, PTL DEF Spec

\* deleted_at and the status of an appeal agree, whatever deletes and changes it at
\* the same moment: the queries that test the one see what those see that test the
\* other.
THEOREM DeletionIsOne == Spec => []DeletionIsWhole
<1>1. LockInv => DeletionIsWhole BY DEF LockInv
<1> QED BY <1>1, LockInitially, LockInductive, PTL DEF Spec
=============================================================================
