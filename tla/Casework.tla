------------------------------ MODULE Casework ------------------------------
(***************************************************************************)
(* The life of an appeal as the API handlers and the worker change it in   *)
(* the shared database: store/workflow.go, the applicant's operations of   *)
(* store/store.go and the automatic closing of cmd/worker/main.go.         *)
(*                                                                         *)
(* Requests run concurrently.  The model keeps every point at which a      *)
(* request may be overtaken by another one:                                *)
(*                                                                         *)
(*   Begin    the session check of the middleware, outside any transaction *)
(*   Acquire  SELECT ... FOR UPDATE on the appeals row, then authorizeCase *)
(*   an operation, up to COMMIT, which releases the row                    *)
(*                                                                         *)
(* A statement that takes no row lock before it decides (the message of an *)
(* applicant, the login) decides on a snapshot in one step and writes in a *)
(* later one.  The row lock is not a variable: a request holds the row of  *)
(* its appeal exactly while its pc is "holds" (see LockFree).              *)
(***************************************************************************)
EXTENDS AppealStatus, Naturals

CONSTANTS
  Appeals,      \* appeals that may be created
  Experts,      \* accounts of active experts
  Operators,    \* accounts of operators
  Admins,       \* accounts of administrators
  Applicant,    \* whoever holds the session cookie of an appeal
  Requests,     \* rows of reassignment_requests that may be inserted
  NoRequest,    \* an empty requestId
  Procs,        \* requests the API handles at the same time
  QueryMode,    \* default_query_exec_mode of the worker's DATABASE_URL
  Tracked       \* the part of AllData an instance follows

Staff == Experts \cup Operators \cup Admins
Users == Staff \cup {Applicant}

\* What the database keeps of an appeal besides its status and its experts:
\* columns of appeals that are NULL or false until something happens, and tables
\* that hold a row of the appeal (the attachments of messages go with messages,
\* "attachments" are those of the appeal itself).
AppealColumns == {"accepted_at", "first_response_at", "resolved_at", "crisis_flag"}
AppealTables  == {"contents", "attachments", "email", "messages", "notes",
                  "feedback", "complaint", "returned"}
AllData       == AppealColumns \cup AppealTables

ASSUME RolesAreDisjoint ==
  /\ Experts \cap Operators = {}
  /\ Experts \cap Admins = {}
  /\ Operators \cap Admins = {}
  /\ Applicant \notin Staff

ASSUME NoRequestIsNoRow == NoRequest \notin Requests

ASSUME TrackedIsData == Tracked \subseteq AllData

\* The driver's default, which the shipped configuration leaves as it is, and a mode
\* in which the worker's closing can be sent.  It would have to be the worker's
\* alone: the API passes JSON as bytes, which only the default makes a jsonb.
ASSUME QueryModeIsKnown == QueryMode \in {"cache_statement", "simple_protocol"}

VARIABLES
  status,    \* appeals.status
  deleted,   \* appeals.deleted_at IS NOT NULL
  returns,   \* appeals.return_count
  data,      \* the tracked columns that are set and tables that hold a row
  quiet,     \* appeals.updated_at is older than AutoCloseDays (of a waiting appeal)
  assigned,  \* the active rows of appeal_assignments
  requests,  \* reassignment_requests
  history,   \* the newest row of appeal_status_history
  chat,      \* who wrote in the chat since that row
  sessions,  \* some session of the applicant is live
  outbox,    \* outbox_events
  tx         \* the requests being handled

vars == <<status, deleted, returns, data, quiet, assigned, requests,
          history, chat, sessions, outbox, tx>>

-----------------------------------------------------------------------------
(***************************************************************************)
(* Roles, rows and locks.                                                  *)
(***************************************************************************)
Role(u) == IF u \in Experts THEN "EXPERT"
           ELSE IF u \in Operators THEN "OPERATOR"
           ELSE IF u \in Admins THEN "ADMIN" ELSE "APPLICANT"

Kinds       == {"RESPONSIBLE", "COEXECUTOR"}
Assignments == [expert : Experts, kind : Kinds]
RequestKinds == {"TRANSFER", "COEXECUTOR"}
RequestRows == [state : {"NEW", "APPROVED", "REJECTED"},
                appeal : Appeals, kind : RequestKinds]
NoRow       == [state |-> "ABSENT"]
EventTypes  == {"appeal.created", "appeal.status_changed",
                "appeal.message_added", "appeal.deletion_requested"}

\* The most unhelpful answers an applicant may return an appeal for.
ReturnLimit == 2

\* A request: what it does next, for whom, on which appeal, and the status and
\* return count it read when it locked the row (the Go variables old, returns).
Transactions == [pc : {"begun", "holds", "checked", "authenticated"},
                 who : Users, appeal : Appeals, seen : Statuses, counted : Nat]
Idle == [pc |-> "idle"]

Responsible(a) == {x.expert : x \in {y \in assigned[a] : y.kind = "RESPONSIBLE"}}
AssignedTo(a)  == {x.expert : x \in assigned[a]}

Exists(a) == status[a] # "NONE"

\* Slip: a SELECT without FOR UPDATE.
UnlockedRead(a) == Exists(a)

LockFree(a) == \A p \in Procs : tx[p].pc = "holds" => tx[p].appeal # a

\* Slip: the appeal may have been deleted in the meantime.
AuthorizedOnDeleted(u, a) == u \in Experts => u \in AssignedTo(a)

\* authorizeCase: any operator and administrator, and the experts of the case.
Authorized(u, a) ==
  /\ ~deleted[a]
  /\ u \in Experts => u \in AssignedTo(a)

-----------------------------------------------------------------------------
Init ==
  /\ status   = [a \in Appeals |-> "NONE"]
  /\ deleted  = [a \in Appeals |-> FALSE]
  /\ returns  = [a \in Appeals |-> 0]
  /\ data   = [a \in Appeals |-> {}]
  /\ quiet    = [a \in Appeals |-> FALSE]
  /\ assigned = [a \in Appeals |-> {}]
  /\ requests = [r \in Requests |-> NoRow]
  /\ history  = [a \in Appeals |-> [from |-> "NONE", to |-> "NONE"]]
  /\ chat     = [a \in Appeals |-> {}]
  /\ sessions = [a \in Appeals |-> FALSE]
  /\ outbox   = {}
  /\ tx       = [p \in Procs |-> Idle]

-----------------------------------------------------------------------------
(***************************************************************************)
(* How every request starts and ends.                                      *)
(***************************************************************************)
cases == <<status, deleted, returns, data, quiet, assigned, requests,
           history, chat, sessions, outbox>>

\* A request reaches its handler.
Begin(p, u, a) ==
  /\ tx[p] = Idle
  /\ Exists(a)
  /\ tx' = [tx EXCEPT ![p] = [pc |-> "begun", who |-> u, appeal |-> a,
                              seen |-> "NONE", counted |-> 0]]
  /\ UNCHANGED cases

\* withApplicant resolves the cookie.  It does not look at appeals.deleted_at,
\* and the session is not checked again.
WithApplicant(p, a) == sessions[a] /\ Begin(p, Applicant, a)

\* staffOnly resolves the cookie of an account and its role.
StaffOnly(p, u, a) == u \in Staff /\ Begin(p, u, a)

\* SELECT status FROM appeals WHERE deleted_at IS NULL FOR UPDATE, then
\* authorizeCase: the row stays locked until the transaction ends.
Acquire(p) ==
  LET a == tx[p].appeal IN
  /\ tx[p].pc = "begun"
  /\ LockFree(a)
  /\ Authorized(tx[p].who, a)
  /\ tx' = [tx EXCEPT ![p] = [@ EXCEPT !.pc = "holds", !.seen = status[a],
                                       !.counted = returns[a]]]
  /\ UNCHANGED cases

\* Slip: an appeal that is gone is not reported as such.
RefuseLocked(p) ==
  /\ tx[p].pc = "holds"
  /\ tx' = [tx EXCEPT ![p] = Idle]
  /\ UNCHANGED cases

\* The handler answers with an error: not found, forbidden, invalid input.
\* Nothing is written; a locked row is released by the deferred Rollback.
Refuse(p) ==
  /\ tx[p] # Idle
  /\ tx[p].pc = "holds" \/ LockFree(tx[p].appeal)
  /\ tx' = [tx EXCEPT ![p] = Idle]
  /\ UNCHANGED cases

\* The client goes away or the connection breaks, at any point.
Abort(p) ==
  /\ tx[p] # Idle
  /\ tx' = [tx EXCEPT ![p] = Idle]
  /\ UNCHANGED cases

Holding(p, roles) == tx[p].pc = "holds" /\ Role(tx[p].who) \in roles

Write(type, a) == outbox' = outbox \cup {<<type, a>>}

\* COMMIT of a request that leaves one event in the outbox.
Commit(p, type) ==
  /\ tx' = [tx EXCEPT ![p] = Idle]
  /\ Write(type, tx[p].appeal)

\* Slip: columns are overwritten, where the code has COALESCE.
KeepOnly(a, items) == data' = [data EXCEPT ![a] = items \cap Tracked]

\* The columns and tables an operation fills, the untracked ones left out.
Keep(a, items) ==
  data' = [data EXCEPT ![a] = @ \cup (items \cap Tracked)]

\* Slip: from_status and to_status are swapped.
SwappedRow(from, to) == [from |-> to, to |-> from]

\* A row of appeal_status_history.
HistoryRow(from, to) == [from |-> from, to |-> to]

\* Slip: the message of an operation is written after its history row.
ChatAfterRow(before, said, moved) == (IF moved THEN {} ELSE before) \cup said

\* Who has written in the chat since the newest history row: a message is
\* written before the history row of the same operation.
ChatBeforeRow(before, said, moved) == IF moved THEN {} ELSE before \cup said

\* The tail of CaseAction, ApplicantStatus and ApplicantResolve: a status that
\* differs from the one read under the lock is written together with its
\* history row.  said: who wrote in the chat; touched: updated_at was set;
\* items: the other data it leaves.
Settle(p, to, said, touched, items) ==
  LET a     == tx[p].appeal
      moved == to # tx[p].seen
  IN /\ status'  = [status EXCEPT ![a] = IF moved THEN to ELSE @]
     /\ history' = [history EXCEPT ![a] = IF moved
                      THEN HistoryRow(tx[p].seen, to) ELSE @]
     /\ chat'    = [chat EXCEPT ![a] = ChatBeforeRow(@, said, moved)]
     /\ quiet'   = [quiet EXCEPT ![a] = @ /\ ~moved /\ ~touched]
     /\ Keep(a, items
          \cup (IF moved /\ to \in Closed THEN {"resolved_at"} ELSE {})
          \cup (IF moved /\ to = "RETURNED" THEN {"returned"} ELSE {}))

-----------------------------------------------------------------------------
(***************************************************************************)
(* CaseAction and AddStaffMessage: what the staff do under the row lock.   *)
(***************************************************************************)
Dispatchers == {"OPERATOR", "ADMIN"}

\* "priority": updated_at moves, the status does not.
SetPriority(p) ==
  /\ Holding(p, Dispatchers)
  /\ Settle(p, tx[p].seen, {}, TRUE, {})
  /\ Commit(p, "appeal.status_changed")
  /\ UNCHANGED <<deleted, returns, assigned, requests, sessions>>

\* Slip: the request may be one of another appeal.
AnswersAnywhere(r, a, kind) ==
  r # NoRequest => requests[r] # NoRow /\ requests[r].state = "NEW"
                     /\ requests[r].kind = kind

\* The request an assignment answers, if any: a new one of the same appeal and
\* of the matching kind.
Answers(r, a, kind) ==
  \/ r = NoRequest
  \/ /\ r \in Requests
     /\ requests[r] # NoRow
     /\ requests[r].state = "NEW"
     /\ requests[r].appeal = a
     /\ requests[r].kind = kind

Approve(r) ==
  requests' = IF r = NoRequest THEN requests
              ELSE [requests EXCEPT ![r] = [@ EXCEPT !.state = "APPROVED"]]

\* Slip: the new responsible expert stays a coexecutor as well.
JoinTwice(a, e, kind) ==
  {x \in assigned[a] : kind # "RESPONSIBLE" \/ x.kind # "RESPONSIBLE"}
    \cup {[expert |-> e, kind |-> kind]}

\* Slip: every active row of the appeal ends.
JoinAlone(a, e, kind) == {[expert |-> e, kind |-> kind]}

\* The active rows once an expert has got a new one: another row of the expert
\* ends, and a new responsible expert replaces the one before.
Join(a, e, kind) ==
  {x \in assigned[a] : /\ x.expert # e
                       /\ kind = "RESPONSIBLE" => x.kind # "RESPONSIBLE"}
    \cup {[expert |-> e, kind |-> kind]}

\* "assign": the responsible expert is replaced and the appeal becomes ASSIGNED.
Assign(p, e, r) ==
  LET a == tx[p].appeal IN
  /\ Holding(p, Dispatchers)
  /\ tx[p].seen \notin Closed
  /\ e \notin Responsible(a)
  /\ Answers(r, a, "TRANSFER")
  /\ assigned' = [assigned EXCEPT ![a] = Join(a, e, "RESPONSIBLE")]
  /\ Approve(r)
  /\ Settle(p, "ASSIGNED", {}, FALSE, {"accepted_at"})
  /\ Commit(p, "appeal.status_changed")
  /\ UNCHANGED <<deleted, returns, sessions>>

\* "coexecutor": one more expert joins; the status stays.
AddCoexecutor(p, e, r) ==
  LET a == tx[p].appeal IN
  /\ Holding(p, Dispatchers)
  /\ tx[p].seen \notin Closed
  /\ e \notin AssignedTo(a)
  /\ Answers(r, a, "COEXECUTOR")
  /\ assigned' = [assigned EXCEPT ![a] = Join(a, e, "COEXECUTOR")]
  /\ Approve(r)
  /\ Settle(p, tx[p].seen, {}, FALSE, {})
  /\ Commit(p, "appeal.status_changed")
  /\ UNCHANGED <<deleted, returns, sessions>>

\* "reject_request"
RejectRequest(p, r) ==
  /\ Holding(p, Dispatchers)
  /\ requests[r] # NoRow
  /\ requests[r].state = "NEW"
  /\ requests[r].appeal = tx[p].appeal
  /\ requests' = [requests EXCEPT ![r] = [@ EXCEPT !.state = "REJECTED"]]
  /\ Settle(p, tx[p].seen, {}, FALSE, {})
  /\ Commit(p, "appeal.status_changed")
  /\ UNCHANGED <<deleted, returns, assigned, sessions>>

\* "status"
ChangeStatus(p, to) ==
  /\ Holding(p, {"OPERATOR", "EXPERT", "ADMIN"})
  /\ AllowedTransition(Role(tx[p].who), tx[p].seen, to)
  /\ Settle(p, to, {}, FALSE, {})
  /\ Commit(p, "appeal.status_changed")
  /\ UNCHANGED <<deleted, returns, assigned, requests, sessions>>

\* "operator_reply_close": the answer is a SYSTEM message, written before the
\* history row of the closing.
ReplyAndClose(p) ==
  /\ Holding(p, {"OPERATOR"})
  /\ tx[p].seen = "NEW"
  /\ Settle(p, "COMPLETED", {"SYSTEM"}, FALSE, {"messages"})
  /\ Commit(p, "appeal.status_changed")
  /\ UNCHANGED <<deleted, returns, assigned, requests, sessions>>

\* "reply"
Reply(p) ==
  /\ Holding(p, {"EXPERT"})
  /\ tx[p].seen \notin Closed
  /\ Settle(p, tx[p].seen, {"EXPERT"}, TRUE, {"first_response_at", "messages"})
  /\ Commit(p, "appeal.status_changed")
  /\ UNCHANGED <<deleted, returns, assigned, requests, sessions>>

\* "note": an internal note of an expert.
Note(p) ==
  /\ Holding(p, {"EXPERT"})
  /\ tx[p].seen \notin Closed
  /\ Settle(p, tx[p].seen, {}, FALSE, {"notes"})
  /\ Commit(p, "appeal.status_changed")
  /\ UNCHANGED <<deleted, returns, assigned, requests, sessions>>

Insert(r, a, kind) ==
  /\ requests[r] = NoRow
  /\ requests' = [requests EXCEPT ![r] =
                    [state |-> "NEW", appeal |-> a, kind |-> kind]]

\* "request": an expert asks for a colleague or for a transfer.
RequestHelp(p, kind, r) ==
  /\ Holding(p, {"EXPERT"})
  /\ tx[p].seen \notin Closed
  /\ Insert(r, tx[p].appeal, kind)
  /\ Settle(p, tx[p].seen, {}, FALSE, {})
  /\ Commit(p, "appeal.status_changed")
  /\ UNCHANGED <<deleted, returns, assigned, sessions>>

\* Slip: nobody is kept from writing in a closed chat.
MayWriteLate(role, old, a) ==
  role = "OPERATOR" => old \in OperatorTalks /\ Responsible(a) = {}

\* Slip: the status alone decides whether an operator may write.
MayWriteBeside(role, old, a) ==
  old \notin Closed /\ (role = "OPERATOR" => old \in OperatorTalks)

\* Nobody writes to a closed appeal, an operator only before an expert answers.
MayWrite(role, old, a) ==
  /\ old \notin Closed
  /\ role = "OPERATOR" => old \in OperatorTalks /\ Responsible(a) = {}

\* AddStaffMessage
StaffMessage(p) ==
  LET a == tx[p].appeal  role == Role(tx[p].who) IN
  /\ Holding(p, {"OPERATOR", "EXPERT"})
  /\ MayWrite(role, tx[p].seen, a)
  /\ Settle(p, tx[p].seen, {role}, TRUE, {"first_response_at", "messages"})
  /\ Commit(p, "appeal.message_added")
  /\ UNCHANGED <<deleted, returns, assigned, requests, sessions>>

-----------------------------------------------------------------------------
(***************************************************************************)
(* The applicant.                                                          *)
(***************************************************************************)
Extras == {"crisis_flag", "attachments", "email"}

\* CreateAppeal, one transaction on rows nobody else can see; with crisis words,
\* screenshots or an address, as the applicant likes.
CreateAppeal(a, extras) ==
  /\ ~Exists(a)
  /\ status'  = [status EXCEPT ![a] = "NEW"]
  /\ history' = [history EXCEPT ![a] = HistoryRow("NONE", "NEW")]
  /\ Keep(a, {"contents"} \cup extras)
  /\ Write("appeal.created", a)
  /\ UNCHANGED <<deleted, returns, quiet, assigned, requests, chat, sessions, tx>>

\* createAppealSession, first statement: the access code is looked up.
Authenticate(p, a) ==
  /\ tx[p] = Idle
  /\ Exists(a) /\ ~deleted[a]
  /\ tx' = [tx EXCEPT ![p] = [pc |-> "authenticated", who |-> Applicant,
                              appeal |-> a, seen |-> "NONE", counted |-> 0]]
  /\ UNCHANGED cases

\* createAppealSession, second statement: the session row.  Its foreign key
\* waits for a row lock and sees nothing but the existence of the appeal.
OpenSession(p) ==
  LET a == tx[p].appeal IN
  /\ tx[p].pc = "authenticated"
  /\ LockFree(a)
  /\ sessions' = [sessions EXCEPT ![a] = TRUE]
  /\ tx' = [tx EXCEPT ![p] = Idle]
  /\ UNCHANGED <<status, deleted, returns, data, quiet, assigned, requests,
                 history, chat, outbox>>

\* expires_at passes.
SessionExpires(a) ==
  /\ sessions[a]
  /\ sessions' = [sessions EXCEPT ![a] = FALSE]
  /\ UNCHANGED <<status, deleted, returns, data, quiet, assigned, requests,
                 history, chat, outbox, tx>>

\* ApplicantStatus
ApplicantStatus(p, to) ==
  /\ Holding(p, {"APPLICANT"})
  /\ AllowedTransition("APPLICANT", tx[p].seen, to)
  /\ Settle(p, to, {}, FALSE, {})
  /\ Commit(p, "appeal.status_changed")
  /\ UNCHANGED <<deleted, returns, assigned, requests, sessions>>

\* The row ApplicantResolve leaves in appeal_feedback: a complaint stays.
Feedback(complaint) == {"feedback"} \cup (IF complaint THEN {"complaint"} ELSE {})

\* Slip: the limit is off by one.
ResolvableOnceMore(old, counted, helpful, complaint) ==
  /\ old \in {"ANSWER_READY", "COMPLETED"} \/ complaint
  /\ old = "ANSWER_READY" /\ ~helpful => counted <= ReturnLimit

\* The early returns of ApplicantResolve.
Resolvable(old, counted, helpful, complaint) ==
  /\ old \in {"ANSWER_READY", "COMPLETED"} \/ complaint
  /\ old = "ANSWER_READY" /\ ~helpful => counted < ReturnLimit

\* ApplicantResolve on a ready answer that helped.
ConfirmHelp(p, complaint) ==
  /\ Holding(p, {"APPLICANT"})
  /\ tx[p].seen = "ANSWER_READY"
  /\ Resolvable(tx[p].seen, tx[p].counted, TRUE, complaint)
  /\ Settle(p, "COMPLETED", {}, FALSE, Feedback(complaint))
  /\ Commit(p, "appeal.status_changed")
  /\ UNCHANGED <<deleted, returns, assigned, requests, sessions>>

\* ApplicantResolve on a ready answer that did not help: back to the operator,
\* and every expert leaves the case.
ReturnAnswer(p, complaint) ==
  LET a == tx[p].appeal IN
  /\ Holding(p, {"APPLICANT"})
  /\ tx[p].seen = "ANSWER_READY"
  /\ Resolvable(tx[p].seen, tx[p].counted, FALSE, complaint)
  /\ assigned' = [assigned EXCEPT ![a] = {}]
  /\ returns'  = [returns EXCEPT ![a] = @ + 1]
  /\ Settle(p, "RETURNED", {}, FALSE, Feedback(complaint))
  /\ Commit(p, "appeal.status_changed")
  /\ UNCHANGED <<deleted, requests, sessions>>

\* ApplicantResolve in every other status: a rating of a completed appeal, or a
\* complaint at any time.
RateOrComplain(p, complaint) ==
  /\ Holding(p, {"APPLICANT"})
  /\ tx[p].seen # "ANSWER_READY"
  /\ Resolvable(tx[p].seen, tx[p].counted, TRUE, complaint)
  /\ Settle(p, tx[p].seen, {}, FALSE, Feedback(complaint))
  /\ Commit(p, "appeal.status_changed")
  /\ UNCHANGED <<deleted, returns, assigned, requests, sessions>>

\* AddApplicantMessage, INSERT ... SELECT: the status is read from a snapshot;
\* no lock is taken before the foreign key of the new row is checked.
CheckChatOpen(p) ==
  LET a == tx[p].appeal IN
  /\ tx[p].pc = "begun" /\ tx[p].who = Applicant
  /\ ~deleted[a] /\ status[a] \notin Closed
  /\ tx' = [tx EXCEPT ![p] = [@ EXCEPT !.pc = "checked", !.seen = status[a]]]
  /\ UNCHANGED cases

\* AddApplicantMessage, up to COMMIT, once no other transaction holds the row.
\* Only a message with crisis words touches the appeals row.
AddApplicantMessage(p, crisis) ==
  LET a == tx[p].appeal IN
  /\ tx[p].pc = "checked"
  /\ LockFree(a)
  /\ chat'  = [chat EXCEPT ![a] = @ \cup {"APPLICANT"}]
  /\ quiet' = [quiet EXCEPT ![a] = @ /\ ~crisis]
  /\ Keep(a, {"messages"} \cup (IF crisis THEN {"crisis_flag"} ELSE {}))
  /\ Commit(p, "appeal.message_added")
  /\ UNCHANGED <<status, deleted, returns, assigned, requests, history, sessions>>

\* RequestReassignment: one INSERT, whatever has become of the appeal.
RequestReassignment(p, r) ==
  LET a == tx[p].appeal IN
  /\ tx[p].pc = "begun" /\ tx[p].who = Applicant
  /\ LockFree(a)
  /\ Insert(r, a, "TRANSFER")
  /\ tx' = [tx EXCEPT ![p] = Idle]
  /\ UNCHANGED <<status, deleted, returns, data, quiet, assigned, history,
                 chat, sessions, outbox>>

\* DeleteAppeal: its first UPDATE waits for the row.  Deleting a second time
\* changes no status but revokes the sessions and writes the event again.  The
\* rest of the data is left to the worker.
DeleteAppeal(p) ==
  LET a == tx[p].appeal IN
  /\ tx[p].pc = "begun" /\ tx[p].who = Applicant
  /\ LockFree(a)
  /\ status'   = [status EXCEPT ![a] = IF deleted[a] THEN @ ELSE "DELETED"]
  /\ deleted'  = [deleted EXCEPT ![a] = TRUE]
  /\ quiet'    = [quiet EXCEPT ![a] = FALSE]
  /\ sessions' = [sessions EXCEPT ![a] = FALSE]
  /\ requests' = [r \in Requests |->
                    IF requests[r] # NoRow /\ requests[r].appeal = a
                    THEN NoRow ELSE requests[r]]
  /\ data'     = [data EXCEPT ![a] = @ \ {"email"}]
  /\ Commit(p, "appeal.deletion_requested")
  /\ UNCHANGED <<returns, assigned, history, chat>>

-----------------------------------------------------------------------------
(***************************************************************************)
(* Time and the worker.                                                    *)
(***************************************************************************)
\* AutoCloseDays pass without a write to the appeals row.
Age(a) ==
  /\ status[a] = "WAITING_FOR_APPLICANT" /\ ~quiet[a]
  /\ quiet' = [quiet EXCEPT ![a] = TRUE]
  /\ UNCHANGED <<status, deleted, returns, data, assigned, requests, history,
                 chat, sessions, outbox, tx>>

Inactive(a) == status[a] = "WAITING_FOR_APPLICANT" /\ quiet[a]

\* Slip: one inactive appeal is enough to close the others.
ClosableTogether(S) == \E a \in S : Inactive(a) /\ LockFree(a)

\* Slip: an appeal is closed only if its applicant has not written.
ClosableIfSilent(S) ==
  S # {} /\ \A a \in S : Inactive(a) /\ LockFree(a) /\ "APPLICANT" \notin chat[a]

\* closeInactiveAppeals passes an int for $1::text.  Where pgx describes the
\* statement, the parameter is a text, an int has no encoding as one, and Exec
\* fails before anything is sent; written into the statement it is a number that
\* PostgreSQL converts.
DaysCanBeSent == QueryMode = "simple_protocol"

\* The appeals an UPDATE of the worker closes.
Closable(S) == S # {} /\ \A a \in S : Inactive(a) /\ LockFree(a)

\* closeInactiveAppeals closes the inactive appeals its UPDATE has found, each
\* re-read after its row lock was waited for; one that became inactive after
\* the statement began is left for the next tick.
AutoClose(S) ==
  /\ DaysCanBeSent
  /\ Closable(S)
  /\ status'  = [a \in Appeals |-> IF a \in S THEN "CLOSED_NO_RESPONSE"
                                   ELSE status[a]]
  /\ quiet'   = [a \in Appeals |-> quiet[a] /\ a \notin S]
  /\ history' = [a \in Appeals |-> IF a \in S
                   THEN HistoryRow("WAITING_FOR_APPLICANT", "CLOSED_NO_RESPONSE")
                   ELSE history[a]]
  /\ chat'    = [a \in Appeals |-> IF a \in S THEN {} ELSE chat[a]]
  /\ data'  = [a \in Appeals |-> IF a \in S
                   THEN data[a] \cup ({"resolved_at"} \cap Tracked)
                   ELSE data[a]]
  /\ outbox'  = outbox \cup ({"appeal.status_changed"} \X S)
  /\ UNCHANGED <<deleted, returns, assigned, requests, sessions, tx>>

-----------------------------------------------------------------------------
StaffOperation(p) ==
  \/ SetPriority(p) \/ ReplyAndClose(p) \/ Reply(p) \/ Note(p) \/ StaffMessage(p)
  \/ \E to \in LiveStatuses : ChangeStatus(p, to)
  \/ \E e \in Experts, r \in Requests \cup {NoRequest} :
       Assign(p, e, r) \/ AddCoexecutor(p, e, r)
  \/ \E r \in Requests : RejectRequest(p, r)
  \/ \E kind \in RequestKinds, r \in Requests : RequestHelp(p, kind, r)

ApplicantOperation(p) ==
  \/ \E to \in LiveStatuses : ApplicantStatus(p, to)
  \/ \E complaint \in BOOLEAN :
       ConfirmHelp(p, complaint) \/ ReturnAnswer(p, complaint)
         \/ RateOrComplain(p, complaint)
  \/ CheckChatOpen(p)
  \/ \E crisis \in BOOLEAN : AddApplicantMessage(p, crisis)
  \/ \E r \in Requests : RequestReassignment(p, r)
  \/ DeleteAppeal(p)
  \/ OpenSession(p)

\* What the handler of request p does next.
Step(p) == Acquire(p) \/ Refuse(p) \/ StaffOperation(p) \/ ApplicantOperation(p)

\* Everything but the worker: the API, its clients and the passing of time.
ApiNext ==
  \/ \E p \in Procs :
       \/ Step(p) \/ Abort(p)
       \/ \E u \in Staff, a \in Appeals : StaffOnly(p, u, a)
       \/ \E a \in Appeals : WithApplicant(p, a) \/ Authenticate(p, a)
  \/ \E a \in Appeals :
       \/ \E extras \in SUBSET Extras : CreateAppeal(a, extras)
       \/ SessionExpires(a) \/ Age(a)

Next == ApiNext \/ \E S \in SUBSET Appeals : AutoClose(S)

\* A handler that runs is answered: the goroutine and the backend process it
\* talks to are scheduled, and PostgreSQL queues the waiters of a row lock, so
\* that a request that can lock the row again and again locks it in the end.
\* The worker ticks every second and, where its statement can be sent at all,
\* waits in the same queue.  Nothing is assumed of clients, of broken connections
\* or of the passing of time.
Fairness ==
  /\ \A p \in Procs : SF_vars(Step(p))
  /\ \A a \in Appeals : SF_vars(\E S \in SUBSET Appeals : a \in S /\ AutoClose(S))

Spec     == Init /\ [][Next]_vars
FairSpec == Spec /\ Fairness

-----------------------------------------------------------------------------
(***************************************************************************)
(* Properties.                                                             *)
(***************************************************************************)

\* The type invariant.
TypeOK ==
  /\ status   \in [Appeals -> Statuses]
  /\ deleted  \in [Appeals -> BOOLEAN]
  /\ returns  \in [Appeals -> Nat]
  /\ data   \in [Appeals -> SUBSET Tracked]
  /\ quiet    \in [Appeals -> BOOLEAN]
  /\ assigned \in [Appeals -> SUBSET Assignments]
  /\ requests \in [Requests -> RequestRows \cup {NoRow}]
  /\ history  \in [Appeals -> [from : Statuses, to : Statuses]]
  /\ chat     \in [Appeals -> SUBSET {"APPLICANT", "OPERATOR", "EXPERT"}]
  /\ sessions \in [Appeals -> BOOLEAN]
  /\ outbox   \in SUBSET (EventTypes \X Appeals)
  /\ tx       \in [Procs -> Transactions \cup {Idle}]

\* What a handler read under the row lock is still true when it commits: nobody
\* else holds the row, the appeal is alive, its status and return count are the
\* ones read, and the expert who passed authorizeCase is still on the case
\* ("reassignment revokes access atomically", CaseAction).
ReadsStayTrue ==
  \A p \in Procs : tx[p].pc = "holds" =>
    LET a == tx[p].appeal IN
    /\ \A q \in Procs : tx[q].pc = "holds" /\ tx[q].appeal = a => q = p
    /\ status[a] = tx[p].seen /\ tx[p].seen \in LiveStatuses
    /\ returns[a] = tx[p].counted
    /\ Authorized(tx[p].who, a)

\* deleted_at and status 'DELETED' are written together and stay together: the
\* queries that test only one of them see the same appeals.
DeletionIsWhole == \A a \in Appeals : deleted[a] <=> status[a] = "DELETED"

\* At most one expert is responsible for an appeal, an expert has one active
\* row on it, and a new appeal has no responsible expert yet.
OneResponsible ==
  \A a \in Appeals :
    /\ \A x, y \in assigned[a] :
         \/ x = y
         \/ x.expert # y.expert /\ {x.kind, y.kind} # {"RESPONSIBLE"}
    /\ status[a] = "NEW" => Responsible(a) = {}

\* The newest history row of a live appeal names its present status.
HistoryTellsStatus ==
  \A a \in Appeals : status[a] # "DELETED" => history[a].to = status[a]

\* A history row continues the one before it: no status change is lost or
\* recorded against a status the appeal was not in.
HistoryChains ==
  [][\A a \in Appeals :
       history'[a] # history[a] => history'[a].from = history[a].to]_vars

\* An appeal is sent back as unhelpful at most twice, however many requests
\* arrive at the same moment.
ReturnsAreLimited == \A a \in Appeals : returns[a] <= ReturnLimit

\* README: once an expert is responsible the operator no longer writes in the
\* chat.  Since the newest status change the operator has written only if the
\* appeal is NEW or RETURNED, and then nobody was responsible.
OperatorSilentOnceAssigned ==
  \A a \in Appeals : "OPERATOR" \in chat[a] /\ ~deleted[a] =>
    status[a] \in OperatorTalks /\ Responsible(a) = {}

\* No member of the staff writes in the chat of a closed appeal.
StaffSilentOnceClosed ==
  \A a \in Appeals : status[a] \in Closed => chat[a] \subseteq {"APPLICANT"}

\* The times the analytics are computed from are there when they must be: a
\* responsible expert has accepted, an answer of the staff was a first response,
\* a closed appeal is resolved.
TimesAreKnown ==
  \A a \in Appeals :
    LET due(c) == c \in Tracked => c \in data[a] IN
    /\ Responsible(a) # {} => due("accepted_at")
    /\ chat[a] \cap {"OPERATOR", "EXPERT"} # {} => due("first_response_at")
    /\ status[a] \in Closed => due("resolved_at")

\* A reassignment request is resolved once, and it is approved only by the step
\* that puts a new expert on the case in the way it asks for.
RequestsResolvedOnce ==
  [][\A r \in Requests : requests[r] # NoRow /\ requests'[r] \notin {requests[r], NoRow} =>
       LET a == requests[r].appeal IN
       /\ requests[r].state = "NEW"
       /\ requests'[r].appeal = a /\ requests'[r].kind = requests[r].kind
       /\ requests'[r].state = "APPROVED" =>
            \E x \in assigned'[a] \ assigned[a] :
              (x.kind = "COEXECUTOR") = (requests[r].kind = "COEXECUTOR")]_vars

\* Nothing reaches a deleted appeal any more: its status, experts, history and
\* the staff's part of its chat stay what they were at the deletion.
DeletedIsFrozen ==
  [][\A a \in Appeals : deleted[a] =>
       /\ deleted'[a] /\ status'[a] = status[a]
       /\ assigned'[a] = assigned[a] /\ returns'[a] = returns[a]
       /\ history'[a] = history[a]
       /\ chat'[a] \ {"APPLICANT"} = chat[a] \ {"APPLICANT"}]_vars

\* An expert loses a case in two ways only: replaced as the responsible expert,
\* while every coexecutor stays, or with all the others when the applicant
\* returns the answer.
ExpertsLeaveTogetherOrReplaced ==
  [][\A a \in Appeals :
       LET left == AssignedTo(a) \ AssignedTo(a)' IN
       left # {} =>
         \/ /\ left = Responsible(a)
            /\ Responsible(a)' # {} /\ status'[a] = "ASSIGNED"
         \/ /\ assigned'[a] = {} /\ status'[a] = "RETURNED"
            /\ returns'[a] = returns[a] + 1]_vars

\* Every request that a handler has started on is answered: no request waits
\* for a row lock for ever.
EveryRequestAnswered ==
  \A p \in Procs : tx[p] # Idle ~> tx[p] = Idle

\* An appeal that has waited too long for its applicant does not stay so: the
\* worker closes it unless somebody writes to it first.  That holds where the
\* worker's statement can be sent (DaysCanBeSent), and only there.
StaleWaitingEnds ==
  \A a \in Appeals : Inactive(a) ~> ~Inactive(a)

-----------------------------------------------------------------------------
(***************************************************************************)
(* The refinement of CaseLifecycle.                                        *)
(***************************************************************************)
PhaseOf(s) ==
  CASE s = "NONE"                      -> "absent"
    [] s \in OperatorTalks             -> "queue"
    [] s = "ANSWER_READY"              -> "answered"
    [] s = "COMPLETED"                 -> "completed"
    [] s \in Closed \ {"COMPLETED"}    -> "dismissed"
    [] s = "DELETED"                   -> "erased"
    [] OTHER                           -> "work"

Lifecycle == INSTANCE CaseLifecycle WITH
  Limit    <- ReturnLimit,
  phase    <- [a \in Appeals |-> PhaseOf(status[a])],
  owner    <- [a \in Appeals |-> Responsible(a)],
  sentBack <- returns

\* Whatever the requests and the worker do, interleaved in any way, the appeal
\* goes through the phases of CaseLifecycle: nothing reopens a dismissed or
\* erased appeal, and the responsible expert changes only by a takeover or by
\* an answer sent back within the limit.
ImplementsLifecycle == Lifecycle!Spec

-----------------------------------------------------------------------------
(***************************************************************************)
(* Statements the repository makes of the program and the code breaks.     *)
(***************************************************************************)

\* Appeal.tsx:15, the confirmation of the page: after the deletion the access
\* code and the chat stop working, so that nobody is logged in.
DeletionRevokesSessions ==
  \A a \in Appeals : deleted[a] => ~sessions[a]

\* ApplicantActions.tsx:13 and 16: a complaint reaches the operator, also when
\* the appeal has already been returned twice.
ComplaintsAreTaken ==
  \A p \in Procs : Holding(p, {"APPLICANT"}) =>
    \A helpful \in BOOLEAN :
      Resolvable(tx[p].seen, tx[p].counted, helpful, TRUE)
=============================================================================
