------------------------------ MODULE CaseViews ------------------------------
(***************************************************************************)
(* CaseDetail (store/workflow.go), the page of a case that the staff read, *)
(* beside the requests of Casework.  It is put together by a dozen queries *)
(* in one READ COMMITTED transaction, each of which sees a state of its    *)
(* own; what makes one picture of them is the first one, SELECT ... FOR    *)
(* SHARE: nobody may lock or change the row of the appeal until the page   *)
(* is read.  Inserts that only refer to the row do not wait for it.        *)
(***************************************************************************)
EXTENDS Casework

CONSTANT Views  \* pages of cases that are read at the same time

VARIABLE view   \* the transactions that read them

viewVars == <<vars, view>>

\* What a page has read: whose case it is, and, once the query of canChat has
\* been answered, whether it shows the chat.
Readers == [step : {"authorized", "answered"}, who : Staff, appeal : Appeals,
            canChat : BOOLEAN]
Unread  == [step |-> "unread"]

ViewInit == Init /\ view = [v \in Views |-> Unread]

\* u reads the page of a.
Reading(v, u, a) == view[v] # Unread /\ view[v].who = u /\ view[v].appeal = a

\* Slip: the row of the appeal is read without FOR SHARE.
SharesNothing(a) == FALSE

\* Somebody has read the row of the appeal FOR SHARE.
Shared(a) == \E v \in Views, u \in Staff : Reading(v, u, a)

\* This step locks the row of the appeal or writes to it, which has to wait
\* until nobody shares it any more.
TakesRow(a) ==
  \/ \E p \in Procs :
       /\ tx[p] # Idle /\ tx[p].appeal = a
       /\ Acquire(p) \/ AddApplicantMessage(p, TRUE) \/ DeleteAppeal(p)
  \/ \E S \in SUBSET Appeals : a \in S /\ AutoClose(S)

\* Beside the pages: a step that waits for no page.
Beside == \A a \in Appeals : Shared(a) => ~TakesRow(a)

-----------------------------------------------------------------------------
\* FOR SHARE waits for whoever holds the row; then authorizeCase.
OpenView(v, u, a) ==
  /\ view[v] = Unread
  /\ Exists(a) /\ LockFree(a)
  /\ Authorized(u, a)
  /\ view' = [view EXCEPT ![v] = [step |-> "authorized", who |-> u, appeal |-> a,
                                  canChat |-> FALSE]]
  /\ UNCHANGED vars

\* canChat: the experts of the case, and an operator as long as no expert is
\* responsible.  An administrator never sees the chat.
MaySeeChat(u, a) ==
  \/ Role(u) = "EXPERT"
  \/ Role(u) = "OPERATOR" /\ status[a] \in OperatorTalks /\ Responsible(a) = {}

ReadCanChat(v) ==
  /\ view[v] # Unread /\ view[v].step = "authorized"
  /\ view' = [view EXCEPT ![v] =
                [@ EXCEPT !.step = "answered",
                          !.canChat = MaySeeChat(view[v].who, view[v].appeal)]]
  /\ UNCHANGED vars

\* The queries that canChat and the role decide on are made and the page is
\* answered, or one of them fails: the row is released.
CloseView(v) ==
  /\ view[v] # Unread /\ view[v].step = "answered"
  /\ view' = [view EXCEPT ![v] = Unread]
  /\ UNCHANGED vars

\* The client goes away while the page is read.
DropView(v) ==
  /\ view[v] # Unread
  /\ view' = [view EXCEPT ![v] = Unread]
  /\ UNCHANGED vars

ViewNext ==
  \/ Next /\ Beside /\ UNCHANGED view
  \/ \E v \in Views :
       \/ ReadCanChat(v) \/ CloseView(v) \/ DropView(v)
       \/ \E u \in Staff, a \in Appeals : OpenView(v, u, a)

\* A page that is being read is answered.  The requests and the worker are
\* scheduled as in Casework, waiting for the pages as well as for each other.
ViewFairness ==
  /\ \A v \in Views : WF_viewVars(ReadCanChat(v) \/ CloseView(v))
  /\ \A p \in Procs : SF_viewVars(Step(p) /\ Beside /\ UNCHANGED view)
  /\ \A a \in Appeals :
       SF_viewVars(/\ \E S \in SUBSET Appeals : a \in S /\ AutoClose(S)
                   /\ Beside /\ UNCHANGED view)

ViewSpec     == ViewInit /\ [][ViewNext]_viewVars
FairViewSpec == ViewSpec /\ ViewFairness

-----------------------------------------------------------------------------
(***************************************************************************)
(* Properties.                                                             *)
(***************************************************************************)

\* The type invariant.
ViewTypeOK == TypeOK /\ view \in [Views -> Readers \cup {Unread}]

\* A page shows one state of its case, the one its reader was authorized for:
\* while it is read the appeal is not deleted, the expert is not taken off it,
\* nobody is in the middle of changing it, and the chat is shown exactly to
\* those who may see it now ("Separate projections prevent administrator and
\* operator content leakage").
ViewStaysTrue ==
  \A v \in Views, u \in Staff, a \in Appeals : Reading(v, u, a) =>
    /\ Authorized(u, a) /\ LockFree(a)
    /\ view[v].step = "answered" => view[v].canChat = MaySeeChat(u, a)
=============================================================================
