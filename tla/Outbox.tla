------------------------------- MODULE Outbox -------------------------------
(***************************************************************************)
(* The worker's side of the outbox (cmd/worker/main.go) beside the         *)
(* requests of Casework: events written with a change of an appeal become  *)
(* an anonymous row of analytics_facts and, after a deletion, the erasure  *)
(* of what the applicant and the experts wrote.                            *)
(*                                                                         *)
(* The outbox of Casework is a set.  That is enough here: handle uses the  *)
(* type of an event and its appeal only, so two equal events that nobody   *)
(* has locked are as good as one; and an event that is being handled is    *)
(* taken out of the set, so that an equal one may be written meanwhile.    *)
(***************************************************************************)
EXTENDS Casework

CONSTANTS
  Workers,           \* worker processes; docker-compose.yml starts one
  AnalyticsEnabled,  \* ANALYTICS_ENABLED of the configuration
  MaxFailures        \* a bound: how often handling an event fails

ASSUME AnalyticsSwitch == AnalyticsEnabled \in BOOLEAN
ASSUME FailuresAreCounted == MaxFailures \in Nat

VARIABLES
  facts,  \* analytics_facts, by the appeal the HMAC stands for
  job,    \* the transactions of the workers
  failed, \* how often handling an event has failed
  batch   \* the workers that have come past the closing in this tick

outboxVars == <<vars, facts, job, failed, batch>>

Events   == EventTypes \X Appeals
FactData == {"accepted_at", "first_response_at", "resolved_at", "crisis_flag",
             "returned"}
Facts    == [final_status : Statuses, data : SUBSET FactData]
NoFact   == [final_status |-> "NONE", data |-> {}]
Rest     == [step |-> "rest"]

\* Slip: a case is missing in the switch of handle.
RefreshingSome == {"appeal.created", "appeal.deletion_requested"}

\* The events for which handle calls refreshFacts.
Refreshing == {"appeal.created", "appeal.status_changed",
               "appeal.deletion_requested"}

\* Slip: a table is forgotten.
ErasedSome == {"messages", "notes"}

\* What handle deletes for "appeal.deletion_requested".
Erased == {"messages", "notes", "contents"}

\* Slip: the statements of a deletion run for every event.
ErasesForAll(e) == Erased

\* What handling an event erases: only a deletion does.
Erases(e) == IF e[1] = "appeal.deletion_requested" THEN Erased ELSE {}

OutboxInit ==
  /\ Init
  /\ facts = [a \in Appeals |-> NoFact]
  /\ job   = [w \in Workers |-> Rest]
  /\ failed = 0
  /\ batch = {}

-----------------------------------------------------------------------------
\* runBatch begins with closeInactiveAppeals, which closes the appeals in S, if
\* there are any, and goes on with the events only if the statement has not
\* failed.  A tick in which it fails ends there and has changed nothing.
StartBatch(w, S) ==
  /\ w \notin batch
  /\ DaysCanBeSent
  /\ AutoClose(S) \/ (S = {} /\ UNCHANGED vars)
  /\ batch' = batch \cup {w}
  /\ UNCHANGED <<facts, job, failed>>

\* runBatch returns: no event is left, or it has handled its fifty.
EndBatch(w) ==
  /\ w \in batch
  /\ job[w] = Rest
  /\ batch' = batch \ {w}
  /\ UNCHANGED <<vars, facts, job, failed>>

\* SELECT ... FOR UPDATE SKIP LOCKED LIMIT 1.  The order of creation is left
\* out: which event comes first decides nothing, as none carries data.
Pick(w, e) ==
  /\ w \in batch
  /\ job[w] = Rest
  /\ e \in outbox
  /\ outbox' = outbox \ {e}
  /\ job' = [job EXCEPT ![w] = [step |-> "picked", event |-> e, fact |-> NoFact]]
  /\ UNCHANGED <<status, deleted, returns, data, quiet, assigned, requests,
                 history, chat, sessions, tx, facts, failed, batch>>

\* Slip: private data reaches the statistics.
SnapshotOfAll(a) == [final_status |-> status[a], data |-> data[a]]

\* refreshFacts: its SELECT sees what is committed when it starts.
Snapshot(a) ==
  IF AnalyticsEnabled
  THEN [final_status |-> status[a], data |-> data[a] \cap FactData]
  ELSE NoFact

Refresh(w, e) ==
  /\ job[w] = [step |-> "picked", event |-> e, fact |-> NoFact]
  /\ e[1] \in Refreshing
  /\ job' = [job EXCEPT ![w] = [step |-> "read", event |-> e,
                                fact |-> Snapshot(e[2])]]
  /\ UNCHANGED <<vars, facts, failed, batch>>

\* COMMIT of a refreshed event: the row of facts is replaced whatever it is by
\* then, and a deletion erases the contents, the messages and the notes.
FinishRefresh(w, e) ==
  /\ job[w] # Rest /\ job[w].step = "read" /\ job[w].event = e
  /\ facts' = [facts EXCEPT ![e[2]] = job[w].fact]
  /\ data'  = [data EXCEPT ![e[2]] = @ \ Erases(e)]
  /\ job'   = [job EXCEPT ![w] = Rest]
  /\ UNCHANGED <<status, deleted, returns, quiet, assigned, requests, history,
                 chat, sessions, outbox, tx, failed, batch>>

\* COMMIT of any other event, whose payload is only parsed.
FinishOther(w, e) ==
  /\ job[w] = [step |-> "picked", event |-> e, fact |-> NoFact]
  /\ e[1] \notin Refreshing
  /\ job' = [job EXCEPT ![w] = Rest]
  /\ UNCHANGED <<vars, facts, failed, batch>>

\* Slip: the event counts as processed although handling it failed.
FailProcessed(w) ==
  /\ job[w] # Rest
  /\ failed < MaxFailures
  /\ failed' = failed + 1
  /\ job'    = [job EXCEPT ![w] = Rest]
  /\ batch'  = batch \ {w}
  /\ UNCHANGED <<vars, facts>>

\* A statement fails or the worker dies: the transaction is rolled back, the
\* count of attempts with it, the event is free again, and the batch is over.
Fail(w) ==
  /\ job[w] # Rest
  /\ failed < MaxFailures
  /\ failed' = failed + 1
  /\ outbox' = outbox \cup {job[w].event}
  /\ job'    = [job EXCEPT ![w] = Rest]
  /\ batch'  = batch \ {w}
  /\ UNCHANGED <<status, deleted, returns, data, quiet, assigned, requests,
                 history, chat, sessions, tx, facts>>

Handle(w, e) == Refresh(w, e) \/ FinishRefresh(w, e) \/ FinishOther(w, e)

OutboxNext ==
  \/ ApiNext /\ UNCHANGED <<facts, job, failed, batch>>
  \/ \E w \in Workers :
       \/ \E S \in SUBSET Appeals : StartBatch(w, S)
       \/ EndBatch(w) \/ Fail(w)
       \/ \E e \in Events : Pick(w, e) \/ Handle(w, e)

\* The ticker fires every second, so that a worker whose closing can be sent gets
\* to the events again and again, and they come in the order of their creation, so
\* that none is passed over for ever; a handler that has begun ends.  Failures end
\* because they are bounded: what makes an event fail is a lost connection or a
\* restart.
OutboxFairness ==
  \A w \in Workers :
    /\ WF_outboxVars(\E S \in SUBSET Appeals : StartBatch(w, S))
    /\ \A e \in Events : SF_outboxVars(Pick(w, e))
    /\ WF_outboxVars(\E e \in Events : Handle(w, e))

OutboxSpec == OutboxInit /\ [][OutboxNext]_outboxVars /\ OutboxFairness

-----------------------------------------------------------------------------
(***************************************************************************)
(* Properties.                                                             *)
(***************************************************************************)

\* The type invariant.
OutboxTypeOK ==
  /\ TypeOK
  /\ facts \in [Appeals -> Facts]
  /\ job \in [Workers -> [step : {"picked", "read"}, event : Events, fact : Facts]
                           \cup {Rest}]
  /\ failed \in 0 .. MaxFailures
  /\ batch \subseteq Workers

\* The event e still has to bring the facts of its appeal up to date.
WillRefresh(e, a) == e[1] \in Refreshing /\ e[2] = a

\* The status the analytics count is the status of the appeal, or an event that
\* will correct it is waiting or being handled and has not been read too early:
\* no change of status is ever lost for the statistics.
FactsFollowStatus ==
  AnalyticsEnabled => \A a \in Appeals :
    \/ facts[a].final_status = status[a]
    \/ \E e \in outbox : WillRefresh(e, a)
    \/ \E w \in Workers :
         /\ job[w] # Rest /\ WillRefresh(job[w].event, a)
         /\ job[w].step = "picked" \/ job[w].fact.final_status = status[a]

\* Once the deletion has been handled, the text of the appeal is gone.
DeletionPending(a) ==
  \/ <<"appeal.deletion_requested", a>> \in outbox
  \/ \E w \in Workers :
       job[w] # Rest /\ job[w].event = <<"appeal.deletion_requested", a>>

ContentsErased ==
  \A a \in Appeals : deleted[a] => DeletionPending(a) \/ "contents" \notin data[a]

\* The text of an appeal is erased for its deletion and for nothing else, whatever
\* the handlers and the worker do at the same time; see AppealErasure.
Deletion == INSTANCE AppealErasure WITH
  stored  <- {a \in Appeals : "contents" \in data[a]},
  deleted <- {a \in Appeals : deleted[a]}

ImplementsErasure == Deletion!Spec

\* Appeal.tsx:18: the deletion removes the contents, and the statistics keep an
\* anonymous fact with the status of a deleted appeal.  It takes effect in the end
\* and for good, whatever fails on the way, where the worker's closing can be sent;
\* where it cannot, the worker never gets to the event.
DeletionTakesEffect ==
  \A a \in Appeals :
    deleted[a] ~> [](/\ "contents" \notin data[a]
                     /\ AnalyticsEnabled => facts[a].final_status = "DELETED")

\* The deletion has taken effect, and no worker has something older to write.
InEffect(a) ==
  /\ deleted[a] /\ "contents" \notin data[a]
  /\ AnalyticsEnabled =>
       /\ facts[a].final_status = "DELETED"
       /\ \A w \in Workers : job[w] # Rest /\ job[w].step = "read" /\ job[w].event[2] = a
                              => job[w].fact.final_status = "DELETED"

\* Then nothing undoes it: no request that was let in before, no event that was
\* left waiting, no failure.
DeletionStaysInEffect ==
  [][\A a \in Appeals : InEffect(a) => InEffect(a)']_outboxVars

\* Appeal.tsx:18: the deletion removes the contents, and only an anonymous fact is
\* left, so after it has been handled nothing that was sent or written is there.
NothingLeftAfterDeletion ==
  \A a \in Appeals : deleted[a] =>
    DeletionPending(a) \/ data[a] \cap (AppealTables \ {"returned"}) = {}
=============================================================================
