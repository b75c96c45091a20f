---------------------------- MODULE AdmissionProofs ----------------------------
(***************************************************************************)
(* Theorems about RateLimiter, for any number of callers and any limit,    *)
(* and about the whole: that what is true of the cases stays true beside   *)
(* the workers, and what is true of the workers, the cases and the limiter *)
(* stays true when they are composed.                                      *)
(***************************************************************************)
EXTENDS Admission, OutboxProofs, CaseworkRefinement

-----------------------------------------------------------------------------
(***************************************************************************)
(* The limiter.                                                            *)
(***************************************************************************)
\* The inductive invariant needs, beside LockoutIsTimed, that a key with an
\* expiry is one that counts: the expiry goes with the key.
LimiterInv == LimiterTypeOK /\ LockoutIsTimed /\ (timed => count > 0)

\* A caller's next state is well formed, and the others keep theirs.
LEMMA CallsAreKnown ==
  ASSUME LimiterTypeOK, NEW c \in Callers, NEW next \in {"out", "first", "admitted"},
         call' = [call EXCEPT ![c] = next]
  PROVE  /\ call' \in [Callers -> {"out", "first", "admitted"}]
         /\ call'[c] = next
         /\ \A d \in Callers \ {c} : call'[d] = call[d]
BY DEF LimiterTypeOK

\* Whatever a caller, the expiry or a restart does next, LimiterInv holds again.
LEMMA LimiterInductive == LimiterInv /\ [LimiterNext]_limiterVars => LimiterInv'
<1>. SUFFICES ASSUME LimiterInv, [LimiterNext]_limiterVars PROVE LimiterInv'
  OBVIOUS
<1>. USE LimitIsPositive, CountIsBounded DEF LimiterInv, LimiterTypeOK, LockoutIsTimed
<1>1. ASSUME NEW c \in Callers, Increment(c)
      PROVE  LimiterInv'
  <2>1. AfterIncrement(count + 1) \in {"out", "first", "admitted"}
    BY DEF AfterIncrement
  <2>2. call'[c] = AfterIncrement(count + 1)
        /\ \A d \in Callers \ {c} : call'[d] = call[d]
    BY <1>1, <2>1, CallsAreKnown DEF Increment
  <2>3. call' \in [Callers -> {"out", "first", "admitted"}]
    BY <1>1, <2>1, CallsAreKnown DEF Increment
  <2>4. CASE count = 0
    <3>1. call'[c] = "first" BY <2>2, <2>4 DEF AfterIncrement
    <3> QED BY <1>1, <2>3, <2>4, <3>1 DEF Increment
  <2>5. CASE count > 0
    <3>1. call[c] = "out" BY <1>1 DEF Increment
    <3>2. \A d \in Callers : call[d] = "first" => call'[d] = "first" BY <2>2, <3>1
    <3> QED BY <1>1, <2>3, <2>5, <3>2 DEF Increment
  <2> QED BY <2>4, <2>5
<1>2. ASSUME NEW c \in Callers, NEW executed \in BOOLEAN, IncrementFails(c, executed)
      PROVE  LimiterInv'
  <2>1. call[c] = "out" BY <1>2 DEF IncrementFails
  <2>2. \A d \in Callers : call[d] = "first" => call'[d] = "first"
    BY <1>2, <2>1, CallsAreKnown DEF IncrementFails
  <2>3. call' \in [Callers -> {"out", "first", "admitted"}]
    BY <1>2, CallsAreKnown DEF IncrementFails
  <2> QED BY <1>2, <2>2, <2>3 DEF IncrementFails
<1>3. ASSUME NEW c \in Callers, Expire(c)
      PROVE  LimiterInv'
  <2>1. call' \in [Callers -> {"out", "first", "admitted"}]
    BY <1>3, CallsAreKnown DEF Expire
  <2>2. count' = count /\ (timed' <=> count > 0)
    BY <1>3 DEF Expire
  <2>3. timed' \in BOOLEAN /\ lost' \in BOOLEAN
    BY <1>3 DEF Expire
  <2> QED BY <2>1, <2>2, <2>3
<1>4. ASSUME NEW c \in Callers, ExpireFails(c)
      PROVE  LimiterInv'
  <2>1. call' \in [Callers -> {"out", "first", "admitted"}]
    BY <1>4, CallsAreKnown DEF ExpireFails
  <2>2. UNCHANGED <<count, timed>> /\ (lost' <=> lost \/ (count > 0 /\ ~timed))
    BY <1>4 DEF ExpireFails
  <2>3. lost' \in BOOLEAN BY <1>4 DEF ExpireFails
  <2> QED BY <2>1, <2>2, <2>3
<1>5. ASSUME NEW c \in Callers, Leave(c)
      PROVE  LimiterInv'
  <2>1. call[c] = "admitted" /\ call' = [call EXCEPT ![c] = "out"]
    BY <1>5 DEF Leave
  <2>2. \A d \in Callers : call[d] = "first" => call'[d] = "first"
    BY <2>1, CallsAreKnown
  <2> QED BY <1>5, <2>2, CallsAreKnown DEF Leave
<1>6. CASE Elapse \/ RedisRestarts
  <2>1. count' = 0 /\ ~timed' /\ timed' \in BOOLEAN /\ lost' \in BOOLEAN
        /\ UNCHANGED call
    BY <1>6 DEF Elapse, RedisRestarts
  <2>2. 0 \in 0 .. MaxCount /\ ~(0 > 0) OBVIOUS
  <2> QED BY <2>1, <2>2
<1>7. CASE UNCHANGED limiterVars BY <1>7 DEF limiterVars
<1> QED BY <1>1, <1>2, <1>3, <1>4, <1>5, <1>6, <1>7 DEF LimiterNext, LimiterStep

\* A limiter that has counted nobody satisfies it.
LEMMA LimiterInitially == LimiterInit => LimiterInv
<1> SUFFICES ASSUME LimiterInit PROVE LimiterInv
  OBVIOUS
<1>1. 0 \in 0 .. MaxCount /\ ~(0 > 0)
  BY LimitIsPositive, CountIsBounded
<1>2. /\ count = 0 /\ ~timed /\ timed \in BOOLEAN /\ lost \in BOOLEAN
      /\ call \in [Callers -> {"out", "first", "admitted"}]
  BY DEF LimiterInit
<1> QED
  BY <1>1, <1>2 DEF LimiterInv, LimiterTypeOK, LockoutIsTimed

\* However many callers share an address, and whatever expires, fails or restarts
\* between their commands: a count without an expiry is one whose creator failed.
THEOREM RefusalsAreTimed == LimiterSpec => [](LimiterTypeOK /\ LockoutIsTimed)
<1>1. LimiterInv => LimiterTypeOK /\ LockoutIsTimed
  BY DEF LimiterInv
<1> QED
  BY <1>1, LimiterInitially, LimiterInductive, PTL DEF LimiterSpec

-----------------------------------------------------------------------------
(***************************************************************************)
(* The cases beside the workers.                                           *)
(***************************************************************************)
\* Outbox and RateLimiter without their fairness: all that safety rests on.
OutboxSafety  == OutboxInit /\ [][OutboxNext]_outboxVars
LimiterSafety == LimiterInit /\ [][LimiterNext]_limiterVars

\* A worker does nothing that the cases could tell.
LEMMA WorkerKeepsCases ==
  ASSUME EraseInv, NEW w \in Workers, NEW e \in Events,
         Fail(w) \/ Pick(w, e) \/ Handle(w, e)
  PROVE  UNCHANGED <<core, requests>> /\ TimesKept
<1>1. UNCHANGED <<core, requests>>
  BY DEF Fail, Pick, Handle, Refresh, FinishRefresh, FinishOther, vars, core
<1>2. ASSUME NEW a \in Appeals, NEW c \in Columns, c \in data[a]
      PROVE  c \in data'[a]
  <2>1. c \notin Erased
    BY DEF Columns, Erased
  <2>2. TypeOK
    BY DEF EraseInv, LockInv
  <2>3. CASE FinishRefresh(w, e)
    <3>1. data' = [data EXCEPT ![e[2]] = @ \ Erases(e)] /\ c \notin Erases(e)
      BY <2>1, <2>3 DEF FinishRefresh, Erases
    <3> QED
      BY <1>2, <2>2, <3>1 DEF TypeOK
  <2>4. CASE ~FinishRefresh(w, e)
    BY <1>2, <2>4 DEF Fail, Pick, Handle, Refresh, FinishOther, vars
  <2> QED
    BY <2>3, <2>4
<1> QED
  BY <1>1, <1>2 DEF TimesKept, Due, core

\* A step of Outbox is one of Casework or does nothing that the cases could tell.
LEMMA StepsBesideWorker ==
  ASSUME EraseInv, [OutboxNext]_outboxVars
  PROVE  [Next]_vars \/ (UNCHANGED <<core, requests>> /\ TimesKept)
<1>1. ASSUME NEW w \in Workers, Fail(w)
      PROVE  UNCHANGED <<core, requests>> /\ TimesKept
  <2>1. job[w].event \in Events
    BY <1>1, JobHasFields DEF Fail, EraseInv
  <2> QED
    BY <1>1, <2>1, WorkerKeepsCases
<1> QED
  BY <1>1, WorkerKeepsCases, StepsOfOutbox DEF BesideEvents

\* The invariants of the cases and of the workers, together.
WholeInv == EraseInv /\ CaseInv /\ NothingIsMissing

\* Whatever the workers do, CaseInv and the times stay what requests make them.
LEMMA WholeInductive == WholeInv /\ [OutboxNext]_outboxVars => WholeInv'
<1> SUFFICES ASSUME WholeInv, [OutboxNext]_outboxVars PROVE WholeInv'
  OBVIOUS
<1> USE DEF WholeInv
<1>1. EraseInv'
  BY EraseInductive
<1>2. LockInv /\ TypeOK
  BY DEF EraseInv, LockInv
<1>3. CASE [Next]_vars
  BY <1>1, <1>2, <1>3, CaseInductive, StepsKeepTimes, TimesInductive
<1>4. CASE UNCHANGED <<core, requests>> /\ TimesKept
  <2>1. CaseInv'
    BY <1>4 DEF core, CaseInv, HistoryTellsStatus, ReturnsAreLimited, OneResponsible,
                OperatorSilentOnceAssigned, StaffSilentOnceClosed,
                NothingBeforeCreation, Responsible
  <2> QED
    BY <1>1, <1>4, <2>1, TimesInductive
<1> QED
  BY <1>3, <1>4, StepsBesideWorker

\* A database without appeals satisfies it.
LEMMA WholeInitially == OutboxInit => WholeInv
BY EraseInitially, CaseInitially, TimesInitially DEF OutboxInit, WholeInv

\* The worker's transactions run on the rows of the requests without their locks;
\* all the same, with any number of workers, every invariant of the cases holds.
THEOREM CasesAreSafeBesideWorkers ==
  OutboxSafety => [](/\ ReadsStayTrue /\ DeletionIsWhole /\ OneResponsible
                     /\ HistoryTellsStatus /\ ReturnsAreLimited
                     /\ OperatorSilentOnceAssigned /\ StaffSilentOnceClosed
                     /\ TimesAreKnown)
<1>1. WholeInv => /\ ReadsStayTrue /\ DeletionIsWhole /\ OneResponsible
                  /\ HistoryTellsStatus /\ ReturnsAreLimited
                  /\ OperatorSilentOnceAssigned /\ StaffSilentOnceClosed
                  /\ TimesAreKnown
  BY TimesSuffice DEF WholeInv, EraseInv, LockInv, CaseInv
<1> QED
  BY <1>1, WholeInitially, WholeInductive, PTL DEF OutboxSafety

\* So does all that no step may do, and the lifecycle is still implemented: the
\* workers disturb no case.
THEOREM WorkersDisturbNoCase ==
  OutboxSafety => /\ HistoryChains /\ DeletedIsFrozen
                  /\ ExpertsLeaveTogetherOrReplaced /\ RequestsResolvedOnce
                  /\ ImplementsLifecycle
<1>1. WholeInv => LockInv /\ CaseInv
  BY DEF WholeInv, EraseInv
<1>2. WholeInv /\ [OutboxNext]_outboxVars => [Next]_vars \/ UNCHANGED <<core, requests>>
  BY StepsBesideWorker DEF WholeInv
<1>3. WholeInv /\ [OutboxNext]_outboxVars =>
        [\A a \in Appeals :
           history'[a] # history[a] => history'[a].from = history[a].to]_vars
  BY <1>1, <1>2, StepsChain DEF core
<1>4. WholeInv /\ [OutboxNext]_outboxVars =>
        [\A a \in Appeals : deleted[a] =>
           /\ deleted'[a] /\ status'[a] = status[a]
           /\ assigned'[a] = assigned[a] /\ returns'[a] = returns[a]
           /\ history'[a] = history[a]
           /\ chat'[a] \ {"APPLICANT"} = chat[a] \ {"APPLICANT"}]_vars
  BY <1>1, <1>2, DeletedStays DEF core
<1>5. WholeInv /\ [OutboxNext]_outboxVars =>
        [\A a \in Appeals :
           LET left == AssignedTo(a) \ AssignedTo(a)' IN
           left # {} =>
             \/ /\ left = Responsible(a)
                /\ Responsible(a)' # {} /\ status'[a] = "ASSIGNED"
             \/ /\ assigned'[a] = {} /\ status'[a] = "RETURNED"
                /\ returns'[a] = returns[a] + 1]_vars
  <2>1. UNCHANGED core => \A a \in Appeals : AssignedTo(a) \ AssignedTo(a)' = {}
    BY DEF core, AssignedTo
  <2> QED
    BY <1>1, <1>2, <2>1, ExpertsLeave
<1>6. WholeInv /\ [OutboxNext]_outboxVars =>
        [\A r \in Requests :
           requests[r] # NoRow /\ requests'[r] \notin {requests[r], NoRow} =>
             LET a == requests[r].appeal IN
             /\ requests[r].state = "NEW"
             /\ requests'[r].appeal = a /\ requests'[r].kind = requests[r].kind
             /\ requests'[r].state = "APPROVED" =>
                  \E x \in assigned'[a] \ assigned[a] :
                    (x.kind = "COEXECUTOR") = (requests[r].kind = "COEXECUTOR")]_vars
  BY <1>1, <1>2, RequestsAreAnswered
<1>7. OutboxInit => Lifecycle!Init
  BY LifecycleInitially DEF OutboxInit
<1>8. WholeInv /\ [OutboxNext]_outboxVars => [Lifecycle!Next]_Lifecycle!caseVars
  <2>1. UNCHANGED core => UNCHANGED Lifecycle!caseVars
    BY DEF core, Lifecycle!caseVars, Responsible
  <2> QED
    BY <1>1, <1>2, <2>1, StepsImplement
<1> QED
  BY <1>3, <1>4, <1>5, <1>6, <1>7, <1>8, WholeInitially, WholeInductive, PTL
     DEF OutboxSafety, HistoryChains, DeletedIsFrozen, ExpertsLeaveTogetherOrReplaced,
         RequestsResolvedOnce, ImplementsLifecycle, Lifecycle!Spec

\* A deletion that has taken effect stays in effect: what a worker reads of the
\* appeal from now on is DELETED, and nothing brings the text back.
LEMMA EffectStays ==
  ASSUME EraseInv, [OutboxNext]_outboxVars, NEW a \in Appeals, InEffect(a)
  PROVE  InEffect(a)'
<1>1. LockInv /\ TypeOK /\ OutboxTypeOK
  BY DEF EraseInv, LockInv
<1>2. deleted[a] /\ status[a] = "DELETED" /\ Exists(a) /\ "contents" \notin data[a]
  BY <1>1 DEF InEffect, LockInv, DeletionIsWhole, Exists
<1>3. CASE BesideEvents
  <2>0. [Next]_vars /\ UNCHANGED <<facts, job>>
    BY <1>3 DEF BesideEvents
  <2>1. deleted'[a]
    BY <1>1, <1>2, <2>0, DeletedStays
  <2>2. "contents" \notin data'[a]
    BY <1>1, <1>2, <2>0, StepsAreRecorded DEF Recorded
  <2> QED
    BY <2>0, <2>1, <2>2 DEF InEffect
<1>4. ASSUME NEW w \in Workers, NEW e \in Events, Fail(w) \/ Pick(w, e) \/ Handle(w, e)
      PROVE  InEffect(a)'
  <2>1. UNCHANGED deleted /\ "contents" \notin data'[a]
    BY <1>1, <1>2, <1>4
       DEF Fail, Pick, Handle, Refresh, FinishRefresh, FinishOther, vars, TypeOK
  <2>2. \A v \in Workers \ {w} : job'[v] = job[v]
    BY <1>1, <1>4
       DEF Fail, Pick, Handle, Refresh, FinishRefresh, FinishOther, OutboxTypeOK
  <2>3. ASSUME AnalyticsEnabled, job'[w] # Rest, job'[w].step = "read",
               job'[w].event[2] = a
        PROVE  job'[w].fact.final_status = "DELETED"
    <3>1. Refresh(w, e)
      BY <1>1, <1>4, <2>3
         DEF Fail, Pick, Handle, FinishRefresh, FinishOther, OutboxTypeOK
    <3>2. job'[w] = [step |-> "read", event |-> e, fact |-> Snapshot(e[2])]
      BY <1>1, <3>1 DEF Refresh, OutboxTypeOK
    <3> QED
      BY <1>2, <2>3, <3>2 DEF Snapshot
  <2>4. ASSUME AnalyticsEnabled
        PROVE  facts'[a].final_status = "DELETED"
    <3>1. CASE FinishRefresh(w, e) /\ e[2] = a
      BY <1>1, <2>4, <3>1 DEF InEffect, FinishRefresh, OutboxTypeOK
    <3>2. CASE ~(FinishRefresh(w, e) /\ e[2] = a)
      <4>1. facts'[a] = facts[a]
        BY <1>1, <1>4, <3>2
           DEF Fail, Pick, Handle, Refresh, FinishRefresh, FinishOther, OutboxTypeOK
      <4> QED
        BY <2>4, <4>1 DEF InEffect
    <3> QED
      BY <3>1, <3>2
  <2> QED
    BY <1>2, <2>1, <2>2, <2>3, <2>4 DEF InEffect
<1>5. ASSUME NEW w \in Workers, Fail(w)
      PROVE  InEffect(a)'
  <2>1. job[w].event \in Events
    BY <1>1, <1>5, JobHasFields DEF Fail
  <2> QED
    BY <1>4, <1>5, <2>1
<1> QED
  BY <1>3, <1>4, <1>5, StepsOfOutbox

\* The half of DeletionTakesEffect that is safety, for any number of workers: nothing
\* undoes a deletion that has taken effect.
THEOREM DeletionLasts == OutboxSafety => DeletionStaysInEffect
<1>1. EraseInv /\ [OutboxNext]_outboxVars =>
        [\A a \in Appeals : InEffect(a) => InEffect(a)']_outboxVars
  BY EffectStays
<1> QED
  BY <1>1, EraseInitially, EraseInductive, PTL DEF OutboxSafety, DeletionStaysInEffect

-----------------------------------------------------------------------------
(***************************************************************************)
(* The composition.                                                        *)
(***************************************************************************)
\* A login is at once a step of an applicant and of a caller of the limiter; every
\* other step is one of Outbox or one of RateLimiter.
LEMMA StepsCompose ==
  [AdmissionNext]_admissionVars
    => [OutboxNext]_outboxVars /\ [LimiterNext]_limiterVars
<1> SUFFICES ASSUME [AdmissionNext]_admissionVars
             PROVE  [OutboxNext]_outboxVars /\ [LimiterNext]_limiterVars
  OBVIOUS
<1> USE CallersAreRequests
<1>1. ASSUME NEW p \in Procs, NEW a \in Appeals, Enter(p, a)
      PROVE  OutboxNext /\ LimiterNext
  <2>1. ApiNext
    BY <1>1 DEF Enter, ApiNext
  <2> QED
    BY <1>1, <2>1 DEF Enter, OutboxNext, LimiterNext
<1>2. ASSUME NEW p \in Procs, LimiterStep(p) \/ Leave(p), UNCHANGED outboxVars
      PROVE  LimiterNext /\ UNCHANGED outboxVars
  BY <1>2 DEF LimiterNext
<1>3. CASE (Elapse \/ RedisRestarts) /\ UNCHANGED outboxVars
  BY <1>3 DEF LimiterNext
<1>4. CASE OutboxNext /\ UNCHANGED limiterVars
  BY <1>4
<1>5. CASE UNCHANGED admissionVars
  BY <1>5 DEF admissionVars
<1> QED
  BY <1>1, <1>2, <1>3, <1>4, <1>5 DEF AdmissionNext

\* The whole is an outbox and a limiter: all theorems about the safety of either
\* hold of it.
THEOREM AdmissionComposes == AdmissionSpec => OutboxSafety /\ LimiterSafety
BY StepsCompose, PTL DEF AdmissionSpec, AdmissionInit, OutboxSafety, LimiterSafety

\* With logins behind the limiter, requests and workers together: refusals are
\* timed, and a deletion that was handled has erased the text.
THEOREM AdmissionIsSafe == AdmissionSpec => [](LockoutIsTimed /\ ContentsErased)
<1>1. WholeInv => ContentsErased
  BY DEF WholeInv, EraseInv
<1>2. LimiterInv => LockoutIsTimed
  BY DEF LimiterInv
<1> QED
  BY <1>1, <1>2, AdmissionComposes, WholeInitially, WholeInductive, LimiterInitially,
     LimiterInductive, PTL DEF OutboxSafety, LimiterSafety

\* The whole still implements both abstract specifications.
THEOREM AdmissionImplements ==
  ASSUME "contents" \in Tracked
  PROVE  AdmissionSpec => ImplementsLifecycle /\ ImplementsErasure
<1>1. OutboxSafety => ImplementsErasure
  BY ErasureInitially, StepsImplementErasure, PTL
     DEF OutboxSafety, ImplementsErasure, Deletion!Spec
<1> QED
  BY <1>1, AdmissionComposes, WorkersDisturbNoCase, PTL
=============================================================================
