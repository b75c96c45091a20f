------------------------------ MODULE Admission ------------------------------
(***************************************************************************)
(* createAppealSession (httpapi/server.go) behind the rate limiter, beside *)
(* everything else that happens to an appeal: an access code is looked up  *)
(* only for an attempt that the limiter has let through.  The processes of *)
(* Casework are the callers of RateLimiter; all attempts come from one     *)
(* address.                                                                *)
(***************************************************************************)
EXTENDS Outbox, RateLimiter

ASSUME CallersAreRequests == Callers = Procs

admissionVars == <<outboxVars, limiterVars>>

AdmissionInit == OutboxInit /\ LimiterInit

\* An admitted attempt finds an appeal by its access code.
Enter(p, a) ==
  /\ Leave(p)
  /\ Authenticate(p, a)
  /\ UNCHANGED <<facts, job, failed, batch>>

\* The request p is busy with the limiter, or it looks an access code up.
AtTheDoor(p) == call[p] # "out" \/ (tx[p] = Idle /\ tx'[p].pc = "authenticated")

AdmissionNext ==
  \/ \E p \in Procs, a \in Appeals : Enter(p, a)
  \/ \E p \in Procs : tx[p] = Idle /\ LimiterStep(p) /\ UNCHANGED outboxVars
  \/ \E p \in Procs : Leave(p) /\ UNCHANGED outboxVars
  \/ (Elapse \/ RedisRestarts) /\ UNCHANGED outboxVars
  \/ /\ OutboxNext /\ UNCHANGED limiterVars
     /\ \A p \in Procs : tx'[p] # tx[p] => ~AtTheDoor(p)

\* The worker and the limiter are scheduled as on their own.
AdmissionFairness ==
  /\ \A w \in Workers :
       /\ WF_admissionVars(/\ \E S \in SUBSET Appeals : StartBatch(w, S)
                           /\ UNCHANGED limiterVars)
       /\ \A e \in Events : SF_admissionVars(Pick(w, e) /\ UNCHANGED limiterVars)
       /\ WF_admissionVars(/\ \E e \in Events : Handle(w, e)
                           /\ UNCHANGED limiterVars)
  /\ WF_admissionVars(Elapse /\ UNCHANGED outboxVars)
  /\ \A p \in Procs :
       WF_admissionVars((Expire(p) \/ ExpireFails(p) \/ Leave(p)) /\ UNCHANGED outboxVars)

AdmissionSpec == AdmissionInit /\ [][AdmissionNext]_admissionVars /\ AdmissionFairness
=============================================================================
