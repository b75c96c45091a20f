---------------------------- MODULE CaseLifecycle ----------------------------
(***************************************************************************)
(* What the platform promises about an appeal, with no request, lock or    *)
(* message in sight.  Every appeal is in one phase; at most one expert     *)
(* answers for it; it changes hands only when somebody takes it over or    *)
(* its applicant sends it back; what is dismissed or erased is over.       *)
(* Casework implements this specification.                                 *)
(***************************************************************************)
EXTENDS Naturals

CONSTANTS Appeals, Experts,
          Limit     \* how often an applicant may send an answer back

VARIABLES phase,    \* where the appeal is
          owner,    \* the expert who answers for it, as a set of at most one
          sentBack  \* how often its answer was sent back

caseVars == <<phase, owner, sentBack>>

Phases == {"absent", "queue", "work", "answered", "completed", "dismissed",
           "erased"}
Going  == {"queue", "work", "answered"}

Init == /\ phase    = [a \in Appeals |-> "absent"]
        /\ owner    = [a \in Appeals |-> {}]
        /\ sentBack = [a \in Appeals |-> 0]

Go(a, from, to) ==
  /\ phase[a] \in from
  /\ phase' = [phase EXCEPT ![a] = to]

\* A new appeal waits for an operator.
Submit(a) == Go(a, {"absent"}, "queue") /\ UNCHANGED <<owner, sentBack>>

\* An expert becomes the one who answers for the appeal.
Take(a, e) == /\ Go(a, Going, "work")
              /\ owner' = [owner EXCEPT ![a] = {e}]
              /\ UNCHANGED sentBack

\* Work goes on, with or without an answer to show.
Work(a) == /\ Go(a, Going, "work") \/ Go(a, Going, "answered")
           /\ UNCHANGED <<owner, sentBack>>

Complete(a) == Go(a, Going, "completed") /\ UNCHANGED <<owner, sentBack>>

\* Rejected, or closed for want of an answer; the worker closes several at once.
Dismiss(S) == /\ \A a \in S : phase[a] \in Going
              /\ phase' = [a \in Appeals |-> IF a \in S THEN "dismissed" ELSE phase[a]]
              /\ UNCHANGED <<owner, sentBack>>

\* Back to the operator, the expert stays.
Reopen(a) == /\ Go(a, {"answered", "completed"}, "queue")
             /\ UNCHANGED <<owner, sentBack>>

\* Back to the operator, the expert leaves; possible a limited number of times.
SendBack(a) == /\ sentBack[a] < Limit
               /\ Go(a, {"answered"}, "queue")
               /\ owner'    = [owner EXCEPT ![a] = {}]
               /\ sentBack' = [sentBack EXCEPT ![a] = @ + 1]

Erase(a) == Go(a, Phases \ {"absent"}, "erased") /\ UNCHANGED <<owner, sentBack>>

Next == \/ \E a \in Appeals :
             \/ Submit(a) \/ Work(a) \/ Complete(a) \/ Reopen(a) \/ SendBack(a)
             \/ Erase(a)
             \/ \E e \in Experts : Take(a, e)
        \/ \E S \in SUBSET Appeals : Dismiss(S)

Spec == Init /\ [][Next]_caseVars
=============================================================================
