----------------------------- MODULE RateLimiter -----------------------------
(***************************************************************************)
(* allow (httpapi/server.go): how often one address may log in per minute. *)
(* The attempts of an address are counted by a key of Redis.  INCR creates *)
(* the key, and the caller who finds that it has created it gives it its   *)
(* minute with EXPIRE, in a second command: other callers, a broken        *)
(* connection, a client that goes away and a restart come between.         *)
(***************************************************************************)
EXTENDS Naturals

CONSTANTS
  Callers,  \* requests of one address that are handled at the same time
  Limit,    \* attempts per minute: 5 for an access code, 10 for the staff
  MaxCount  \* a bound: how far the key counts

ASSUME LimitIsPositive == Limit \in Nat \ {0}
ASSUME CountIsBounded  == MaxCount \in Nat /\ Limit < MaxCount

VARIABLES
  count,  \* the value of the key, 0 if there is none
  timed,  \* the key has its expiry
  call,   \* what allow does for a request
  lost    \* the caller who created the key never got to EXPIRE

limiterVars == <<count, timed, call, lost>>

LimiterInit ==
  /\ count = 0
  /\ timed = FALSE
  /\ call  = [c \in Callers |-> "out"]
  /\ lost  = FALSE

-----------------------------------------------------------------------------
\* Slip: the caller after the first one is to give the key its expiry.
AfterSecond(n) == IF n = 2 THEN "first" ELSE IF n <= Limit THEN "admitted" ELSE "out"

\* Slip: no caller gives the key its expiry.
NoExpiry(n) == IF n <= Limit THEN "admitted" ELSE "out"

\* What allow goes on with, once INCR has answered n; a refused caller is told to
\* come back in a minute.
AfterIncrement(n) ==
  IF n = 1 THEN "first" ELSE IF n <= Limit THEN "admitted" ELSE "out"

Increment(c) ==
  /\ call[c] = "out"
  /\ count < MaxCount
  /\ count' = count + 1
  /\ call'  = [call EXCEPT ![c] = AfterIncrement(count + 1)]
  /\ UNCHANGED <<timed, lost>>

\* INCR fails: the attempt is let through, as without a limiter.  The command
\* may have been executed all the same.
IncrementFails(c, executed) ==
  /\ call[c] = "out"
  /\ executed => count < MaxCount
  /\ count' = IF executed THEN count + 1 ELSE count
  /\ lost'  = (lost \/ (executed /\ count = 0))
  /\ call'  = [call EXCEPT ![c] = "admitted"]
  /\ UNCHANGED timed

\* EXPIRE, which does nothing if the key is gone.
Expire(c) ==
  /\ call[c] = "first"
  /\ timed' = (count > 0)
  /\ lost'  = (lost /\ count = 0)
  /\ call'  = [call EXCEPT ![c] = "admitted"]
  /\ UNCHANGED count

\* EXPIRE fails, which is not looked at, or the request ends before it.
ExpireFails(c) ==
  /\ call[c] = "first"
  /\ lost' = (lost \/ (count > 0 /\ ~timed))
  /\ \E next \in {"admitted", "out"} : call' = [call EXCEPT ![c] = next]
  /\ UNCHANGED <<count, timed>>

\* The request goes on with the attempt it was admitted for, or ends.
Leave(c) ==
  /\ call[c] = "admitted"
  /\ call' = [call EXCEPT ![c] = "out"]
  /\ UNCHANGED <<count, timed, lost>>

\* The minute is over.
Elapse ==
  /\ timed
  /\ count' = 0
  /\ timed' = FALSE
  /\ UNCHANGED <<call, lost>>

\* Redis is started with --save "" --appendonly no: a restart forgets the key.
RedisRestarts ==
  /\ count > 0
  /\ count' = 0
  /\ timed' = FALSE
  /\ lost'  = FALSE
  /\ UNCHANGED call

LimiterStep(c) ==
  \/ Increment(c) \/ Expire(c) \/ ExpireFails(c)
  \/ \E executed \in BOOLEAN : IncrementFails(c, executed)

LimiterNext ==
  \/ \E c \in Callers : LimiterStep(c) \/ Leave(c)
  \/ Elapse \/ RedisRestarts

\* Time passes, and a handler that was answered by Redis goes on.
LimiterFairness ==
  /\ WF_limiterVars(Elapse)
  /\ \A c \in Callers : WF_limiterVars(Expire(c) \/ ExpireFails(c) \/ Leave(c))

LimiterSpec == LimiterInit /\ [][LimiterNext]_limiterVars /\ LimiterFairness

-----------------------------------------------------------------------------
(***************************************************************************)
(* Properties.                                                             *)
(***************************************************************************)

\* The type invariant.
LimiterTypeOK ==
  /\ count \in 0 .. MaxCount
  /\ timed \in BOOLEAN
  /\ call \in [Callers -> {"out", "first", "admitted"}]
  /\ lost \in BOOLEAN

\* A key that counts has its expiry, or a caller is about to give it, whatever
\* other callers, the expiry and restarts do in between: the one way to a count
\* that never ends is that the caller who created the key failed.
LockoutIsTimed ==
  count > 0 /\ ~timed => lost \/ \E c \in Callers : call[c] = "first"

\* "Try again in a minute" (workflow.go:162): whoever is refused is let in again
\* in the end, but for that one failure.
LockoutEnds == count > Limit ~> count = 0 \/ lost
=============================================================================
