----------------------------- MODULE MCCasework -----------------------------
(***************************************************************************)
(* Casework on small instances.  Accounts of one role and concurrent       *)
(* requests are interchangeable, and so are request rows and appeals.      *)
(***************************************************************************)
EXTENDS Casework, TLC

Symmetry == Permutations(Experts) \cup Permutations(Procs)
              \cup Permutations(Requests) \cup Permutations(Appeals)

\* The run on two appeals leaves out what one appeal alone already shows: what
\* is written in the chat and how often an answer is returned.
QuietAppeals == \A a \in Appeals : chat[a] = {} /\ returns[a] = 0
=============================================================================
