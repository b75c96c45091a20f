------------------------------ MODULE MCOutbox ------------------------------
(***************************************************************************)
(* Outbox on a small instance with an operator and an expert.              *)
(***************************************************************************)
EXTENDS Outbox

\* The worker reads neither the chat nor the number of returns: the run leaves
\* out what the staff writes, and answers that are sent back.
SilentStaff ==
  \A a \in Appeals : chat[a] \subseteq {"APPLICANT"} /\ returns[a] = 0
=============================================================================
