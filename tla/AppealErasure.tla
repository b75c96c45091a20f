---------------------------- MODULE AppealErasure ----------------------------
(***************************************************************************)
(* What the platform promises about the text of an appeal, with no status, *)
(* event or worker in sight: it is kept as long as its applicant does not  *)
(* delete the appeal, it is erased for no other reason, and what is erased *)
(* never comes back.  Outbox implements this specification.                *)
(***************************************************************************)

CONSTANT Appeals

VARIABLES stored,  \* the appeals whose text is kept
          deleted  \* the appeals that were deleted

erasureVars == <<stored, deleted>>

Init == stored = {} /\ deleted = {}

Submit(a) == /\ a \notin stored \cup deleted
             /\ stored' = stored \cup {a}
             /\ UNCHANGED deleted

\* Deleting says nothing yet of the text.
Delete(a) == /\ a \in stored \ deleted
             /\ deleted' = deleted \cup {a}
             /\ UNCHANGED stored

Erase(a) == /\ a \in stored \cap deleted
            /\ stored' = stored \ {a}
            /\ UNCHANGED deleted

Next == \E a \in Appeals : Submit(a) \/ Delete(a) \/ Erase(a)

Spec == Init /\ [][Next]_erasureVars
=============================================================================
