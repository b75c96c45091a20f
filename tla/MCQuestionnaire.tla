--------------------------- MODULE MCQuestionnaire ---------------------------
(***************************************************************************)
(* Questionnaire on small instances.  The questions that the migrations    *)
(* did not insert are interchangeable, and so are the editors.             *)
(***************************************************************************)
EXTENDS Questionnaire, TLC

\* What the editors enter.  The question that is there at the beginning adds the
\* third type.
MCShapes ==
  {[type |-> "MULTIPLE", options |-> Options, required |-> FALSE],
   [type |-> "TEXT",     options |-> {},      required |-> TRUE]}

Symmetry == Permutations(Codes \ {Seed}) \cup Permutations(Editors)
=============================================================================
