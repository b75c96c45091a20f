---------------------------- MODULE Questionnaire ----------------------------
(***************************************************************************)
(* The questions an applicant is asked, how administrators change them,    *)
(* and which answers of an appeal are kept: store/store.go (Questions,     *)
(* ValidateQuestionCondition, CreateQuestion, ToggleQuestion and the first *)
(* half of CreateAppeal) with the handlers around them.                    *)
(*                                                                         *)
(* A question may hang on another one: it is shown when its parent is      *)
(* shown and one of its values was chosen there.  Saving a question        *)
(* validates this condition in queries of their own and writes the row     *)
(* afterwards, without a transaction around the two.  What that race does  *)
(* is told by two history variables that no guard reads.                   *)
(***************************************************************************)
EXTENDS Naturals, FiniteSets, Sequences

CONSTANTS
  Codes,        \* codes of the questions that may exist
  Seed,         \* the question the migrations insert
  NoParent,     \* show_if_question_code IS NULL
  Options,      \* texts that can be options
  NoAnswer,     \* a missing answer, null or ""
  Blank, Words, \* other texts: of spaces only, and not
  Shapes,       \* what an editor may enter: answer_type, options, required
  MaxOrder,     \* the highest sort_order an editor enters
  Editors       \* administrators' requests that save at the same time

Types == {"TEXT", "SINGLE", "MULTIPLE"}

ASSUME SeedIsCode == Seed \in Codes /\ NoParent \notin Codes

ASSUME QuestionsAreCounted == IsFiniteSet(Codes) /\ MaxOrder \in Nat

ASSUME AnswersAreDistinct ==
  /\ Cardinality({NoAnswer, Blank, Words}) = 3
  /\ {NoAnswer, Blank, Words} \cap Options = {}

ASSUME ShapesAreShapes ==
  Shapes \subseteq [type : Types, options : SUBSET Options, required : BOOLEAN]

VARIABLES
  questions,  \* questionnaire_questions by code
  born,       \* created_at: the how manieth question it was, 0 if there is none
  tx,         \* the validated questions that are about to be written
  stale,      \* those validated before another save changed a parent
  raced       \* such a question was written all the same

vars == <<questions, born, tx, stale, raced>>

\* What a row holds and a form of the page sends, for the shapes given.
Rows(shapes) == [shape : shapes, active : BOOLEAN, order : 0..MaxOrder,
                 parent : Codes \cup {NoParent}, values : SUBSET Options]
Forms == Rows(Shapes)

Idle == [pc |-> "idle"]

Exists(c) == born[c] > 0
Existing  == {c \in Codes : Exists(c)}
Parent(c) == questions[c].parent
Active(c) == Exists(c) /\ questions[c].active

\* A row like those of migration 001: an optional choice, shown to everybody.
SeedShape == [type |-> "SINGLE", options |-> Options, required |-> FALSE]
SeedRow   == [shape |-> SeedShape, active |-> TRUE, order |-> 0,
              parent |-> NoParent, values |-> {}]

Init == /\ questions = [c \in Codes |-> SeedRow]
        /\ born      = [c \in Codes |-> IF c = Seed THEN 1 ELSE 0]
        /\ tx        = [p \in Editors |-> Idle]
        /\ stale     = {}
        /\ raced     = FALSE

-----------------------------------------------------------------------------
(***************************************************************************)
(* Saving a question.                                                      *)
(***************************************************************************)
\* validQuestion
ValidQuestion(f) ==
  /\ f.shape.type = "TEXT" \/ f.shape.options # {}
  /\ (f.parent = NoParent) <=> (f.values = {})

\* The rows the recursive query finds, from c upwards.
Chain(c) ==
  {x \in Existing : \A S \in SUBSET Codes :
     /\ c \in S
     /\ \A y \in S \cap Existing : Parent(y) \in Codes => Parent(y) \in S
     => x \in S}

\* A chain that comes back to its start.
OnCycle(c) == Exists(c) /\ Parent(c) # NoParent /\ c \in Chain(Parent(c))

\* Slip: only the parent itself is looked at, not the parents above it.
ConditionOfParentOnly(c, f) ==
  f.parent # NoParent =>
    /\ f.parent # c /\ Exists(f.parent)
    /\ questions[f.parent].order < f.order
    /\ questions[f.parent].shape.type # "TEXT"
    /\ f.values \subseteq questions[f.parent].shape.options
    /\ Parent(f.parent) # c

\* Slip: a parent that is not found is not an error.
ConditionOfAnyParent(c, f) ==
  f.parent # NoParent =>
    /\ f.parent # c
    /\ questions[f.parent].order < f.order
    /\ f.values \subseteq questions[f.parent].shape.options
    /\ c \notin Chain(f.parent)

\* ValidateQuestionCondition: the parent is another question, a choice that comes
\* earlier and has the values among its options, and does not itself depend on
\* the question.  The query does not end on a cycle that is there already.
ConditionValid(c, f) ==
  f.parent # NoParent =>
    /\ f.parent # c /\ Exists(f.parent)
    /\ questions[f.parent].order < f.order
    /\ questions[f.parent].shape.type # "TEXT"
    /\ f.values \subseteq questions[f.parent].shape.options
    /\ c \notin Chain(f.parent)
    /\ ~\E x \in Chain(f.parent) : OnCycle(x)

\* createQuestion and saveQuestion, up to the end of the validation.  The page
\* sends the code of the row it edits.
Validate(p, c, f) ==
  /\ tx[p] = Idle
  /\ ValidQuestion(f)
  /\ ConditionValid(c, f)
  /\ tx' = [tx EXCEPT ![p] = [pc |-> "validated", code |-> c, form |-> f,
                              new |-> ~Exists(c)]]
  /\ UNCHANGED <<questions, born, stale, raced>>

\* CreateQuestion, INSERT; a code that exists by now is refused (Fail).  Nothing
\* hangs on a question that was not there: no other validation becomes stale.
CreateQuestion(p) ==
  LET c == tx[p].code IN
  /\ tx[p] # Idle /\ tx[p].new /\ ~Exists(c)
  /\ questions' = [questions EXCEPT ![c] = tx[p].form]
  /\ born'      = [born EXCEPT ![c] = Cardinality(Existing) + 1]
  /\ tx'        = [tx EXCEPT ![p] = Idle]
  /\ stale'     = stale \ {p}
  /\ UNCHANGED raced

\* saveQuestion, UPDATE
SaveQuestion(p) ==
  /\ tx[p] # Idle /\ ~tx[p].new
  /\ questions' = [questions EXCEPT ![tx[p].code] = tx[p].form]
  /\ tx'        = [tx EXCEPT ![p] = Idle]
  /\ stale'     = (stale \cup IF tx[p].form.parent # Parent(tx[p].code)
                              THEN {q \in Editors : tx[q] # Idle} ELSE {}) \ {p}
  /\ raced'     = (raced \/ p \in stale)
  /\ UNCHANGED born

\* ToggleQuestion: one statement that looks at nothing else.
ToggleQuestion(c, active) ==
  /\ Exists(c)
  /\ questions' = [questions EXCEPT ![c].active = active]
  /\ UNCHANGED <<born, tx, stale, raced>>

\* The client goes away, or the statement fails.
Fail(p) ==
  /\ tx[p] # Idle
  /\ tx' = [tx EXCEPT ![p] = Idle]
  /\ stale' = stale \ {p}
  /\ UNCHANGED <<questions, born, raced>>

Next ==
  \/ \E p \in Editors :
       \/ \E c \in Codes, f \in Forms : Validate(p, c, f)
       \/ CreateQuestion(p) \/ SaveQuestion(p) \/ Fail(p)
  \/ \E c \in Codes, active \in BOOLEAN : ToggleQuestion(c, active)

Spec == Init /\ [][Next]_vars

-----------------------------------------------------------------------------
(***************************************************************************)
(* The answers of an appeal.                                               *)
(***************************************************************************)
Texts   == {Blank, Words} \cup Options
Lists   == {[chosen |-> S] : S \in SUBSET Options}
Answers == {NoAnswer} \cup Texts \cup Lists

\* answerMatches: a text that is one of the values, or a list with one of them.
AnswerMatches(v, values) ==
  v \in values \/ (v \in Lists /\ v.chosen \cap values # {})

\* The switch on the answer type.
ValidAnswer(v, shape) ==
  CASE shape.type = "TEXT"     -> v \in Texts /\ (shape.required => v # Blank)
    [] shape.type = "SINGLE"   -> v \in shape.options
    [] shape.type = "MULTIPLE" -> /\ v \in Lists /\ v.chosen \subseteq shape.options
                                  /\ shape.required => v.chosen # {}

\* ORDER BY sort_order, created_at
Before(c, d) ==
  \/ questions[c].order < questions[d].order
  \/ questions[c].order = questions[d].order /\ born[c] < born[d]

ActiveQuestions == {c \in Codes : Active(c)}

\* Slip: the whole table in the order of creation.
QuestionsAsCreated ==
  CHOOSE list \in [1 .. Cardinality(ActiveQuestions) -> ActiveQuestions] :
    \A i, j \in DOMAIN list : i < j => born[list[i]] < born[list[j]]

\* Questions(onlyActive)
QuestionList ==
  CHOOSE list \in [1 .. Cardinality(ActiveQuestions) -> ActiveQuestions] :
    \A i, j \in DOMAIN list : i < j => Before(list[i], list[j])

Refused == [accepted |-> FALSE]
Accepted(answers) == [accepted |-> TRUE, answers |-> answers]

\* One turn of the loop of CreateAppeal: so far holds the questions shown, the
\* answers kept, and whether the input was refused.
AskOne(given, sofar, c) ==
  LET q == questions[c]
      v == given[c]
  IN IF \/ sofar.refused
        \/ /\ q.parent # NoParent
           /\ q.parent \notin sofar.shown \/ ~AnswerMatches(given[q.parent], q.values)
     THEN sofar
     ELSE [shown   |-> sofar.shown \cup {c},
           kept    |-> IF v = NoAnswer THEN sofar.kept ELSE sofar.kept \cup {c},
           refused |-> IF v = NoAnswer THEN q.shape.required
                       ELSE ~ValidAnswer(v, q.shape)]

\* The loop, by the number of turns made.
AskAll(given, list) ==
  LET asking[n \in 0 .. Len(list)] ==
        IF n = 0 THEN [shown |-> {}, kept |-> {}, refused |-> FALSE]
                 ELSE AskOne(given, asking[n - 1], list[n])
  IN asking

\* The answers CreateAppeal keeps of those that are given, or Refused.
CleanAnswers(given) ==
  LET list == QuestionList
      end  == AskAll(given, list)[Len(list)]
  IN IF end.refused THEN Refused ELSE Accepted([c \in end.kept |-> given[c]])

-----------------------------------------------------------------------------
(***************************************************************************)
(* Properties.                                                             *)
(***************************************************************************)

\* The type invariant, with what the foreign key and the check constraint of
\* show_if_question_code demand: the validation never leaves it to them.
QuestionsTypeOK ==
  /\ questions \in [Codes -> Rows(Shapes \cup {SeedShape})]
  /\ born \in [Codes -> 0..Cardinality(Codes)]
  /\ \A p \in Editors : tx[p] = Idle \/
       tx[p] \in [pc : {"validated"}, code : Codes, form : Forms, new : BOOLEAN]
  /\ \A c \in Existing : Parent(c) \in (Existing \ {c}) \cup {NoParent}
  /\ stale \subseteq {p \in Editors : tx[p] # Idle} /\ raced \in BOOLEAN

\* No question depends on itself, over any number of parents.  Each save is
\* validated, but against the questions as they were before it: a cycle can be
\* closed by a save that another one has overtaken (raced), and by nothing else.
NoCycles == \A c \in Codes : ~OnCycle(c)

\* Between two edits, where the questionnaire is what the applicants see.
AtRest == \A p \in Editors : tx[p] = Idle

\* Whether a question is put to an applicant, said without an order of evaluation:
\* all it depends on is active and each of these questions comes after its parent and
\* was unlocked by the answer there.
Appears(c, given) ==
  /\ Exists(c)
  /\ \A x \in Chain(c) :
       /\ Active(x)
       /\ Parent(x) # NoParent =>
            /\ Before(Parent(x), x)
            /\ AnswerMatches(given[Parent(x)], questions[x].values)

\* CreateAppeal keeps the answers to exactly the questions that appear, and
\* refuses an appeal exactly if one of these has a wrong answer or lacks one it requires,
\* in whatever way the questions were created, moved and switched off before.
AnswersAreFiltered ==
  AtRest => \A given \in [Codes -> Answers] :
    LET asked == {c \in Codes : Appears(c, given)}
        wrong == {c \in asked : IF given[c] = NoAnswer THEN questions[c].shape.required
                                ELSE ~ValidAnswer(given[c], questions[c].shape)}
    IN CleanAnswers(given) = IF wrong # {} THEN Refused
         ELSE Accepted([c \in {x \in asked : given[x] # NoAnswer} |-> given[c]])

-----------------------------------------------------------------------------
(***************************************************************************)
(* A statement the repository makes of the program and the code breaks.    *)
(***************************************************************************)

\* AdminQuestions.tsx:7: a child question appears after the chosen answer of its
\* parent.  So an active question is asked if its parent has been answered with
\* one of its values.
ChildFollowsAnswer ==
  AtRest => \A c \in Codes, given \in [Codes -> Answers] :
    LET result == CleanAnswers(given) IN
    /\ Active(c) /\ Parent(c) # NoParent
    /\ result.accepted /\ Parent(c) \in DOMAIN result.answers
    /\ AnswerMatches(given[Parent(c)], questions[c].values)
    /\ ValidAnswer(given[c], questions[c].shape)
    => c \in DOMAIN result.answers
=============================================================================
