------------------------- MODULE QuestionnaireProofs -------------------------
(***************************************************************************)
(* Theorems about Questionnaire, for any number of questions, options and  *)
(* positions: a question hangs on one that is there, and an appeal keeps   *)
(* the answers to the questions that appear; a question comes to hang on   *)
(* itself over others only where two saves overtake each other.            *)
(***************************************************************************)
EXTENDS Questionnaire, FiniteSetTheorems, TLAPS

-----------------------------------------------------------------------------
(***************************************************************************)
(* Rows and forms.                                                         *)
(***************************************************************************)
\* What was validated and waits to be written: its parent is another question
\* that is there, and so is the question itself if it is not a new one.
FormsHold ==
  /\ tx \in [Editors -> {Idle} \cup
               [pc : {"validated"}, code : Codes, form : Forms, new : BOOLEAN]]
  /\ \A p \in Editors : tx[p] # Idle =>
       /\ tx[p].form.parent \in (Existing \ {tx[p].code}) \cup {NoParent}
       /\ ~tx[p].new => Exists(tx[p].code)

RowsInv == QuestionsTypeOK /\ FormsHold

LEMMA RowsInitially == Init => RowsInv
<1> SUFFICES ASSUME Init PROVE RowsInv
  OBVIOUS
<1>1. SeedRow \in Rows(Shapes \cup {SeedShape})
  BY QuestionsAreCounted DEF SeedRow, Rows
<1>2. questions \in [Codes -> Rows(Shapes \cup {SeedShape})]
  BY <1>1 DEF Init
<1>3. born \in [Codes -> 0 .. Cardinality(Codes)]
  <2>1. Cardinality({Seed}) <= Cardinality(Codes) /\ Cardinality({Seed}) = 1
    BY SeedIsCode, QuestionsAreCounted, FS_Subset, FS_Singleton
  <2>2. Cardinality(Codes) \in Nat
    BY QuestionsAreCounted, FS_CardinalityType
  <2>3. \A n \in Nat : 1 <= n => 0 \in 0 .. n /\ 1 \in 0 .. n
    OBVIOUS
  <2>4. 0 \in 0 .. Cardinality(Codes) /\ 1 \in 0 .. Cardinality(Codes)
    BY <2>1, <2>2, <2>3
  <2> HIDE DEF Init
  <2>5. born = [c \in Codes |-> IF c = Seed THEN 1 ELSE 0]
    BY DEF Init
  <2> QED
    BY <2>4, <2>5
<1>4. \A c \in Codes : Parent(c) = NoParent
  BY DEF Init, Parent, SeedRow
<1>5. QuestionsTypeOK
  BY <1>2, <1>3, <1>4 DEF QuestionsTypeOK, Init, Existing
<1>6. FormsHold
  BY DEF FormsHold, Init
<1> QED
  BY <1>5, <1>6 DEF RowsInv

\* A row that is written: the form of a validated question.
Written(c, f) ==
  /\ questions' = [questions EXCEPT ![c] = f]
  /\ Existing'  = Existing \cup {c}
  /\ f.parent \in (Existing \ {c}) \cup {NoParent}

LEMMA FormsAreRows == Forms \subseteq Rows(Shapes \cup {SeedShape})
BY DEF Forms, Rows

\* Writing and inserting a question.
LEMMA WritesKeepRows ==
  ASSUME RowsInv, NEW p \in Editors, CreateQuestion(p) \/ SaveQuestion(p)
  PROVE  RowsInv' /\ tx[p] # Idle /\ Written(tx[p].code, tx[p].form)
<1> DEFINE c == tx[p].code  f == tx[p].form
<1>1. tx[p] # Idle
  BY DEF CreateQuestion, SaveQuestion
<1>2. /\ c \in Codes /\ f \in Forms
      /\ f.parent \in (Existing \ {c}) \cup {NoParent}
      /\ ~tx[p].new => Exists(c)
  BY <1>1 DEF RowsInv, FormsHold
<1>3. questions' = [questions EXCEPT ![c] = f] /\ tx' = [tx EXCEPT ![p] = Idle]
  BY DEF CreateQuestion, SaveQuestion
<1>4. born' \in [Codes -> 0 .. Cardinality(Codes)] /\ Existing' = Existing \cup {c}
  <2>1. CASE SaveQuestion(p)
    BY <1>2, <2>1 DEF SaveQuestion, RowsInv, QuestionsTypeOK, Existing, Exists
  <2>2. CASE CreateQuestion(p)
    <3> DEFINE n == Cardinality(Existing) + 1
    <3>1. c \notin Existing /\ born' = [born EXCEPT ![c] = n]
      BY <2>2 DEF CreateQuestion, Existing
    <3>2. IsFiniteSet(Existing) /\ Existing \cup {c} \subseteq Codes
      BY <1>2, QuestionsAreCounted, FS_Subset DEF Existing
    <3>3. Cardinality(Existing \cup {c}) = n
      BY <3>1, <3>2, FS_AddElement
    <3>4. n <= Cardinality(Codes)
      BY <3>2, <3>3, QuestionsAreCounted, FS_Subset
    <3>5. Cardinality(Existing) \in Nat /\ Cardinality(Codes) \in Nat
      BY <3>2, QuestionsAreCounted, FS_CardinalityType
    <3>6. n > 0 /\ n \in 0 .. Cardinality(Codes)
      BY <3>4, <3>5
    <3> HIDE DEF n
    <3>7. born \in [Codes -> 0 .. Cardinality(Codes)]
      BY DEF RowsInv, QuestionsTypeOK
    <3>8. born'[c] = n /\ \A x \in Codes \ {c} : born'[x] = born[x]
      BY <1>2, <3>1, <3>7
    <3>9. Existing' = {x \in Codes : born'[x] > 0}
      BY DEF Existing, Exists
    <3> QED
      BY <1>2, <3>1, <3>6, <3>7, <3>8, <3>9 DEF Existing, Exists
  <2> QED
    BY <2>1, <2>2
<1>5. questions' \in [Codes -> Rows(Shapes \cup {SeedShape})]
  BY <1>2, <1>3, FormsAreRows DEF RowsInv, QuestionsTypeOK
<1>6. \A x \in Existing' : Parent(x)' \in (Existing' \ {x}) \cup {NoParent}
  <2>1. \A x \in Codes \ {c} : questions'[x] = questions[x]
    BY <1>3 DEF RowsInv, QuestionsTypeOK
  <2>2. questions'[c] = f
    BY <1>2, <1>3 DEF RowsInv, QuestionsTypeOK
  <2>3. \A x \in Existing : x \in Codes /\ questions[x].parent \in (Existing \ {x}) \cup {NoParent}
    BY DEF RowsInv, QuestionsTypeOK, Parent, Existing
  <2> QED
    BY <1>2, <1>4, <2>1, <2>2, <2>3 DEF Parent
<1>7. FormsHold'
  <2>1. tx' \in [Editors -> {Idle} \cup
                  [pc : {"validated"}, code : Codes, form : Forms, new : BOOLEAN]]
    BY <1>3 DEF RowsInv, FormsHold
  <2>2. \A q \in Editors : tx'[q] # Idle => tx'[q] = tx[q]
    BY <1>3 DEF RowsInv, FormsHold
  <2>3. \A x \in Codes : Exists(x)' <=> x \in Existing'
    BY DEF Existing
  <2> QED
    BY <1>4, <2>1, <2>2, <2>3 DEF RowsInv, FormsHold, Existing
<1>8. stale' \subseteq {q \in Editors : tx'[q] # Idle} /\ raced' \in BOOLEAN
  <2>1. stale' \subseteq {q \in Editors : tx[q] # Idle} \ {p}
    BY DEF CreateQuestion, SaveQuestion, RowsInv, QuestionsTypeOK
  <2>2. \A q \in Editors \ {p} : tx'[q] = tx[q]
    BY <1>3 DEF RowsInv, FormsHold
  <2>3. raced' \in BOOLEAN
    BY DEF CreateQuestion, SaveQuestion, RowsInv, QuestionsTypeOK
  <2> QED
    BY <2>1, <2>2, <2>3
<1>9. QuestionsTypeOK'
  BY <1>4, <1>5, <1>6, <1>7, <1>8 DEF QuestionsTypeOK, FormsHold
<1> QED
  BY <1>1, <1>2, <1>3, <1>4, <1>7, <1>9 DEF RowsInv, Written

\* A validation reads what it asserts, and writes nothing.
LEMMA ValidationKeepsRows ==
  ASSUME RowsInv, NEW p \in Editors, NEW c \in Codes, NEW f \in Forms, Validate(p, c, f)
  PROVE  RowsInv'
<1> DEFINE t == [pc |-> "validated", code |-> c, form |-> f, new |-> ~Exists(c)]
<1>1. /\ tx' = [tx EXCEPT ![p] = t]
      /\ UNCHANGED <<questions, born, stale, raced>>
  BY DEF Validate
<1>2. f.parent \in (Existing \ {c}) \cup {NoParent}
  BY DEF Validate, ConditionValid, Forms, Rows, Existing
<1>3. t \in [pc : {"validated"}, code : Codes, form : Forms, new : BOOLEAN]
  OBVIOUS
<1>4. t.form = f /\ t.code = c /\ (~t.new => Exists(c))
  OBVIOUS
<1> HIDE DEF t
<1>5. /\ tx' \in [Editors -> {Idle} \cup
                  [pc : {"validated"}, code : Codes, form : Forms, new : BOOLEAN]]
      /\ \A q \in Editors : tx'[q] = IF q = p THEN t ELSE tx[q]
  BY <1>1, <1>3 DEF RowsInv, FormsHold
<1>6. FormsHold'
  BY <1>1, <1>2, <1>4, <1>5 DEF RowsInv, FormsHold, Existing, Exists
<1>7. stale' \subseteq {q \in Editors : tx'[q] # Idle} /\ raced' \in BOOLEAN
  <2>1. p \notin stale
    BY DEF Validate, RowsInv, QuestionsTypeOK
  <2> QED
    BY <1>1, <1>5, <2>1 DEF RowsInv, QuestionsTypeOK
<1>8. QuestionsTypeOK'
  BY <1>1, <1>6, <1>7 DEF RowsInv, QuestionsTypeOK, FormsHold, Existing, Exists, Parent
<1> QED
  BY <1>6, <1>8 DEF RowsInv

\* Switching a question and giving up.
LEMMA TogglesKeepRows ==
  ASSUME RowsInv, NEW c \in Codes, NEW active \in BOOLEAN, ToggleQuestion(c, active)
  PROVE  RowsInv' /\ \A x \in Codes : Parent(x)' = Parent(x)
<1>1. /\ questions' = [questions EXCEPT ![c] = [questions[c] EXCEPT !.active = active]]
      /\ UNCHANGED <<born, tx, stale, raced>>
  BY DEF ToggleQuestion
<1>2. questions[c] \in Rows(Shapes \cup {SeedShape})
  BY DEF RowsInv, QuestionsTypeOK
<1>3. /\ [questions[c] EXCEPT !.active = active] \in Rows(Shapes \cup {SeedShape})
      /\ [questions[c] EXCEPT !.active = active].parent = questions[c].parent
  BY <1>2 DEF Rows
<1>4. /\ questions' \in [Codes -> Rows(Shapes \cup {SeedShape})]
      /\ \A x \in Codes : Parent(x)' = Parent(x)
  BY <1>1, <1>3 DEF RowsInv, QuestionsTypeOK, Parent
<1>5. Existing' = Existing /\ Existing \subseteq Codes
  BY <1>1 DEF Existing, Exists
<1>6. QuestionsTypeOK'
  BY <1>1, <1>4, <1>5 DEF RowsInv, QuestionsTypeOK
<1>7. FormsHold'
  BY <1>1, <1>5 DEF RowsInv, FormsHold, Exists
<1> QED
  BY <1>4, <1>6, <1>7 DEF RowsInv

LEMMA FailuresKeepRows ==
  ASSUME RowsInv, NEW p \in Editors, Fail(p)
  PROVE  RowsInv'
<1>1. /\ tx' = [tx EXCEPT ![p] = Idle] /\ stale' = stale \ {p}
      /\ UNCHANGED <<questions, born, raced>>
  BY DEF Fail
<1>2. /\ tx' \in [Editors -> {Idle} \cup
                  [pc : {"validated"}, code : Codes, form : Forms, new : BOOLEAN]]
      /\ \A q \in Editors : tx'[q] # Idle => tx'[q] = tx[q]
      /\ \A q \in Editors \ {p} : tx'[q] = tx[q]
  BY <1>1 DEF RowsInv, FormsHold
<1>3. FormsHold'
  BY <1>1, <1>2 DEF RowsInv, FormsHold, Existing, Exists
<1>4. stale' \subseteq {q \in Editors : tx'[q] # Idle} /\ raced' \in BOOLEAN
  BY <1>1, <1>2 DEF RowsInv, QuestionsTypeOK
<1> QED
  BY <1>1, <1>3, <1>4 DEF RowsInv, QuestionsTypeOK, FormsHold, Existing, Exists, Parent

LEMMA RowsInductive == RowsInv /\ [Next]_vars => RowsInv'
<1> SUFFICES ASSUME RowsInv, [Next]_vars PROVE RowsInv'
  OBVIOUS
<1>1. CASE UNCHANGED vars
  BY <1>1 DEF vars, RowsInv, QuestionsTypeOK, FormsHold, Existing, Exists, Parent
<1>2. CASE Next
  BY <1>2, WritesKeepRows, ValidationKeepsRows, TogglesKeepRows, FailuresKeepRows DEF Next
<1> QED
  BY <1>1, <1>2

\* A row of the questionnaire is well formed and its parent is another question
\* that is there, however many administrators edit at the same time: the foreign
\* key and the check constraint never have to refuse what was validated.
THEOREM QuestionsAreSound == Spec => []QuestionsTypeOK
<1>1. RowsInv => QuestionsTypeOK
  BY DEF RowsInv
<1> QED
  BY <1>1, RowsInitially, RowsInductive, PTL DEF Spec

-----------------------------------------------------------------------------
(***************************************************************************)
(* Chains.  The recursive query finds the least set of questions that has  *)
(* its start and with each question the parent.                            *)
(***************************************************************************)
Upward(S) == \A y \in S \cap Existing : Parent(y) \in Codes => Parent(y) \in S

\* The chain of a question that is there: its start, the way up, nothing else.
LEMMA ChainsAreLeast ==
  ASSUME RowsInv, NEW c \in Existing
  PROVE  /\ c \in Chain(c) /\ Chain(c) \subseteq Existing
         /\ Upward(Chain(c))
         /\ \A S \in SUBSET Codes : c \in S /\ Upward(S) => Chain(c) \subseteq S
<1>1. \A y \in Existing : Parent(y) \in Existing \cup {NoParent}
  BY DEF RowsInv, QuestionsTypeOK
<1>2. NoParent \notin Codes
  BY SeedIsCode
<1> QED
  BY <1>1, <1>2 DEF Chain, Upward

\* A question that is given a parent outside of its own dependants, the others as
\* they were, closes no cycle.
LEMMA HangingClosesNoCycle ==
  ASSUME RowsInv, NoCycles, NEW c \in Codes, NEW f, Written(c, f),
         f.parent # NoParent => c \notin Chain(f.parent)
  PROVE  NoCycles'
<1>1. \A y \in Codes \ {c} : Parent(y)' = Parent(y)
  BY DEF Written, Parent, RowsInv, QuestionsTypeOK
<1>2. Parent(c)' = f.parent /\ Existing' = Existing \cup {c} /\ Existing \subseteq Codes
  BY DEF Written, Parent, RowsInv, QuestionsTypeOK, Existing
<1>3. SUFFICES ASSUME NEW x \in Codes, OnCycle(x)' PROVE FALSE
  BY DEF NoCycles
<1>4. ASSUME NEW S \in SUBSET Codes, x \notin S, Parent(x)' \in S,
             \A y \in S \cap Existing' : Parent(y)' \in Codes => Parent(y)' \in S
      PROVE  FALSE
  BY <1>3, <1>4 DEF OnCycle, Chain
<1>5. x \in Existing' /\ Parent(x)' # NoParent
  BY <1>3 DEF OnCycle, Existing
<1>6. f.parent \in (Existing \ {c}) \cup {NoParent}
  BY DEF Written
<1>7. f.parent # NoParent =>
        /\ Chain(f.parent) \subseteq Existing /\ Upward(Chain(f.parent))
        /\ f.parent \in Chain(f.parent)
  BY <1>6, ChainsAreLeast
<1>8. CASE x = c
  <2>1. /\ Chain(f.parent) \in SUBSET Codes /\ c \notin Chain(f.parent)
        /\ f.parent \in Chain(f.parent) /\ Upward(Chain(f.parent))
    BY <1>2, <1>5, <1>7, <1>8
  <2>2. \A y \in Chain(f.parent) \cap Existing' :
          Parent(y)' \in Codes => Parent(y)' \in Chain(f.parent)
    BY <1>1, <1>2, <2>1 DEF Upward
  <2> QED
    BY <1>2, <1>4, <1>8, <2>1, <2>2
<1>9. CASE x # c
  <2> DEFINE d == Parent(x)
  <2>1. x \in Existing /\ Parent(x)' = d /\ d # NoParent
    BY <1>1, <1>2, <1>5, <1>9
  <2>2. d \in Existing
    BY <2>1 DEF RowsInv, QuestionsTypeOK
  <2>3. /\ d \in Chain(d) /\ Chain(d) \subseteq Existing /\ Upward(Chain(d))
        /\ \A S \in SUBSET Codes : d \in S /\ Upward(S) => Chain(d) \subseteq S
    BY <2>2, ChainsAreLeast
  <2>4. x \notin Chain(d)
    BY <2>1 DEF NoCycles, OnCycle, Existing
  <2>5. CASE c \notin Chain(d) \/ f.parent = NoParent
    <3>1. \A y \in Chain(d) \cap Existing' : Parent(y)' \in Codes => Parent(y)' \in Chain(d)
      BY <1>1, <1>2, <2>3, <2>5, SeedIsCode DEF Upward
    <3> QED
      BY <1>2, <1>4, <2>1, <2>3, <2>4, <3>1
  <2>6. CASE c \in Chain(d) /\ f.parent # NoParent
    <3> DEFINE S == Chain(d) \cup Chain(f.parent)
    <3>1. S \in SUBSET Codes /\ d \in S
      BY <1>2, <1>7, <2>3, <2>6
    <3>2. x \notin Chain(f.parent)
      <4>1. SUFFICES ASSUME x \in Chain(f.parent) PROVE FALSE
        OBVIOUS
      <4>2. d \in Chain(f.parent)
        BY <1>2, <1>7, <2>1, <2>2, <2>6, <4>1 DEF Upward
      <4>3. Chain(d) \subseteq Chain(f.parent)
        BY <1>2, <1>7, <2>3, <2>6, <4>2
      <4> QED
        BY <2>6, <4>3
    <3>3. \A y \in S \cap Existing' : Parent(y)' \in Codes => Parent(y)' \in S
      BY <1>1, <1>2, <1>7, <2>3, <2>6 DEF Upward
    <3> HIDE DEF S
    <3>4. x \notin S
      BY <2>4, <3>2 DEF S
    <3> QED
      BY <1>4, <2>1, <3>1, <3>3, <3>4
  <2> QED
    BY <2>5, <2>6
<1> QED
  BY <1>8, <1>9

-----------------------------------------------------------------------------
(***************************************************************************)
(* Saves that nothing has overtaken.                                       *)
(***************************************************************************)
\* What was validated is still valid when it is written, unless another save has
\* changed a parent in the meantime.
Moves(p, c, d) ==
  tx[p] # Idle /\ ~tx[p].new /\ tx[p].code = c /\ tx[p].form.parent = d

StillHangs ==
  \A p \in Editors \ stale, c \in Codes, d \in Codes : Moves(p, c, d) => c \notin Chain(d)

CycleInv == RowsInv /\ (~raced => NoCycles /\ StillHangs)

\* A question that is created lengthens no chain that was there.
LEMMA CreationKeepsChains ==
  ASSUME RowsInv, NEW c \in Codes \ Existing, NEW f, Written(c, f), NEW d \in Existing
  PROVE  Chain(d)' \subseteq Chain(d)
<1> DEFINE S == Chain(d)
<1>1. d \in S /\ S \subseteq Existing /\ Upward(S) /\ Existing \subseteq Codes
  BY ChainsAreLeast DEF Existing
<1>2. \A y \in Codes \ {c} : Parent(y)' = Parent(y)
  BY DEF Written, Parent, RowsInv, QuestionsTypeOK
<1> HIDE DEF S
<1>3. \A y \in S \cap Existing' : Parent(y)' \in Codes => Parent(y)' \in S
  BY <1>1, <1>2 DEF Upward
<1>4. ASSUME NEW x \in Chain(d)' PROVE x \in S
  <2>1. d \in S /\ (\A y \in S \cap Existing' : Parent(y)' \in Codes => Parent(y)' \in S)
          => x \in S
    BY <1>1, <1>4 DEF Chain
  <2> QED
    BY <1>1, <1>3, <2>1
<1> QED
  BY <1>4 DEF S

\* Steps that change no parent and create no question.
LEMMA SameParentsSameChains ==
  ASSUME UNCHANGED born, \A x \in Codes : Parent(x)' = Parent(x)
  PROVE  /\ \A d : Chain(d)' = Chain(d)
         /\ NoCycles => NoCycles'
<1>1. Existing' = Existing /\ Existing \subseteq Codes /\ \A x : Exists(x)' = Exists(x)
  BY DEF Existing, Exists
<1>2. ASSUME NEW d PROVE Chain(d)' = Chain(d)
  BY <1>1 DEF Chain
<1>3. NoCycles => NoCycles'
  <2> SUFFICES ASSUME NoCycles, NEW x \in Codes, OnCycle(x)' PROVE FALSE
    BY DEF NoCycles
  <2> DEFINE e == Parent(x)
  <2>1. Exists(x) /\ e # NoParent /\ x \in Chain(e)
    <3>1. Exists(x)' /\ Parent(x)' # NoParent
      BY DEF OnCycle
    <3>2. Parent(x)' = Parent(x)
      OBVIOUS
    <3>3. \A S \in SUBSET Codes :
            Parent(x)' \in S
              /\ (\A y \in S \cap Existing' : Parent(y)' \in Codes => Parent(y)' \in S)
            => x \in S
      BY DEF OnCycle, Chain
    <3>4. \A S \in SUBSET Codes :
            e \in S /\ (\A y \in S \cap Existing : Parent(y) \in Codes => Parent(y) \in S)
            => x \in S
      BY <1>1, <3>2, <3>3
    <3>5. x \in Existing
      BY <1>1, <3>1 DEF Existing
    <3> QED
      BY <1>1, <3>1, <3>2, <3>4, <3>5 DEF Chain
  <2> QED
    BY <2>1 DEF NoCycles, OnCycle
<1> QED
  BY <1>2, <1>3

\* A save that was not overtaken closes no cycle, and what it changes is stale from
\* now on for everybody else.
LEMMA WritesKeepCycles ==
  ASSUME RowsInv, NoCycles, StillHangs, NEW p \in Editors,
         CreateQuestion(p) \/ (SaveQuestion(p) /\ p \notin stale)
  PROVE  NoCycles' /\ StillHangs'
<1> DEFINE c == tx[p].code  f == tx[p].form
<1>1. tx[p] # Idle /\ c \in Codes /\ Written(c, f)
  BY WritesKeepRows DEF RowsInv, FormsHold
<1>2. f.parent # NoParent => c \notin Chain(f.parent)
  <2>1. CASE CreateQuestion(p)
    <3>1. c \notin Existing
      BY <2>1 DEF CreateQuestion, Existing
    <3>2. f.parent # NoParent => Chain(f.parent) \subseteq Existing
      BY <1>1, ChainsAreLeast DEF Written
    <3> QED
      BY <3>1, <3>2
  <2>2. CASE SaveQuestion(p) /\ p \notin stale
    <3>1. f.parent # NoParent => f.parent \in Codes /\ Moves(p, c, f.parent)
      BY <1>1, <2>2 DEF SaveQuestion, Moves, Written, Existing
    <3> QED
      BY <1>1, <2>2, <3>1 DEF StillHangs
  <2> QED
    BY <2>1, <2>2
<1>3. NoCycles'
  <2> HIDE DEF c, f
  <2> QED
    BY <1>1, <1>2, HangingClosesNoCycle
<1>4. /\ tx'[p] = Idle
      /\ \A q \in Editors \ {p} : tx'[q] = tx[q] /\ (q \notin stale' => q \notin stale)
  BY DEF CreateQuestion, SaveQuestion, RowsInv, FormsHold
<1>5. SUFFICES ASSUME NEW q \in Editors \ {p}, q \notin stale', NEW x \in Codes,
                      NEW d \in Codes, Moves(q, x, d)
               PROVE  x \notin Chain(d)'
  BY <1>3, <1>4 DEF StillHangs, Moves
<1>6. d \in Existing /\ x \notin Chain(d)
  BY <1>4, <1>5, SeedIsCode DEF RowsInv, FormsHold, StillHangs, Moves
<1>7. CASE CreateQuestion(p)
  <2>1. c \in Codes \ Existing
    BY <1>1, <1>7 DEF CreateQuestion, Existing
  <2> HIDE DEF c, f
  <2>2. Chain(d)' \subseteq Chain(d)
    BY <1>1, <1>6, <2>1, CreationKeepsChains
  <2> QED
    BY <1>6, <2>2
<1>8. CASE SaveQuestion(p)
  <2>1. f.parent = Parent(c)
    BY <1>5, <1>8 DEF SaveQuestion, Moves
  <2>2. UNCHANGED born /\ \A y \in Codes : Parent(y)' = Parent(y)
    BY <1>1, <1>8, <2>1 DEF SaveQuestion, Parent, RowsInv, QuestionsTypeOK
  <2> HIDE DEF c, f
  <2> QED
    BY <1>6, <2>2, SameParentsSameChains
<1> QED
  BY <1>7, <1>8

LEMMA CyclesInductive == CycleInv /\ [Next]_vars => CycleInv'
<1> SUFFICES ASSUME CycleInv, [Next]_vars, ~raced' PROVE NoCycles' /\ StillHangs'
  BY RowsInductive DEF CycleInv
<1>1. RowsInv /\ ~raced /\ NoCycles /\ StillHangs
  <2>1. ~raced
    BY DEF Next, CreateQuestion, SaveQuestion, Validate, ToggleQuestion, Fail, vars
  <2> QED
    BY <2>1 DEF CycleInv
<1>2. ASSUME UNCHANGED born, \A x \in Codes : Parent(x)' = Parent(x),
             \A p \in Editors : tx'[p] # Idle =>
               tx'[p] = tx[p] /\ (p \notin stale' => p \notin stale)
      PROVE  NoCycles' /\ StillHangs'
  <2>1. NoCycles' /\ \A d : Chain(d)' = Chain(d)
    BY <1>1, <1>2, SameParentsSameChains
  <2>2. ASSUME NEW p \in Editors, p \notin stale', NEW c \in Codes, NEW d \in Codes,
               Moves(p, c, d)'
        PROVE  c \notin Chain(d)'
    <3>1. p \notin stale /\ Moves(p, c, d)
      BY <1>2, <2>2 DEF Moves
    <3> QED
      BY <1>1, <2>1, <3>1 DEF StillHangs
  <2>3. StillHangs'
    BY <2>2 DEF StillHangs
  <2> QED
    BY <2>1, <2>3
<1>3. CASE UNCHANGED vars
  BY <1>2, <1>3 DEF vars, Parent
<1>4. ASSUME NEW p \in Editors, Fail(p) PROVE NoCycles' /\ StillHangs'
  <2>1. \A q \in Editors : tx'[q] # Idle => tx'[q] = tx[q] /\ (q \notin stale' => q \notin stale)
    BY <1>1, <1>4 DEF Fail, RowsInv, FormsHold
  <2> QED
    BY <1>2, <1>4, <2>1 DEF Fail, Parent
<1>5. ASSUME NEW c \in Codes, NEW active \in BOOLEAN, ToggleQuestion(c, active)
      PROVE  NoCycles' /\ StillHangs'
  <2>1. \A x \in Codes : Parent(x)' = Parent(x)
    BY <1>1, <1>5, TogglesKeepRows
  <2> QED
    BY <1>2, <1>5, <2>1 DEF ToggleQuestion
<1>6. ASSUME NEW p \in Editors, CreateQuestion(p) \/ SaveQuestion(p)
      PROVE  NoCycles' /\ StillHangs'
  <2>1. SaveQuestion(p) => p \notin stale
    BY DEF SaveQuestion
  <2> QED
    BY <1>1, <1>6, <2>1, WritesKeepCycles
<1>7. ASSUME NEW p \in Editors, NEW c \in Codes, NEW f \in Forms, Validate(p, c, f)
      PROVE  NoCycles' /\ StillHangs'
  <2>1. UNCHANGED <<questions, born, stale>>
    BY <1>7 DEF Validate
  <2>2. NoCycles' /\ \A d : Chain(d)' = Chain(d)
    BY <1>1, <2>1, SameParentsSameChains DEF Parent
  <2>3. /\ tx'[p].code = c /\ tx'[p].form = f
        /\ f.parent # NoParent => c \notin Chain(f.parent)
        /\ \A q \in Editors \ {p} : tx'[q] = tx[q]
    BY <1>1, <1>7 DEF Validate, ConditionValid, RowsInv, FormsHold
  <2>4. ASSUME NEW q \in Editors, q \notin stale', NEW x \in Codes, NEW d \in Codes,
               Moves(q, x, d)'
        PROVE  x \notin Chain(d)
    <3>1. CASE q = p
      BY <2>3, <2>4, <3>1, SeedIsCode DEF Moves
    <3>2. CASE q # p
      BY <1>1, <2>1, <2>3, <2>4, <3>2 DEF StillHangs, Moves
    <3> QED
      BY <3>1, <3>2
  <2>5. StillHangs'
    BY <2>2, <2>4 DEF StillHangs
  <2> QED
    BY <2>2, <2>5
<1> QED
  BY <1>3, <1>4, <1>5, <1>6, <1>7 DEF Next

LEMMA CyclesInitially == Init => CycleInv
<1> SUFFICES ASSUME Init PROVE CycleInv
  OBVIOUS
<1>1. \A c \in Codes : Parent(c) = NoParent
  BY DEF Init, Parent, SeedRow
<1>2. NoCycles
  BY <1>1 DEF NoCycles, OnCycle
<1>3. StillHangs
  BY DEF Init, StillHangs, Moves
<1> QED
  BY <1>2, <1>3, RowsInitially DEF CycleInv

\* However many administrators edit at the same time, a question comes to depend on
\* itself, over any number of parents, in one way only: the question of a save was
\* validated, another save changed a parent, and the first was written all the same
\* (ValidateQuestionCondition and saveQuestion, without a transaction around the
\* two).  Creating, switching off and moving questions never leads there.
THEOREM NoQuestionWaitsForItself == Spec => [](raced \/ NoCycles)
<1>1. CycleInv => raced \/ NoCycles
  BY DEF CycleInv
<1> QED
  BY <1>1, CyclesInitially, CyclesInductive, PTL DEF Spec

\* With one editor at a time there is nobody to overtake a save: what the run shows of
\* three questions is true of any number.
COROLLARY OneEditorClosesNoCycle ==
  ASSUME \A p, q \in Editors : p = q
  PROVE  Spec => []NoCycles
<1> DEFINE Alone == stale = {} /\ ~raced
<1>1. Init => Alone
  BY DEF Init
<1>2. Alone /\ [Next]_vars => Alone'
  <2> SUFFICES ASSUME Alone, [Next]_vars PROVE Alone'
    OBVIOUS
  <2>1. ASSUME NEW p \in Editors, SaveQuestion(p) PROVE Alone'
    <3>1. {q \in Editors : tx[q] # Idle} \ {p} = {}
      OBVIOUS
    <3> QED
      BY <2>1, <3>1 DEF SaveQuestion
  <2> QED
    BY <2>1 DEF Next, CreateQuestion, Validate, ToggleQuestion, Fail, vars
<1>3. Alone /\ (raced \/ NoCycles) => NoCycles
  OBVIOUS
<1> QED
  BY <1>1, <1>2, <1>3, NoQuestionWaitsForItself, PTL DEF Spec

-----------------------------------------------------------------------------
(***************************************************************************)
(* Lists.  What a loop over a list of any length computes is proved by     *)
(* induction over the number of turns, and the list exists because the     *)
(* order of its elements is total.                                         *)
(***************************************************************************)
\* A set of numbers has a least element: the segments below them are finite sets, and
\* strict inclusion of finite sets is well founded.
LEMMA LeastElement ==
  ASSUME NEW S \in SUBSET Nat, S # {}
  PROVE  \E m \in S : \A n \in S : m <= n
<1> DEFINE Segment(n) == 1 .. n
           T == {Segment(n) : n \in S}
           R == StrictSubsetOrdering(Nat)
<1>1. \A n \in Nat : Segment(n) \in FiniteSubsetsOf(Nat)
  <2> TAKE n \in Nat
  <2>1. IsFiniteSet(1 .. n)
    BY FS_Interval
  <2> QED
    BY <2>1 DEF FiniteSubsetsOf
<1>2. T \subseteq FiniteSubsetsOf(Nat) /\ T # {}
  BY <1>1
<1>3. IsWellFoundedOn(R, FiniteSubsetsOf(Nat))
  BY FS_StrictSubsetOrderingWellFounded
<1>4. PICK m \in S : \A V \in T : <<V, Segment(m)>> \notin R
  <2> HIDE DEF R, T
  <2>1. PICK U \in T : \A V \in T : <<V, U>> \notin R
    BY <1>2, <1>3, WFMin
  <2> QED
    BY <2>1 DEF T
<1>5. ASSUME NEW n \in S, n < m PROVE FALSE
  <2>1. m \in Segment(m) /\ m \notin Segment(n) /\ Segment(n) \subseteq Segment(m)
    BY <1>5
  <2>2. <<Segment(n), Segment(m)>> \in R
    BY <2>1 DEF StrictSubsetOrdering
  <2> QED
    BY <1>4, <2>2
<1>6. \A n \in S : m <= n
  BY <1>5
<1> QED
  BY <1>6

\* What holds at 0 and goes on up to N holds up to N.
LEMMA InductionOverPositions ==
  ASSUME NEW N \in Nat, NEW S \in SUBSET Nat, 0 \in S,
         \A n \in S : n < N => n + 1 \in S
  PROVE  0 .. N \subseteq S
<1> SUFFICES ASSUME (0 .. N) \ S # {} PROVE FALSE
  OBVIOUS
<1>1. (0 .. N) \ S \in SUBSET Nat
  OBVIOUS
<1>2. PICK m \in (0 .. N) \ S : \A n \in (0 .. N) \ S : m <= n
  BY <1>1, LeastElement
<1>3. m - 1 \in 0 .. N /\ m - 1 \in S /\ m - 1 < N
  BY <1>2
<1> QED
  BY <1>3

\* A finite set under a strict total order.
TotalOrder(R, A) ==
  /\ \A c \in A : <<c, c>> \notin R
  /\ \A c, d \in A : c = d \/ <<c, d>> \in R \/ <<d, c>> \in R
  /\ \A c, d, e \in A : <<c, d>> \in R /\ <<d, e>> \in R => <<c, e>> \in R

Sorted(list, R) ==
  \A i, j \in DOMAIN list : i < j => <<list[i], list[j]>> \in R

\* A list sorts them: each gets the number of those up to it.
LEMMA SortedListExists ==
  ASSUME NEW A, IsFiniteSet(A), NEW R, TotalOrder(R, A)
  PROVE  \E list \in [1 .. Cardinality(A) -> A] : Sorted(list, R)
<1> DEFINE N == Cardinality(A)
           UpTo(c) == {d \in A : d = c \/ <<d, c>> \in R}
           rank == [c \in A |-> Cardinality(UpTo(c))]
<1>1. N \in Nat /\ IsFiniteSet(1 .. N) /\ Cardinality(1 .. N) = N
  <2>1. N \in Nat
    BY FS_CardinalityType
  <2> HIDE DEF N
  <2>2. IsFiniteSet(1 .. N) /\ Cardinality(1 .. N) = IF 1 > N THEN 0 ELSE N - 1 + 1
    BY <2>1, FS_Interval
  <2> QED
    BY <2>1, <2>2
<1>2. \A c \in A : rank[c] \in 1 .. N
  <2> TAKE c \in A
  <2>1. /\ IsFiniteSet(UpTo(c)) /\ Cardinality(UpTo(c)) <= N
        /\ Cardinality(UpTo(c)) \in Nat
    BY FS_Subset, FS_CardinalityType
  <2>2. Cardinality({c}) <= Cardinality(UpTo(c)) /\ Cardinality({c}) = 1
    <3>1. {c} \in SUBSET UpTo(c)
      OBVIOUS
    <3> QED
      BY <2>1, <3>1, FS_Subset, FS_Singleton
  <2> HIDE DEF N, UpTo
  <2> QED
    BY <1>1, <2>1, <2>2
<1>3. \A c, d \in A : <<c, d>> \in R => rank[c] < rank[d]
  <2> SUFFICES ASSUME NEW c \in A, NEW d \in A, <<c, d>> \in R
               PROVE  rank[c] < rank[d]
    OBVIOUS
  <2>1. UpTo(c) \in SUBSET UpTo(d) /\ d \in UpTo(d) /\ d \notin UpTo(c)
    BY DEF TotalOrder
  <2>2. IsFiniteSet(UpTo(d))
    BY FS_Subset
  <2>3. /\ Cardinality(UpTo(c)) <= Cardinality(UpTo(d))
        /\ Cardinality(UpTo(d)) # Cardinality(UpTo(c))
    BY <2>1, <2>2, FS_Subset
  <2>4. rank[c] = Cardinality(UpTo(c)) /\ rank[d] = Cardinality(UpTo(d))
    OBVIOUS
  <2>5. rank[c] \in Nat /\ rank[d] \in Nat
    BY <1>1, <1>2
  <2> HIDE DEF rank, UpTo
  <2> QED
    BY <2>3, <2>4, <2>5
<1> HIDE DEF rank, N
<1>4. rank \in Surjection(A, 1 .. N)
  <2>1. rank \in [A -> 1 .. N]
    BY <1>2 DEF rank
  <2>2. \A c, d \in A : rank[c] = rank[d] => c = d
    <3> SUFFICES ASSUME NEW c \in A, NEW d \in A, rank[c] = rank[d] PROVE c = d
      OBVIOUS
    <3>1. ~(rank[c] < rank[d]) /\ ~(rank[d] < rank[c])
      BY <1>1, <1>2
    <3>2. <<c, d>> \notin R /\ <<d, c>> \notin R
      BY <1>3, <3>1
    <3> QED
      BY <3>2 DEF TotalOrder
  <2>3. rank \in Injection(A, 1 .. N)
    BY <2>1, <2>2 DEF Injection, IsInjective
  <2> QED
    BY <1>1, <2>3, FS_Injection DEF N
<1> DEFINE list == [i \in 1 .. N |-> CHOOSE c \in A : rank[c] = i]
<1>5. \A i \in 1 .. N : list[i] \in A /\ rank[list[i]] = i
  BY <1>4 DEF Surjection
<1>6. list \in [1 .. N -> A]
  BY <1>5
<1>7. Sorted(list, R)
  <2> SUFFICES ASSUME NEW i \in 1 .. N, NEW j \in 1 .. N, i < j
               PROVE  <<list[i], list[j]>> \in R
    BY DEF Sorted
  <2>1. list[i] \in A /\ list[j] \in A /\ rank[list[i]] < rank[list[j]]
    BY <1>5
  <2>2. /\ list[i] # list[j]
        /\ ~(rank[list[j]] < rank[list[i]])
    <3>1. rank[list[i]] = i /\ rank[list[j]] = j
      BY <1>5
    <3>2. i # j /\ ~(j < i)
      BY <1>1
    <3> HIDE DEF list
    <3> QED
      BY <3>1, <3>2
  <2> HIDE DEF list
  <2>3. <<list[j], list[i]>> \notin R
    BY <1>3, <2>1, <2>2
  <2> QED
    BY <2>1, <2>2, <2>3 DEF TotalOrder
<1> HIDE DEF list
<1> QED
  BY <1>6, <1>7 DEF N

\* A sorted list that is as long as the set is large has all of it.
LEMMA SortedListHasAll ==
  ASSUME NEW A, IsFiniteSet(A), NEW R, TotalOrder(R, A),
         NEW list \in [1 .. Cardinality(A) -> A], Sorted(list, R)
  PROVE  \A c \in A : \E i \in 1 .. Cardinality(A) : list[i] = c
<1> DEFINE N == Cardinality(A)
<1>1. N \in Nat
  BY FS_CardinalityType
<1>2. list \in [1 .. N -> A]
  OBVIOUS
<1> HIDE DEF N
<1>3. Cardinality(1 .. N) = N
  <2>1. Cardinality(1 .. N) = IF 1 > N THEN 0 ELSE N - 1 + 1
    BY <1>1, FS_Interval
  <2> QED
    BY <1>1, <2>1
<1>4. \A i, j \in 1 .. N : list[i] = list[j] => i = j
  <2> SUFFICES ASSUME NEW i \in 1 .. N, NEW j \in 1 .. N, i # j PROVE list[i] # list[j]
    OBVIOUS
  <2>0. i < j \/ j < i
    BY <1>1
  <2>1. list[i] \in A /\ (i < j \/ j < i)
    BY <1>2, <2>0
  <2>2. <<list[i], list[j]>> \in R \/ <<list[j], list[i]>> \in R
    BY <1>2, <2>1 DEF Sorted
  <2> QED
    BY <2>1, <2>2 DEF TotalOrder
<1>5. list \in Injection(1 .. N, A)
  BY <1>2, <1>4 DEF Injection, IsInjective
<1>6. list \in Surjection(1 .. N, A)
  BY <1>3, <1>5, FS_Injection DEF N
<1> QED
  BY <1>6 DEF Surjection, N

-----------------------------------------------------------------------------
(***************************************************************************)
(* The list of questions.                                                  *)
(***************************************************************************)
\* created_at tells the questions apart.
BornInv ==
  /\ \A c \in Existing : born[c] <= Cardinality(Existing)
  /\ \A c, d \in Existing : born[c] = born[d] => c = d

LEMMA BornInitially == Init => BornInv
<1> SUFFICES ASSUME Init PROVE BornInv
  OBVIOUS
<1>1. Existing = {Seed} /\ born[Seed] = 1
  BY SeedIsCode DEF Init, Existing, Exists
<1>2. Cardinality({Seed}) = 1
  BY FS_Singleton
<1> QED
  BY <1>1, <1>2 DEF BornInv

LEMMA BornInductive == RowsInv /\ BornInv /\ [Next]_vars => BornInv'
<1> SUFFICES ASSUME RowsInv, BornInv, [Next]_vars PROVE BornInv'
  OBVIOUS
<1>1. CASE UNCHANGED born
  BY <1>1 DEF BornInv, Existing, Exists
<1>2. ASSUME NEW p \in Editors, CreateQuestion(p) PROVE BornInv'
  <2> DEFINE c == tx[p].code  n == Cardinality(Existing)
  <2>1. /\ Existing' = Existing \cup {c} /\ c \in Codes /\ c \notin Existing
        /\ born' = [born EXCEPT ![c] = n + 1]
    BY <1>2, WritesKeepRows DEF CreateQuestion, Written, Existing, RowsInv, FormsHold
  <2>2. Existing \subseteq Codes /\ IsFiniteSet(Existing)
    BY QuestionsAreCounted, FS_Subset DEF Existing
  <2>3. Cardinality(Existing') = n + 1 /\ n \in Nat
    BY <2>1, <2>2, FS_AddElement, FS_CardinalityType
  <2>4. \A x \in Existing : born[x] \in Nat /\ born[x] <= n
    <3>1. \A x \in Codes : born[x] \in 0 .. Cardinality(Codes)
      BY DEF RowsInv, QuestionsTypeOK
    <3> QED
      BY <2>2, <3>1 DEF BornInv
  <2>5. born'[c] = n + 1 /\ \A x \in Existing : born'[x] = born[x]
    BY <2>1, <2>2 DEF RowsInv, QuestionsTypeOK
  <2> HIDE DEF c, n
  <2>6. \A x \in Existing : born'[x] # n + 1 /\ born'[x] <= n + 1
    BY <2>3, <2>4, <2>5
  <2>7. \A x, y \in Existing : born'[x] = born'[y] => x = y
    BY <2>5 DEF BornInv
  <2>8. born'[c] <= n + 1
    BY <2>3, <2>5
  <2> QED
    BY <2>1, <2>3, <2>5, <2>6, <2>7, <2>8 DEF BornInv
<1>3. CASE Next
  BY <1>1, <1>2, <1>3 DEF Next, Validate, SaveQuestion, Fail, ToggleQuestion
<1> QED
  BY <1>1, <1>3 DEF vars

\* The order of the list as a relation.
Order == {e \in Existing \X Existing : Before(e[1], e[2])}

LEMMA BeforeIsTotal ==
  ASSUME RowsInv, BornInv
  PROVE  TotalOrder(Order, ActiveQuestions)
<1>1. \A c \in Existing : questions[c].order \in Nat /\ born[c] \in Nat
  <2>1. \A c \in Codes : /\ questions[c] \in Rows(Shapes \cup {SeedShape})
                         /\ born[c] \in 0 .. Cardinality(Codes)
    BY DEF RowsInv, QuestionsTypeOK
  <2>2. \A c \in Codes : questions[c].order \in 0 .. MaxOrder
    BY <2>1 DEF Rows
  <2> QED
    BY <2>1, <2>2, QuestionsAreCounted DEF Existing
<1>2. \A c \in Existing : ~Before(c, c)
  BY <1>1 DEF Before
<1>3. \A c, d \in Existing : c = d \/ Before(c, d) \/ Before(d, c)
  BY <1>1 DEF Before, BornInv
<1>4. \A c, d, e \in Existing : Before(c, d) /\ Before(d, e) => Before(c, e)
  BY <1>1 DEF Before
<1>5. ActiveQuestions \subseteq Existing
  BY DEF ActiveQuestions, Active, Existing
<1>6. \A c, d \in Existing : <<c, d>> \in Order <=> Before(c, d)
  BY DEF Order
<1> QED
  BY <1>2, <1>3, <1>4, <1>5, <1>6 DEF TotalOrder

\* The list has each active question, after those that come before it.
LEMMA ListIsOrdered ==
  ASSUME RowsInv, BornInv
  PROVE  LET list == QuestionList  N == Len(list) IN
         /\ N \in Nat /\ list \in [1 .. N -> ActiveQuestions]
         /\ \A c \in ActiveQuestions : \E i \in 1 .. N : list[i] = c
         /\ \A i, j \in 1 .. N : Before(list[i], list[j]) <=> i < j
<1> DEFINE A == ActiveQuestions
           N == Cardinality(A)
           list == QuestionList
<1>1. IsFiniteSet(A) /\ A \subseteq Existing
  BY QuestionsAreCounted, FS_Subset DEF ActiveQuestions, Active, Existing
<1>2. N \in Nat
  BY <1>1, FS_CardinalityType
<1>3. \A l \in [1 .. N -> A] :
        Sorted(l, Order) <=> \A i, j \in DOMAIN l : i < j => Before(l[i], l[j])
  BY <1>1 DEF Sorted, Order
<1>4. \E l \in [1 .. N -> A] : Sorted(l, Order)
  BY <1>1, BeforeIsTotal, SortedListExists
<1>5. list \in [1 .. N -> A] /\ Sorted(list, Order)
  <2> HIDE DEF N, A
  <2>1. list = CHOOSE l \in [1 .. N -> A] :
                 \A i, j \in DOMAIN l : i < j => Before(l[i], l[j])
    BY DEF QuestionList, N, A
  <2> HIDE DEF list
  <2> QED
    BY <1>3, <1>4, <2>1
<1>6. \A c \in A : \E i \in 1 .. N : list[i] = c
  BY <1>1, <1>5, BeforeIsTotal, SortedListHasAll
<1> HIDE DEF list, N
<1>7. Len(list) = N
  BY <1>2, <1>5
<1>8. ASSUME NEW i \in 1 .. N, NEW j \in 1 .. N, Before(list[i], list[j])
      PROVE  i < j
  <2>1. list[i] \in A /\ list[j] \in A /\ <<list[i], list[j]>> \in Order
    BY <1>1, <1>5, <1>8 DEF Order
  <2>2. list[i] # list[j] /\ <<list[j], list[i]>> \notin Order
    BY <2>1, BeforeIsTotal DEF TotalOrder
  <2>3. i # j /\ ~(j < i)
    BY <1>5, <2>2 DEF Sorted
  <2> QED
    BY <1>2, <2>3
<1>9. \A i, j \in 1 .. N : i < j => Before(list[i], list[j])
  BY <1>3, <1>5
<1> QED
  BY <1>2, <1>5, <1>6, <1>7, <1>8, <1>9 DEF list

-----------------------------------------------------------------------------
(***************************************************************************)
(* Which questions appear, and what the loop keeps.                        *)
(***************************************************************************)
\* A question appears if it is active and has no parent, or comes after a parent that
\* appears and was answered with one of its values.
LEMMA AppearsByParent ==
  ASSUME RowsInv, NEW c \in Existing, NEW given
  PROVE  Appears(c, given) <=>
           /\ Active(c)
           /\ Parent(c) # NoParent =>
                /\ Before(Parent(c), c)
                /\ AnswerMatches(given[Parent(c)], questions[c].values)
                /\ Appears(Parent(c), given)
<1> DEFINE e == Parent(c)
           Fine(x) == /\ Active(x)
                      /\ Parent(x) # NoParent =>
                           /\ Before(Parent(x), x)
                           /\ AnswerMatches(given[Parent(x)], questions[x].values)
<1>1. \A x \in Existing : Appears(x, given) <=> \A y \in Chain(x) : Fine(y)
  BY DEF Appears, Existing
<1>2. e \in Existing \cup {NoParent} /\ NoParent \notin Codes /\ Existing \subseteq Codes
  BY SeedIsCode DEF RowsInv, QuestionsTypeOK, Existing
<1> HIDE DEF Fine
<1>3. c \in Chain(c) /\ Chain(c) \subseteq Existing
  BY ChainsAreLeast
<1>4. CASE e = NoParent
  <2>1. Chain(c) = {c}
    <3>1. Upward({c})
      BY <1>2, <1>4 DEF Upward
    <3> QED
      BY <1>2, <1>3, <3>1, ChainsAreLeast
  <2> QED
    BY <1>1, <1>4, <2>1 DEF Fine
<1>5. CASE e \in Existing
  <2>1. e \in Chain(e) /\ Upward(Chain(e)) /\ Chain(e) \subseteq Existing
    BY <1>5, ChainsAreLeast
  <2>2. Chain(c) \subseteq Chain(e) \cup {c}
    <3>1. Upward(Chain(e) \cup {c})
      BY <2>1 DEF Upward
    <3>2. Chain(e) \cup {c} \in SUBSET Codes
      BY <1>2, <2>1
    <3> QED
      BY <3>1, <3>2, ChainsAreLeast
  <2>3. Chain(e) \subseteq Chain(c)
    <3>1. Upward(Chain(c))
      BY ChainsAreLeast
    <3>2. e \in Chain(c) /\ Chain(c) \in SUBSET Codes
      BY <1>2, <1>3, <1>5, <3>1 DEF Upward
    <3> QED
      BY <1>5, <3>1, <3>2, ChainsAreLeast
  <2>4. Chain(c) = Chain(e) \cup {c}
    BY <1>3, <2>2, <2>3
  <2>5. Appears(c, given) <=> Fine(c) /\ Appears(e, given)
    BY <1>1, <1>5, <2>4
  <2>6. e # NoParent
    BY <1>2, <1>5
  <2> QED
    BY <2>5, <2>6 DEF Fine
<1> QED
  BY <1>2, <1>4, <1>5

\* The loop before its first turn, and what makes f the loop over k turns.
Start == [shown |-> {}, kept |-> {}, refused |-> FALSE]

IsLoop(f, given, list, k) ==
  f = [n \in 0 .. k |-> IF n = 0 THEN Start ELSE AskOne(given, f[n - 1], list[n])]

\* The recursive function of AskAll exists: one for k turns can be continued.
LEMMA LoopIsDefined ==
  ASSUME NEW given, NEW list, Len(list) \in Nat
  PROVE  IsLoop(AskAll(given, list), given, list, Len(list))
<1> DEFINE N == Len(list)
           S == {k \in Nat : \E f : IsLoop(f, given, list, k)}
<1> HIDE DEF N
<1>1. 0 \in S
  <2> DEFINE g == [n \in 0 .. 0 |-> Start]
  <2>1. IsLoop(g, given, list, 0)
    BY DEF IsLoop
  <2> QED
    BY <2>1
<1>2. ASSUME NEW k \in S PROVE k + 1 \in S
  <2>1. PICK f : IsLoop(f, given, list, k)
    OBVIOUS
  <2> DEFINE g == [n \in 0 .. k + 1 |-> IF n = 0 THEN Start
                                        ELSE AskOne(given, f[n - 1], list[n])]
  <2>2. \A n \in 0 .. k : g[n] = f[n]
    BY <2>1 DEF IsLoop
  <2>3. \A n \in 0 .. k + 1 : n # 0 => g[n - 1] = f[n - 1]
    <3>1. \A n \in 0 .. k + 1 : n # 0 => n - 1 \in 0 .. k
      OBVIOUS
    <3> HIDE DEF g
    <3> QED
      BY <2>2, <3>1
  <2>4. g = [n \in 0 .. k + 1 |-> IF n = 0 THEN Start
                                  ELSE AskOne(given, g[n - 1], list[n])]
    BY <2>3
  <2> HIDE DEF g
  <2>5. IsLoop(g, given, list, k + 1)
    BY <2>4 DEF IsLoop
  <2> QED
    BY <2>5
<1>3. N \in S
  <2>1. S \in SUBSET Nat /\ N \in Nat
    BY DEF N
  <2> HIDE DEF S
  <2>2. 0 .. N \subseteq S
    BY <1>1, <1>2, <2>1, InductionOverPositions
  <2> QED
    BY <2>1, <2>2
<1>4. \E f : IsLoop(f, given, list, N)
  BY <1>3
<1> QED
  BY <1>4 DEF AskAll, IsLoop, Start, N

\* What is asked, and which of it is answered wrong, of a set S of questions.
AskedOf(S, given) == {c \in S : Appears(c, given)}
WrongOf(S, given) ==
  {c \in AskedOf(S, given) : IF given[c] = NoAnswer THEN questions[c].shape.required
                             ELSE ~ValidAnswer(given[c], questions[c].shape)}

\* After some turns: nothing refused so far and the questions that appear among
\* those of the turns, or something wrong among them.
Kept(sofar, S, given) ==
  IF WrongOf(S, given) # {} THEN sofar.refused
  ELSE /\ ~sofar.refused
       /\ sofar.shown = AskedOf(S, given)
       /\ sofar.kept = {c \in AskedOf(S, given) : given[c] # NoAnswer}

\* One turn, when all active questions before c have had theirs.
LEMMA TurnKeeps ==
  ASSUME RowsInv, NEW S \in SUBSET Existing, NEW c \in ActiveQuestions,
         S = {d \in ActiveQuestions : Before(d, c)}, c \notin S,
         NEW given, NEW sofar, Kept(sofar, S, given)
  PROVE  Kept(AskOne(given, sofar, c), S \cup {c}, given)
<1> DEFINE q == questions[c]
           v == given[c]
           skip == /\ q.parent # NoParent
                   /\ q.parent \notin sofar.shown \/ ~AnswerMatches(given[q.parent], q.values)
           bad == IF v = NoAnswer THEN q.shape.required ELSE ~ValidAnswer(v, q.shape)
<1>1. c \in Existing /\ Active(c)
  BY DEF ActiveQuestions, Active, Existing
<1>2. AskOne(given, sofar, c) =
        IF sofar.refused \/ skip THEN sofar
        ELSE [shown   |-> sofar.shown \cup {c},
              kept    |-> IF v = NoAnswer THEN sofar.kept ELSE sofar.kept \cup {c},
              refused |-> bad]
  BY DEF AskOne
<1>3. \A d \in Existing : d \in S \cup {c} /\ Appears(d, given) <=>
                          d \in AskedOf(S \cup {c}, given)
  BY <1>1 DEF AskedOf
<1>4. WrongOf(S \cup {c}, given) =
        WrongOf(S, given) \cup (IF Appears(c, given) /\ bad THEN {c} ELSE {})
  BY DEF WrongOf, AskedOf
<1>5. CASE WrongOf(S, given) # {}
  <2>1. sofar.refused /\ WrongOf(S \cup {c}, given) # {}
    BY <1>4, <1>5 DEF Kept
  <2> QED
    BY <1>2, <2>1 DEF Kept
<1>6. CASE WrongOf(S, given) = {}
  <2>1. /\ ~sofar.refused /\ sofar.shown = AskedOf(S, given)
        /\ sofar.kept = {d \in AskedOf(S, given) : given[d] # NoAnswer}
    BY <1>6 DEF Kept
  <2>2. Appears(c, given) <=> ~skip
    <3>1. Appears(c, given) <=>
            (Parent(c) # NoParent =>
               /\ Before(Parent(c), c) /\ Appears(Parent(c), given)
               /\ AnswerMatches(given[Parent(c)], questions[c].values))
      BY <1>1, AppearsByParent
    <3>2. Parent(c) # NoParent =>
            (Parent(c) \in sofar.shown <=> Before(Parent(c), c) /\ Appears(Parent(c), given))
      <4> SUFFICES ASSUME Parent(c) # NoParent
                   PROVE  Parent(c) \in sofar.shown <=>
                            Before(Parent(c), c) /\ Appears(Parent(c), given)
        OBVIOUS
      <4>1. Parent(c) \in Existing
        BY <1>1 DEF RowsInv, QuestionsTypeOK
      <4>2. Appears(Parent(c), given) => Parent(c) \in ActiveQuestions
        BY <4>1, AppearsByParent DEF ActiveQuestions, Existing
      <4> QED
        BY <2>1, <4>1, <4>2 DEF AskedOf
    <3> QED
      BY <3>1, <3>2 DEF Parent
  <2>3. CASE skip
    <3>1. AskOne(given, sofar, c) = sofar
      BY <1>2, <2>3
    <3>2. /\ WrongOf(S \cup {c}, given) = {}
          /\ AskedOf(S \cup {c}, given) = AskedOf(S, given)
      BY <1>4, <1>6, <2>2, <2>3 DEF AskedOf
    <3> QED
      BY <2>1, <3>1, <3>2 DEF Kept
  <2>4. CASE ~skip
    <3> HIDE DEF skip, bad
    <3>1. AskOne(given, sofar, c) =
            [shown   |-> sofar.shown \cup {c},
             kept    |-> IF v = NoAnswer THEN sofar.kept ELSE sofar.kept \cup {c},
             refused |-> bad]
      BY <1>2, <2>1, <2>4
    <3>2. /\ AskedOf(S \cup {c}, given) = AskedOf(S, given) \cup {c}
          /\ WrongOf(S \cup {c}, given) = IF bad THEN {c} ELSE {}
      BY <1>4, <1>6, <2>2, <2>4 DEF AskedOf
    <3> QED
      BY <2>1, <3>1, <3>2 DEF Kept
  <2> QED
    BY <2>3, <2>4
<1> QED
  BY <1>5, <1>6

\* All turns.
LEMMA LoopKeeps ==
  ASSUME RowsInv, BornInv, NEW given
  PROVE  Kept(AskAll(given, QuestionList)[Len(QuestionList)], ActiveQuestions, given)
<1> DEFINE list == QuestionList
           N == Len(list)
           turn == AskAll(given, list)
           Had(n) == {list[i] : i \in 1 .. n}
           T == {n \in 0 .. N : Kept(turn[n], Had(n), given)}
<1>1. /\ N \in Nat /\ list \in [1 .. N -> ActiveQuestions]
      /\ \A c \in ActiveQuestions : \E i \in 1 .. N : list[i] = c
      /\ \A i, j \in 1 .. N : Before(list[i], list[j]) <=> i < j
  BY ListIsOrdered
<1>2. turn = [n \in 0 .. N |-> IF n = 0 THEN Start ELSE AskOne(given, turn[n - 1], list[n])]
  BY <1>1, LoopIsDefined DEF IsLoop
<1> HIDE DEF turn, list, N
<1>3. 0 \in T
  <2>1. turn[0] = Start /\ Had(0) = {}
    BY <1>1, <1>2
  <2>2. Kept(Start, {}, given)
    BY DEF Kept, Start, AskedOf, WrongOf
  <2>3. 0 \in 0 .. N
    BY <1>1
  <2> HIDE DEF Had
  <2> QED
    BY <2>1, <2>2, <2>3
<1>4. ASSUME NEW n \in T, n < N PROVE n + 1 \in T
  <2> DEFINE c == list[n + 1]
  <2>1. n + 1 \in 1 .. N /\ n \in 0 .. N /\ Kept(turn[n], Had(n), given)
    BY <1>1, <1>4
  <2>2. turn[n + 1] = AskOne(given, turn[n], c)
    BY <1>1, <1>2, <2>1
  <2>3. Had(n + 1) = Had(n) \cup {c}
    <3>1. 1 .. n + 1 = (1 .. n) \cup {n + 1}
      BY <2>1
    <3> QED
      BY <3>1
  <2>4. Had(n) = {d \in ActiveQuestions : Before(d, c)}
    <3>1. \A i \in 1 .. N : i \in 1 .. n <=> Before(list[i], c)
      BY <1>1, <2>1
    <3>2. 1 .. n \subseteq 1 .. N
      BY <1>1, <2>1
    <3> QED
      BY <1>1, <3>1, <3>2
  <2>5. c \in ActiveQuestions /\ c \notin Had(n) /\ ActiveQuestions \subseteq Existing
    <3>1. ~Before(c, c)
      BY <1>1, <2>1
    <3> QED
      BY <1>1, <2>1, <2>4, <3>1 DEF ActiveQuestions, Active, Existing
  <2>6. Had(n) \in SUBSET Existing
    BY <2>4, <2>5
  <2> HIDE DEF Had, c
  <2>7. Kept(AskOne(given, turn[n], c), Had(n) \cup {c}, given)
    BY <2>1, <2>4, <2>5, <2>6, TurnKeeps
  <2> QED
    BY <2>1, <2>2, <2>3, <2>7
<1>5. N \in T
  <2>1. T \in SUBSET Nat
    BY <1>1
  <2> HIDE DEF T
  <2>2. 0 .. N \subseteq T
    BY <1>1, <1>3, <1>4, <2>1, InductionOverPositions
  <2> QED
    BY <1>1, <2>2
<1>6. Had(N) = ActiveQuestions
  BY <1>1
<1> QED
  BY <1>5, <1>6 DEF turn, list, N

\* An appeal keeps the answers to exactly the questions that appear, and is refused exactly
\* if one of these is answered wrong (CreateAppeal), for any number of questions and
\* however they were created, moved and switched by however many administrators.
THEOREM AnswersAreKept == Spec => []AnswersAreFiltered
<1>1. RowsInv /\ BornInv => AnswersAreFiltered
  <2> SUFFICES ASSUME RowsInv, BornInv, NEW given
               PROVE  LET asked == {c \in Codes : Appears(c, given)}
                          wrong == {c \in asked : IF given[c] = NoAnswer
                                                  THEN questions[c].shape.required
                                                  ELSE ~ValidAnswer(given[c], questions[c].shape)}
                      IN CleanAnswers(given) = IF wrong # {} THEN Refused
                           ELSE Accepted([c \in {x \in asked : given[x] # NoAnswer} |-> given[c]])
    BY DEF AnswersAreFiltered
  <2> DEFINE asked == {c \in Codes : Appears(c, given)}
             wrong == {c \in asked : IF given[c] = NoAnswer THEN questions[c].shape.required
                                     ELSE ~ValidAnswer(given[c], questions[c].shape)}
             end == AskAll(given, QuestionList)[Len(QuestionList)]
  <2>1. asked = AskedOf(ActiveQuestions, given)
    <3>1. \A c \in Codes : Appears(c, given) => c \in ActiveQuestions
      BY AppearsByParent DEF Appears, ActiveQuestions, Existing
    <3> QED
      BY <3>1 DEF AskedOf, ActiveQuestions
  <2>2. wrong = WrongOf(ActiveQuestions, given)
    BY <2>1 DEF WrongOf
  <2>3. CleanAnswers(given) =
          IF end.refused THEN Refused ELSE Accepted([c \in end.kept |-> given[c]])
    BY DEF CleanAnswers
  <2> HIDE DEF asked, wrong, end
  <2>4. IF wrong # {} THEN end.refused
        ELSE ~end.refused /\ end.kept = {c \in asked : given[c] # NoAnswer}
    BY <2>1, <2>2, LoopKeeps DEF Kept, end
  <2> QED
    BY <2>3, <2>4 DEF asked, wrong
<1> QED
  BY <1>1, RowsInitially, BornInitially, RowsInductive, BornInductive, PTL DEF Spec
=============================================================================
