SPECIFICATION Spec
CONSTANTS
  Codes = {q1, q2, q3}
  Seed = q1
  NoParent = noParent
  Options = {yes}
  NoAnswer = noAnswer
  Blank = blank
  Words = words
  MaxOrder = 2
  Editors = {p1}
  Shapes <- MCShapes
SYMMETRY Symmetry
INVARIANTS
  QuestionsTypeOK
  NoCycles
  AnswersAreFiltered
