SPECIFICATION Spec
CONSTANTS
  Answerer = {a1, a2}
  Expirer = {e1}
  Router = {r1}
  Sweeper = {s1}
  MaxQuestions = 1
  MaxCrashes = 0
SYMMETRY Surfaces
INVARIANTS
  TypeOK
  SettledOnce
PROPERTIES
  Lifecycle
