SPECIFICATION FairSpec
CONSTANTS
  Answerer = {a1}
  Expirer = {}
  Router = {}
  Sweeper = {s1, s2}
  MaxQuestions = 1
  MaxCrashes = 2
INVARIANTS
  AnswerKept
PROPERTIES
  AnswerResumed
