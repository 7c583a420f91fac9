SPECIFICATION Spec
CONSTANTS
  NumberOf <- MCNumberOf
  Unwritable = {""}
  MaxNesting = 2
  Answers <- MCAnswers
  Forms <- ScopedForms
  Clients = {"collect", "json"}
  MaxRows = 2
INVARIANTS TypeOK SameQuestions NeverStranded AcceptedIsComplete AnswersAreKept
CHECK_DEADLOCK FALSE
