SPECIFICATION FairSpec
CONSTANTS
  Questions = 2  Chats = 2  MaxQueue = 1  Attempts = 1  MaxStalls = 1  MaxMishaps = 1
INVARIANTS AnswersBelong QuestionsTakeTurns
PROPERTY QuestionsSettle
CHECK_DEADLOCK FALSE
