SPECIFICATION Spec
CONSTANTS
  Calls = 3
  Retries = 2
  None = None
CHECK_DEADLOCK FALSE
INVARIANTS AnswersMatch OneConnect
PROPERTY EveryCallSettles
