CONSTANTS
    Turns = 2
    Key = {k1}
    maxAgentSteps = 2
    maxHistoryTurns = 1
    BatchSize = 2
    Nothing = Nothing
SPECIFICATION Spec
INVARIANTS AnswersAreHeard CommitsInOrder WithinRecursionLimit OutcomeIsOwn
CHECK_DEADLOCK FALSE
