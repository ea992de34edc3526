CONSTANTS
    Turns = 2
    Key = {k1}
    maxAgentSteps = 1
    maxHistoryTurns = 1
    BatchSize = 1
    Nothing = Nothing
SPECIFICATION Spec
PROPERTIES TurnSeesPrevious
CHECK_DEADLOCK FALSE
