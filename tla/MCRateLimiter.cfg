CONSTANTS
    c1 = c1
    c2 = c2
    c3 = c3
    Caller = {c1, c2, c3}
    Permits = 1
    Penalties = {1}
    NoTimer = NoTimer
    MaxTime = 2
    Capacity <- MCCapacity
    Cost <- MCCost
    Overrun <- MCOverrun
    Wait <- MCWait
    MaxQueued <- MCMaxQueued
SPECIFICATION Spec
INVARIANTS HeadHasTimer BooksBalance PermitsExact
PROPERTIES NoOvertaking WaitsEnd
CHECK_DEADLOCK FALSE
