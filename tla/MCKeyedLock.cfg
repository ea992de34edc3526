CONSTANTS
    a1 = a1
    a2 = a2
    a3 = a3
    b1 = b1
    cartA = cartA
    cartB = cartB
    None = None
    Call <- MCCall
    Key <- MCKey
    KeyOf <- MCKeyOf
SPECIFICATION Spec
INVARIANTS NoTailLeak
PROPERTIES EveryCallRuns ImplementsMutex
CHECK_DEADLOCK FALSE
