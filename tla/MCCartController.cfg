CONSTANTS
    join1 = join1
    join2 = join2
    apply1 = apply1
    replay1 = replay1
    apply2 = apply2
    confirm1 = confirm1
    confirm2 = confirm2
    cart1 = cart1
    req1 = req1
    req2 = req2
    dev1 = dev1
    dev2 = dev2
    table1 = table1
    mod1 = mod1
    None = None
    Call <- RacingCalls
    Request = {req1, req2}
    Modifier = {mod1}
    Device = {dev1, dev2}
    Table = {table1}
    CartId = {cart1}
    Kind <- MCKind
    CartOf <- MCCartOf
    RequestOf <- MCRequestOf
    DeviceOf <- MCDeviceOf
    TableOf <- MCTableOf
    Ops <- MCOps
    MaxRestarts = 1
SPECIFICATION Spec
INVARIANTS LedgerExact NoLostUpdate HonestAnswers KitchenHasOrder IndexExact
PROPERTIES StoredCartKept BroadcastInOrder ImplementsAtomicCart
CHECK_DEADLOCK FALSE
