SPECIFICATION Spec
CONSTANTS
    w1 = w1
    w2 = w2
    proc = proc
    old = old
    dirent = dirent
    Nothing = Nothing
    Target = Target
    Writers = {w1, w2}
    Processes = {proc}
    ProcessOf <- MCProcessOf
    Size = 2
    MaxAttempts = 2
    Strangers = {old, dirent}
    KindOf <- MCKindOf
    MaxCrashes = 1
    MaxMeddling = 1
INVARIANTS TypeOK NeverTorn CleansUp
PROPERTIES ImplementsSlot EveryCallEnds
CHECK_DEADLOCK FALSE
