SPECIFICATION Spec
CONSTANTS
    Connector = {"a1", "sa", "b1"}
    ClientId <- MCClientId
    Kind <- MCKind
    CounterMod = 2
    TimeUnit <- MCTimeUnit
    TimeMod <- MCTimeMod
    HasNul = {2}
    MaxStores = 3
    MaxClock = 2
    MaxObjects <- MCObjects
    MaxCrashes = 1
INVARIANT TypeOK
INVARIANT KeysDiffer
INVARIANT Intact
CHECK_DEADLOCK FALSE
