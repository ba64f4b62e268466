SPECIFICATION FairSpec
CONSTANTS
    TickArg = 2
    FarFuture = 20
    U64Max = 30
    InstantMax = 32
    Afters = {0, 1, 3, 4, 40}
    LastArm = 5
    MaxNow = 12
INVARIANTS
    TypeOK
    SleepNeverLate
    NeverEarly
PROPERTIES
    ImplementsEager
    Reported
