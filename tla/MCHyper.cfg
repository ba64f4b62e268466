\* hyper: dispatch, hyper's future and the watchdog, in every order and time.
SPECIFICATION Spec
CONSTANTS
    HeaderTimeout = 3
    IdleTimeout = 4
    BodyTimeout = 2
    WriteTimeout = 1
    Inputs <- MCInputs
    Preface <- MCPreface
    SplitInterim = FALSE
    MaxFrames = 2
    MaxQueue = 2
INVARIANTS OnTime OneFinalResponse TakenOver
