\* interim: a body is late while hyper's 100 Continue is half written.
SPECIFICATION Spec
CONSTANTS
    HeaderTimeout = 3
    IdleTimeout = 4
    BodyTimeout = 2
    WriteTimeout = 1
    Inputs <- MCLate
    Preface <- MCPreface
    SplitInterim = TRUE
    MaxFrames = 2
    MaxQueue = 2
INVARIANT LateAnswerIsFramed
