CONSTANTS
    N = 2
    Conns = {c1, c2, c3}
    MaxConnections = 1
    HANDOFF_MARGIN = 1
    PICK_SAMPLES = 3
    UMAX = 63
SPECIFICATION RunningFairSpec
PROPERTY AcceptedIsSettled
