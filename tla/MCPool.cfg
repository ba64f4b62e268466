CONSTANTS
    N = 2
    Conns = {c1, c2, c3, c4}
    MaxConnections = 0
    HANDOFF_MARGIN = 1
    PICK_SAMPLES = 3
    UMAX = 63
SPECIFICATION Spec
SYMMETRY Clients
INVARIANTS
    TypeOK
    SlotsAccounted
    CapHeld
    RetiredStaysOut
    OneUnplaced
    NoneStranded
    ReturnMeansGone
