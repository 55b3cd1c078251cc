SPECIFICATION Spec
CONSTANTS
    b1 = b1
    b2 = b2
    b3 = b3
    noBinary = noBinary
    garbage = garbage
    obfs4 = obfs4
    meek = meek
    NoTransport = NoTransport
    Monitor = Monitor
    Lines = {b1, b3, garbage}
    Malformed = {garbage}
    Transport <- MCTransport
    PtFlags = {}
    Locatable = {obfs4}
    Configured <- MCOne
    Adders = {a1, a2}
    Threshold = 2
    MaxFailures = 2
SYMMETRY Symmetric
INVARIANTS TypeOK Agreement TransportsReady FailuresShown TableComplete
PROPERTIES DueFailover SwitchSpec
