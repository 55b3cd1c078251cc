SPECIFICATION Spec
CONSTANTS
    b1 = b1
    b2 = b2
    b3 = b3
    noBinary = noBinary
    garbage = garbage
    obfs4 = obfs4
    meek = meek
    NoTransport = NoTransport
    Monitor = Monitor
    Lines = {b1, b2, b3}
    Malformed = {}
    Transport <- MCTransport
    PtFlags = {}
    Locatable = {obfs4}
    Configured <- MCTwo
    Adders = {a1}
    Threshold = 1
    MaxFailures = 1
INVARIANTS AlwaysAgree
