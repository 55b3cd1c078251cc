SPECIFICATION Spec
CONSTANTS
    NoTransport = NoTransport
    InvalidName = InvalidName
    Empty = Empty
    NotFound = NotFound
    given1 = given1
    obfs = obfs
    vanilla = vanilla
    exotic = exotic
    garbled = garbled
    Specs <- MCSpecs
    BridgeLists <- MCBridgeLists
    Malformed = {garbled}
    Transport <- MCTransport
    Paths = {given1}
    PathDirs <- MCPathDirs
    ExtraDirs <- MCExtraDirs
    Timeouts = {0, 1, 3}
    MinConnect = 1
INVARIANTS PreferredBinary CheckBounded OwnBridgeTested FirstToPass OneBadNameNoBridge
PROPERTIES ScanEnds SwitchSpec
