SPECIFICATION Spec
CONSTANTS
    s1 = s1
    s2 = s2
    alice = alice
    EmptyName = EmptyName
    Default = Default
    NoLimit = NoLimit
    Sessions = {s1, s2}
    Identities = {alice, Default}
    Cores = {1, 2}
    Usernames = {alice, EmptyName}
    AllowRawIp = FALSE
    MaxUses = 2
    MaxAge = 2
    MaxTime = 2
    MaxTokens = 4
    MaxCores = 2
    MaxConnections = 4
SYMMETRY Symmetric
INVARIANTS TypeOK NoSharing RotationLimits StreamOfOwnCore StreamsIsolated ActiveCounted
PROPERTIES IsolationSpec
