SPECIFICATION FairSpec
CONSTANTS
    a1 = a1
    a2 = a2
    none = none
    NoAddr = none
    q1 = q1
    q2 = q2
    v4 = v4
    v6 = v6
    Addrs = {a1, a2}
    Queries = {q1, q2}
    MaxStarts = 2
    MaxCores = 2
    Ids = {0, 65535}
    Bodies <- MCBodies
    Labels <- MCLabels
    Addrs4 = {v4}
    Addrs6 = {v6}
INVARIANTS OneShim FreshClient ParsesQuestions AnswersMatchType
PROPERTIES Answered Released
CHECK_DEADLOCK FALSE
