SPECIFICATION Spec
CONSTANTS
    NoTask = NoTask
    t1 = t1
    t2 = t2
    t3 = t3
    u1 = u1
    u2 = u2
    AnonetUid = AnonetUid
    Forwarded = Forwarded
    OtherUids = {u1, u2}
    Confinable = {}
    Slots = {t1, t2}
    Faults = {}
    MaxRestarts = 0
PROPERTIES FailSafeKept
CHECK_DEADLOCK FALSE
