SPECIFICATION FairSpec
CONSTANTS
    NoTask = NoTask
    t1 = t1
    t2 = t2
    t3 = t3
    u1 = u1
    u2 = u2
    AnonetUid = AnonetUid
    Forwarded = Forwarded
    OtherUids = {u1, u2}
    Confinable = {}
    Slots = {t1, t2}
    Faults = {"uid", "nftAdd", "nftDelete", "torSpawn", "torDies"}
    MaxRestarts = 1
PROPERTIES Settles
CHECK_DEADLOCK FALSE
