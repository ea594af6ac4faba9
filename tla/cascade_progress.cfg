SPECIFICATION FairSpec
CONSTANTS
    Requests = {r1, r2, r3}
    Sessions = {s1, s2}
    Items = {i1, i2}
    Topics = {t1, t2}
    NoTopic = NoTopic
    i1 = i1
    i2 = i2
    t1 = t1
    t2 = t2
    s1 = s1
    s2 = s2
    FirstTopic <- MCFirstTopic
    Menu <- RacingMenu
    Editable = {}
    Links = {}
    Penalty = 1
    Exclusive = "none"
CHECK_DEADLOCK FALSE
PROPERTY EveryRequestEnds
