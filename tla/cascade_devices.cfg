SPECIFICATION Spec
CONSTANTS
    Requests = {r1, r2, r3, r4}
    Sessions = {s1, s2}
    Items = {i1, i2}
    Topics = {t1, t2}
    NoTopic = NoTopic
    i1 = i1
    i2 = i2
    t1 = t1
    t2 = t2
    s1 = s1
    s2 = s2
    FirstTopic <- MCFirstTopic
    Menu <- DevicesMenu
    Editable = {i1}
    Links = {t2, NoTopic}
    Penalty = 1
    Exclusive = "session"
SYMMETRY Symmetry
CHECK_DEADLOCK FALSE
INVARIANT SessionExact
INVARIANT ThetaFromHistory
INVARIANT MasteryCurrent
INVARIANT AllOrNothing
