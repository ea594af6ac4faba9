SPECIFICATION Spec
CONSTANTS
    Items = {i1, i2}
    Topics = {ta}
    i1 = i1
    i2 = i2
    ta = ta
    tb = tb
    NoItem = NoItem
    Tabs = {w1}
    TopicOf <- MCTopicOf
    ExamOf <- MCExamOf
    MasteredSets <- MCMastered
    NewCap = 1
    Target = 1
    MaxSessions = 2
    MaxMishaps = 1
    MaxTrouble = 1
CHECK_DEADLOCK FALSE
INVARIANT TypeOK
INVARIANT BudgetOvershoot
INVARIANT RepeatNeedsFault
INVARIANT DailyWithinTarget
INVARIANT DeadEndNeedsFault
PROPERTY LoadingEnds
