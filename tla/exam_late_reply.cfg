SPECIFICATION Spec
CONSTANTS
    Items = {q1, q2}
    Options = {a, b}
    NoOption = NoOption
    q1 = q1
    q2 = q2
    a = a
    b = b
    Key <- MCKey
    Scopes <- MCScopes
    OptionsOf <- MCOptionsOf
    Flaggable = {q2}
    MaxBatch = 2
    MaxSessions = 2
    MaxAnswers = 2
    MaxTrouble = 1
CHECK_DEADLOCK FALSE
INVARIANT EveryQuestionGraded
