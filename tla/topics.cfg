SPECIFICATION Spec
CONSTANTS
    Tabs = {a1, a2}
    Seeds <- MCSeeds
    MaxTopics = 4
    MaxWrites = 2
SYMMETRY MCSymmetry
CHECK_DEADLOCK FALSE
INVARIANT TypeOK
INVARIANT ChoicesNested
INVARIANT OrphansNeedStaleness
INVARIANT LinkedStayActive
INVARIANT OwnWritesShown
