SPECIFICATION Spec

CONSTANTS
    Tabs = {t1, t2}
    MaxOps = 2
    MaxExpiries = 1
    MaxOthers = 1
    MaxFaults = 1

SYMMETRY Symmetry

INVARIANT TypeOK
INVARIANT SignedOutNeedsCause
INVARIANT OldCredentialsNeedRace
INVARIANT AvatarFilesAgree

\* The user has what was asked for, and stays.
CHECK_DEADLOCK FALSE
