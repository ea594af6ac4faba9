SPECIFICATION Spec
CONSTANTS
    SeedItems = 1
    Statuses = {"draft", "active"}
    Presets = {1, 2}
    PageSize = 1
    MaxOptions = 3
    MaxItems = 2
    MaxWrites = 2
    MaxOthers = 1
CHECK_DEADLOCK FALSE
INVARIANT TypeOK
INVARIANT NumbersNeedRace
INVARIANT SavedOnceUnlessFault
INVARIANT DifficultyNeedsStaleness
INVARIANT FormsPass
INVARIANT StrandedNeedsRemoval
