SPECIFICATION FairSpec
CONSTANTS
    Keys = {k1, k2}
    MaxUid = 2
    MaxEdits = 2
CHECK_DEADLOCK FALSE
INVARIANTS
    AnswersCoverInventory
PROPERTIES
    LossIsFinal
    EventuallyAnswers
