SPECIFICATION FairSpec
CONSTANTS
    Offers <- MC_Modes
    Answers <- MC_Modes
    MaxLosses = 1
INVARIANTS CallInvariant
PROPERTIES AnsweredIsDecided EndsTogether
CHECK_DEADLOCK FALSE
