SPECIFICATION FairSpec
CONSTANTS
    ann = ann
    w1 = w1
    w2 = w2
    Contact = {ann}
    Window = {w1, w2}
    ContactOf <- MC_ContactOf
    PageSize = 2
    ExportSize = 2
    Hit = {1}
    MaxEvents = 3
    MaxAsks = 4
    MaxCloses = 1
INVARIANTS PositionInvariant ExportIsComplete
PROPERTIES ImplementsHistoryLog AllIsAnswered
CHECK_DEADLOCK FALSE
