SPECIFICATION FairSpec
CONSTANTS
    Peer = {p1, p2}
    Position = {"here", "there"}
    NewPosition = "here"
    Char = {"a", "b", "c"}
    NewData <- MC_NewData
    Wanted <- MC_Wanted
    MaxRemovals = 1
    MaxEdits = 3
INVARIANTS VersionInvariant StrongConvergence AppliedAsWritten
PROPERTIES LocalEditTakesEffect ImplementsResolvedRecord Converges
CHECK_DEADLOCK FALSE
