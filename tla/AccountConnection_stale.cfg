SPECIFICATION FairSpec
CONSTANTS
    MaxStreams = 4
    MaxStatus = 3
    MaxTrouble = 2
    PasswordSaved = FALSE
    Failure <- MC_Failure
INVARIANTS StatusInvariant LogoutIsClean NeverStuck
PROPERTIES ConnectionSettles
CHECK_DEADLOCK FALSE
