SPECIFICATION FairSpec
CONSTANTS
    home = home
    office = office
    ann = ann
    gateway = gateway
    friends = friends
    work = work
    Account = {home, office}
    Contact = {ann, gateway}
    AccountOf <- MC_AccountOf
    Transport = {gateway}
    Group = {friends, work}
    NoName = NoName
    Absent = Absent
    Saved <- MC_Saved
    MaxChanges = 4
INVARIANTS ListInvariant AtRest
PROPERTIES ListSettles
CHECK_DEADLOCK FALSE
