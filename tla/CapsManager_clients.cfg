SPECIFICATION FairSpec
CONSTANTS
    a1 = a1
    a2 = a2
    j1 = j1
    n1 = n1
    n2 = n2
    v1 = v1
    v2 = v2
    e1 = e1
    none = none
    Account = {a1, a2}
    Enabled = {a1}
    Jid = {j1}
    Node = {n1, n2}
    Version = {v1, v2}
    Ext = {e1}
    Broadcast <- Kinds
    NoVersion = none
    NoCaps = none
    Unknown = none
    MaxPresences = 2
    MaxReconnects = 2
INVARIANTS CapsInvariant CapsFollowPresence RegistryTruthful
PROPERTIES AskedIsLearnt
CHECK_DEADLOCK FALSE
