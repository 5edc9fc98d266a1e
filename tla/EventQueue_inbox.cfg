SPECIFICATION FairSpec
CONSTANTS
    ann = ann
    bob = bob
    Contact = {ann, bob}
    Encrypting = {ann, bob}
    Kind <- MC_Kind
    MaxMessages = 3
    MaxWindows = 1
    MaxCrashes = 1
INVARIANTS QueueInvariant NothingForgotten ShownInOrder
PROPERTIES AllAreDecrypted
CHECK_DEADLOCK FALSE
