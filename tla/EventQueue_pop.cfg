SPECIFICATION Spec
CONSTANTS
    ann = ann
    bob = bob
    Contact = {ann, bob}
    Encrypting = {ann, bob}
    Kind <- MC_Kind
    MaxMessages = 3
    MaxWindows = 2
    MaxCrashes = 1
INVARIANTS PopsTheDecrypted
CHECK_DEADLOCK FALSE
