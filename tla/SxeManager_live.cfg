SPECIFICATION FairSpec
CONSTANTS
    Node = {a, b}
    Nobody = nobody
    Session = {s1}
    MaxEdits = 2
CHECK_DEADLOCK FALSE
INVARIANTS EditsInOrder
PROPERTIES NegotiationsEnd
