SPECIFICATION Spec
CONSTANTS
    Node = {a, b}
    Nobody = nobody
    Session = {s1, s2}
    MaxEdits = 0
CHECK_DEADLOCK FALSE
SYMMETRY Symmetry
INVARIANTS JoinerBacked AbandonedStaysClosed DepartureAnnounced
