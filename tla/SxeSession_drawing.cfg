SPECIFICATION Spec
CONSTANTS
    a = a
    b = b
    Peer = {a, b}
    Shapes = {1, 2, 3, 4}
    Groups = {5, 6}
    Own <- OddAndEven
    Initial <- TwoShapes
    Unit = 16
    MaxActions = 4
INVARIANTS DocumentInvariant RecordsAgree CanvasShowsDrawing
CHECK_DEADLOCK FALSE
