SPECIFICATION Spec
CONSTANTS
    p1 = p1
    p2 = p2
    None = None
    Unknown = Unknown
    Manual = Manual
    Photo = {p1, p2}
    MaxChoices = 4
    MaxFailures = 1
    MaxReconnects = 1
SYMMETRY Symmetry
INVARIANTS ViewerInvariant AnnouncedIsPublished ChoiceIsAnnounced AnnouncedIsShown
CHECK_DEADLOCK FALSE
