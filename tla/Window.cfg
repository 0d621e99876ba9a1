CONSTANTS
    MIN_LEFT_PANEL = 1
    MIN_RIGHT_PANEL = 1
    MIN_CENTER_PANEL = 2
    Gap = 1
    DefaultLeft = 2
    DefaultRight = 1
    Widths <- MCWidths
    Pointers <- MCPointers
    Full = 2
    MaxDrags = 2
    MaxTransitions = 2

SPECIFICATION Spec

INVARIANTS
    SplitShown

PROPERTIES
    CentreKept
    PreferencesSurvive

CHECK_DEADLOCK FALSE
