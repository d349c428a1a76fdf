SPECIFICATION MCSpec
CONSTANTS
    Limit = 3
    FrameLimit = 2
    Places <- MCPlaces
    Vector = 3
    Laboratories <- MCLaboratories
INVARIANTS
    StopsAreTrue
    RequestsReturn
    FramesAreCallers
PROPERTIES
    BreakpointsHold
    LayoutSurvives
