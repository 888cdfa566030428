SPECIFICATION Spec
CONSTANTS
    NumTerminals = 2
    NumCols = 2
    NumRows = 2
    Drawers = {1}
INVARIANTS
    TypeOK CursorsAgree BlankAhead
PROPERTY
    ScreensIndependent
