SPECIFICATION Spec
CONSTANTS
    Workers = {w1, w2, w3}
    Operators = {o1}
    Retainers = {k1, k2}
    Auditors = {h1}
    Selections <- MCSelections
    Scenarios <- MCScenarios
    Past = Past
    None = None
SYMMETRY MCSymmetry
INVARIANTS OneWinnerPerRow NeverStealsRunning NoDuplicateFrames LatestIsClaimable PublishedIsComplete
PROPERTIES LatestSurvivesRetention HeldRowsSurvive
CHECK_DEADLOCK FALSE
