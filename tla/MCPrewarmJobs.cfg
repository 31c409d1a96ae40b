SPECIFICATION Spec
CONSTANTS
    Workers = {w1, w2, w3}
    Offered = {"submit", "submit_wait", "poll", "retry", "cancel", "expire_due"}
    Overlaps = {1, 2}
    None = None
SYMMETRY WorkerSymmetry
INVARIANTS CompleteWasWarmed
PROPERTIES AttemptsTakeTurns
CHECK_DEADLOCK FALSE
