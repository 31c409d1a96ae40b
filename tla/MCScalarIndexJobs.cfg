SPECIFICATION Spec
CONSTANTS
    Callers = {c1, c2, c3}
    Maintainers = {}
    Modes = {"sync", "async", "planned"}
    Offered = {"request", "request_wait", "poll", "retry", "cancel", "expire_due", "reconcile"}
    Overlaps = {1, 2}
    None = None
SYMMETRY CallSymmetry
INVARIANTS FirstClaimWins CompleteIsBuilt OneBuildPerAttempt
PROPERTIES FollowsLifecycle
CHECK_DEADLOCK FALSE
