CONSTANTS
    Scripts = {"limiter", "breaker", "bulkhead", "latency", "soak", "seat", "journey", "idempotency", "saga", "resilience", "invariant"}
    VUs = {v1, v2}
    Few = 1
    Many = 2
    Repeats <- FewOrMany
SPECIFICATION LoadSpec
SYMMETRY Symmetry
INVARIANTS
    CountsAgree
    PassIsEarned
    FailIsExplained
    RecoveryFollowsLoss
CHECK_DEADLOCK FALSE
