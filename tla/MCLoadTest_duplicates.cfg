CONSTANTS
    Scripts = {"seat"}
    VUs = {v1, v2}
    Few = 1
    Many = 2
    Repeats <- Once
SPECIFICATION LoadSpec
SYMMETRY Symmetry
INVARIANT DuplicateFails
CHECK_DEADLOCK FALSE
