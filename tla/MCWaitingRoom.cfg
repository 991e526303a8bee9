CONSTANTS
    u1 = u1
    u2 = u2
    r1 = r1
    r2 = r2
    Users = {u1, u2}
    Requests = {r1, r2}
    Owners <- OneOrTwo
    EntryRank = 0
    MaxEnterPerSecond = 1
    MaxAge = 2
    MaxTokens <- TwoThenOne
    MaxFaults = 1
SPECIFICATION FairRoomSpec
INVARIANTS
    TypeOK
    PermitsPerSecond
    OneTokenEach
PROPERTIES
    PollingAdmits
    PlaceIsKept
    TokenSpec
