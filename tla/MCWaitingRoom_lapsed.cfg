CONSTANTS
    u1 = u1
    u2 = u2
    r1 = r1
    r2 = r2
    Users = {u1}
    Requests = {r1}
    Owners <- Alone
    EntryRank = 0
    MaxEnterPerSecond = 1
    MaxAge = 2
    MaxTokens <- Two
    MaxFaults = 0
SPECIFICATION FairRoomSpec
PROPERTIES
    PollingPays
