CONSTANTS
    Dbs = {0, 1}
    Db = 1
    AssertsEnabled = TRUE
    RedisMayBeDown = TRUE
    MaxDrops = 2
    Sectors = {0, 3}
    Payloads = {p1, p2}
    MaxPublishes = 3
SPECIFICATION PSpec
INVARIANTS PushesLandInConfiguredDb QueuedInPublishOrder QueuedPairsIntact
PROPERTIES MCEveryPublishQueued
CHECK_DEADLOCK FALSE
