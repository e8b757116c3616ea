CONSTANTS
    Dbs = {0, 1}
    Db = 1
    AssertsEnabled = TRUE
    RedisMayBeDown = TRUE
    MaxDrops = 1
    Sectors = {0, 3}
    Payloads = {p1, p2}
    MaxPublishes = 3
SPECIFICATION PSpec

PROPERTIES TimeoutDisconnectRecovers
CHECK_DEADLOCK FALSE
