CONSTANTS
    c1 = c1  c2 = c2  h1 = h1  h2 = h2  d1 = d1  d2 = d2  nm = nm
    NoConn = NoConn  NoHandle = NoHandle  Orig = Orig  Zero = Zero
    Garbage = Garbage
    Conns <- MCConns
    Handles <- MCHandles
    Data = {d1, d2}
    ExportName = nm
    NameLen <- MCNameLen
    OldStyle = TRUE
    HdrLen = 2
    FileSize0 = 1
    OffLimit = 3
    MaxChunk = 2
    MaxMsgs = 2
    ClientZeros = {}
    ClientOpts = {}
    ClientReqs <- MCReqs
    AssertsEnabled = TRUE
    IoErrors = FALSE
    SendsAfterDisc = FALSE
    ClosingConns = {}
    SocketErrors = FALSE
    ShortWrites = FALSE
    Dbs = {0, 1}
    Db = 1
    RedisMayBeDown = TRUE
    MaxDrops = 1
SPECIFICATION Spec
SYMMETRY Symm
INVARIANT QueueFollowsFile
CHECK_DEADLOCK FALSE
