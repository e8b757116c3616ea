CONSTANTS
    c1 = c1  c2 = c2  h1 = h1  h2 = h2  d1 = d1  d2 = d2
    nm = nm  other = other  longer = longer
    NoConn = NoConn  NoHandle = NoHandle  Orig = Orig  Zero = Zero
    Garbage = Garbage
    Conns <- MCOneConn
    Handles <- MCHandles
    Data = {d1, d2}
    ExportName = nm
    NameLen <- MCNameLen
    OldStyle = TRUE
    HdrLen = 2
    FileSize0 = 1
    OffLimit = 3
    MaxChunk = 2
    MaxMsgs = 3
    ClientZeros <- MCZeros
    ClientOpts <- MCOpts
    ClientReqs <- MCEdgeReqs
    AssertsEnabled = FALSE
    IoErrors = TRUE
    SendsAfterDisc = TRUE
    ClosingConns = {}
    SocketErrors = FALSE
    ShortWrites = FALSE
SPECIFICATION Spec
CONSTRAINT OutBound
SYMMETRY Symm
INVARIANT ReadsNeverSpin
CHECK_DEADLOCK FALSE
