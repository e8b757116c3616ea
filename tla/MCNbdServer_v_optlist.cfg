CONSTANTS
    c1 = c1  c2 = c2  h1 = h1  h2 = h2  d1 = d1  d2 = d2
    nm = nm  other = other  longer = longer
    NoConn = NoConn  NoHandle = NoHandle  Orig = Orig  Zero = Zero
    Garbage = Garbage
    Conns <- MCOneConn
    Handles <- MCHandles
    Data = {d1, d2}
    ExportName = nm
    NameLen <- MCNameLen
    OldStyle = FALSE
    HdrLen = 2
    FileSize0 = 1
    OffLimit = 3
    MaxChunk = 2
    MaxMsgs = 4
    ClientZeros <- MCZeros
    ClientOpts <- MCOpts
    ClientReqs <- MCNegReqs
    AssertsEnabled = TRUE
    IoErrors = FALSE
    SendsAfterDisc = TRUE
    ClosingConns = {}
    SocketErrors = FALSE
    ShortWrites = FALSE
SPECIFICATION Spec
CONSTRAINT OutBound
SYMMETRY Symm
PROPERTY LoopIterationsConsume
CHECK_DEADLOCK FALSE
