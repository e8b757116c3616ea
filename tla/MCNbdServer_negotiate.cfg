CONSTANTS
    c1 = c1  c2 = c2  h1 = h1  h2 = h2  d1 = d1  d2 = d2
    nm = nm  other = other  longer = longer
    NoConn = NoConn  NoHandle = NoHandle  Orig = Orig  Zero = Zero
    Garbage = Garbage
    Conns <- MCOneConn
    Handles <- MCHandles
    Data = {d1, d2}
    ExportName = nm
    NameLen <- MCNameLen
    OldStyle = FALSE
    HdrLen = 2
    FileSize0 = 1
    OffLimit = 3
    MaxChunk = 2
    MaxMsgs = 4
    ClientZeros <- MCZeros
    ClientOpts <- MCOpts
    ClientReqs <- MCAllReqs
    AssertsEnabled = TRUE
    IoErrors = TRUE
    SendsAfterDisc = TRUE
    ClosingConns = {c1}
    SocketErrors = TRUE
    ShortWrites = TRUE
SPECIFICATION Spec
CONSTRAINT OutBound
INVARIANT RepliesAnswerRequestsInOrder
INVARIANT ReadsSeeLatestWrites
INVARIANT OnlyExactNameOpensExport
PROPERTY ClosedClientsFreed
CHECK_DEADLOCK FALSE
