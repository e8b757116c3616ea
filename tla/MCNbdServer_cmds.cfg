CONSTANTS
    c1 = c1  c2 = c2  h1 = h1  h2 = h2  d1 = d1  d2 = d2
    nm = nm  other = other  longer = longer
    NoConn = NoConn  NoHandle = NoHandle  Orig = Orig  Zero = Zero
    Garbage = Garbage
    Conns <- MCConns
    Handles <- MCHandles
    Data = {d1, d2}
    ExportName = nm
    NameLen <- MCNameLen
    OldStyle = TRUE
    HdrLen = 2
    FileSize0 = 1
    OffLimit = 3
    MaxChunk = 3
    MaxMsgs = 2
    ClientZeros <- MCZeros
    ClientOpts <- MCOpts
    ClientReqs <- MCCleanReqs
    AssertsEnabled = TRUE
    IoErrors = FALSE
    SendsAfterDisc = FALSE
    ClosingConns = {c1}
    SocketErrors = FALSE
    ShortWrites = FALSE
SPECIFICATION Spec
CONSTRAINT OutBound
INVARIANT TypeOK
INVARIANT RepliesAnswerRequestsInOrder
INVARIANT ReadsSeeLatestWrites
PROPERTY EveryRequestAnswered
PROPERTY ImplementsBlockDevice
CHECK_DEADLOCK FALSE
