SPECIFICATION AllSpec
CONSTANTS
    Callers = {t1, t2}
    MaxCtx = 3
    MaxDeadlines = 1
    Horizon = 1
    Nobody = Nobody
    Acceptors = {a1, a2}
    Closers = {k1, k2}
    Conns = {d1, d2, d3}
    Limit = 2
    NoConn = NoConn
    Tests = 2
    BenchTime = TRUE
    MaxN = 100
    DoneCap = 1
    Readers = {r1, r2}
    Writers = {x1}
    MaxUnits = 3
    MaxFrames = 2
    MaxControl = 1
    Server = TRUE
    NoOne = NoOne
    Protocols = {"chat", "news"}
    Conns3 = {c1}
    Conns1 = {c0}
    MaxChanges = 2
    Frames <- MCFrames
    PeerFrames <- MCPeerFrames
    MaxSpdyFrames = 3
    HighBit = 256
    MaxDataLength = 15
    UnknownTags = {"foo", "bar"}
    Inputs <- MCInputs
SYMMETRY Symmetry
INVARIANT GoTypeOK
INVARIANT DescendantsAreCancelled
INVARIANT ResourcesAreReleased
INVARIANT LimitIsKept
INVARIANT RunIsReported
INVARIANT WireIsSound
INVARIANT DataIsSound
INVARIANT HandshakeAgrees
INVARIANT ReportsAreTrue
INVARIANT FramesAreKept
INVARIANT TreeIsRight
INVARIANT RenderIsRight
INVARIANT TokensAreRight
INVARIANT PacketsAreRight
INVARIANT ConversationsAreSound
INVARIANT FunctionsAreRight
