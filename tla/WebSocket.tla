----------------------------- MODULE WebSocket -----------------------------
(***************************************************************************)
(* A Conn of go.net/websocket after the handshake: goroutines read and     *)
(* write it, and one closes it, while the peer sends frames of any kind    *)
(* and may stop in the middle of one.  Bytes are abstracted to units: a    *)
(* frame is a head and its payload units; the peer's are known by the      *)
(* number of their frame and their place in it.                            *)
(***************************************************************************)
EXTENDS Integers, Sequences, SequencesExt

CONSTANTS
    Readers,    \* goroutines that call Read or Receive
    Writers,    \* goroutines that call Write, Send or Close
    MaxUnits,   \* bound: the payload units the peer sends
    MaxFrames,  \* bound: the frames that the peer and the writers send
    MaxControl, \* maxControlFramePayloadLength, 125 bytes
    Server,     \* ws.request # nil: this is the server's end
    NoOne       \* the owner of a free mutex

ASSUME WebSocketAssumption ==
    /\ MaxUnits \in Nat /\ MaxFrames \in Nat /\ MaxControl \in Nat \ {0}
    /\ Server \in BOOLEAN
    /\ NoOne \notin Readers \cup Writers

Users == Readers \cup Writers

\* "data" stands for text, binary, continuation and the unknown opcodes, which
\* differ in the type that the payload is given to the caller with.
OpCodes == {"data", "close", "ping", "pong"}

\* A unit of a stream, in the peer's frame of that number or in one of our own
\* (number 0); a head tells the length of the payload that follows it.
HeadUnit(op, masked, len, number) ==
    [op |-> op, masked |-> masked, len |-> len, number |-> number, payload |-> 0]
DataUnit(number, k) ==
    [op |-> "payload", masked |-> FALSE, len |-> 0, number |-> number, payload |-> k]
IsHead(u) == u.op # "payload"
Status(code) == <<DataUnit(0, code)>>

VARIABLES
    incoming, \* what the peer sent and nobody has read
    peerDone, \* the peer's stream has ended
    outgoing, \* the frames that were flushed, as sequences of units
    bufw,     \* buf.Writer: units that are not flushed
    broken,   \* it has failed
    closed,   \* rwc is closed
    frame,    \* ws.frameReader: how much of its payload is left, or NoFrame
    rio, wio, \* who holds the mutexes
    user,     \* what each goroutine is doing
    sends,    \* frames the writers have begun
    \* History:
    arrived,  \* the payload units of every frame the peer sent: [op, units]
    got,      \* the units that Read and Receive have returned
    failed,   \* a Read or Receive has returned an error
    garbled   \* payload was read as a frame's head

readVars == <<incoming, frame, rio, got, failed, garbled>>
writeVars == <<outgoing, bufw, broken, wio, sends>>
peerVars == <<peerDone, arrived>>
webSocketVars == <<readVars, writeVars, peerVars, closed, user>>

NoFrame == -1
FramesSoFar == Len(arrived) + sends

\* op, masked, left: the frame that it handles, and how much of its payload is
\* left; op, msg: the frame that it writes.
NoWork == [pc |-> "idle", call |-> "none", op |-> "none", masked |-> FALSE,
           left |-> NoFrame, msg |-> <<>>]
Does(u, pc) == user[u].pc = pc
Goes(u, pc) == user' = [user EXCEPT ![u].pc = pc]

WebSocketInit ==
    /\ incoming = <<>> /\ peerDone = FALSE /\ arrived = <<>>
    /\ outgoing = <<>> /\ bufw = <<>> /\ sends = 0
    /\ closed = FALSE /\ broken = FALSE
    /\ frame = NoFrame
    /\ rio = NoOne /\ wio = NoOne
    /\ user = [u \in Users |-> NoWork]
    /\ got = <<>> /\ failed = FALSE /\ garbled = FALSE

-----------------------------------------------------------------------------
(* Mistakes the code does not make; each must break a property. *)

BugNoLock(u) == wio' = u
BugIgnoresPong(u) == Goes(u, "next") /\ UNCHANGED incoming
BugReceivesRest(u) ==
    /\ user' = [user EXCEPT ![u].pc = "body", ![u].left = frame]
    /\ frame' = NoFrame
    /\ UNCHANGED incoming
BugReusesMessage(u, op, msg) ==
    user' = [user EXCEPT ![u].pc = "wio", ![u].op = op,
                         ![u].msg = IF @ = <<>> THEN msg ELSE @]
BugClosesAnyway(u, ok) == IF user[u].call = "close" THEN "close" ELSE "next"
-----------------------------------------------------------------------------
(* The writing end: HandleFrame's answers, Write, Send and Close. *)

\* wio.Lock() and NewFrameWriter: the client's frames are masked.
TakesWio(u) == wio = NoOne /\ wio' = u

BeginsFrame(u) ==
    /\ Does(u, "wio")
    /\ TakesWio(u)
    /\ bufw' = Append(bufw, HeadUnit(user[u].op, ~Server, Len(user[u].msg), 0))
    /\ Goes(u, "data")
    /\ UNCHANGED <<readVars, outgoing, broken, sends, peerVars, closed>>

\* What a goroutine does when its frame was written (ok) or not: a pong goes on
\* with the next frame, the close of a frame with a bad mask ends in EOF, and
\* Conn.Close closes the connection only after a good flush.
AfterFlush(u, ok) ==
    CASE user[u].op = "pong" -> IF ok THEN "next" ELSE "error"
      [] user[u].op = "close" /\ user[u].call = "close" -> IF ok THEN "close" ELSE "return"
      [] user[u].op = "close" /\ user[u].call # "close" -> "error"
      [] OTHER -> "return"

\* w.Write and its Flush; bufio keeps the first error and fails ever after.
EndsFrame(u) ==
    /\ Does(u, "data")
    /\ wio' = NoOne
    /\ \/ /\ ~closed /\ ~broken
          /\ outgoing' = Append(outgoing, bufw \o user[u].msg)
          /\ bufw' = <<>>
          /\ Goes(u, AfterFlush(u, TRUE))
          /\ UNCHANGED broken
       \/ /\ broken' = TRUE
          /\ Goes(u, AfterFlush(u, FALSE))
          /\ UNCHANGED <<outgoing, bufw>>
    /\ UNCHANGED <<readVars, sends, peerVars, closed>>

\* Write and Send differ in where the frame's type comes from; Send of a value
\* that is neither string nor []byte returns ErrNotSupported at once.
Write(u) ==
    /\ Does(u, "idle") /\ FramesSoFar < MaxFrames
    /\ sends' = sends + 1
    /\ user' = [user EXCEPT ![u] = [NoWork EXCEPT !.pc = "wio", !.call = "write",
                                                  !.op = "data", !.msg = <<DataUnit(0, sends + 1)>>]]
    /\ UNCHANGED <<readVars, outgoing, bufw, broken, wio, peerVars, closed>>

\* Conn.Close: the message of the frame is the status.
CloseConn(u) ==
    /\ Does(u, "idle") /\ FramesSoFar < MaxFrames
    /\ sends' = sends + 1
    /\ user' = [user EXCEPT ![u] = [NoWork EXCEPT !.pc = "wio", !.call = "close",
                                                  !.op = "close", !.msg = Status(1000)]]
    /\ UNCHANGED <<readVars, outgoing, bufw, broken, wio, peerVars, closed>>

ClosesRwc(u) ==
    /\ Does(u, "close")
    /\ closed' = TRUE
    /\ Goes(u, "return")
    /\ UNCHANGED <<readVars, writeVars, peerVars>>

WriterReturns(u) ==
    /\ u \in Writers /\ Does(u, "return")
    /\ user' = [user EXCEPT ![u] = NoWork]
    /\ UNCHANGED <<readVars, writeVars, peerVars, closed>>

FrameStep(u) ==
    \/ BeginsFrame(u) \/ EndsFrame(u) \/ ClosesRwc(u) \/ WriterReturns(u)

-----------------------------------------------------------------------------
(* The reading end. *)

Min2(m, n) == IF m < n THEN m ELSE n

\* How many units of a payload of n are there to be read.
Available(n) ==
    LET heads == {k \in DOMAIN incoming : IsHead(incoming[k])}
    IN IF heads = {} THEN Min2(n, Len(incoming)) ELSE Min2(n, Min(heads) - 1)

\* Reading to the end of a payload waits for all of it, or for the stream's end.
Whole(n) == Available(n) = n \/ peerDone
Rest(n) == SubSeq(incoming, Available(n) + 1, Len(incoming))
First(n) == SubSeq(incoming, 1, n)

\* The stream has ended; or it is closed, but bufio may still hold some of it.
MayFail == closed \/ (incoming = <<>> /\ peerDone)

\* Read and Receive, at rio.Lock().
Reads(u, call) ==
    /\ Does(u, "idle")
    /\ user' = [user EXCEPT ![u] = [NoWork EXCEPT !.pc = "rio", !.call = call]]
    /\ UNCHANGED <<readVars, writeVars, peerVars, closed>>

\* Receive first discards what a Read has left of its frame.
Discards(u) ==
    /\ Whole(frame)
    /\ incoming' = Rest(frame)
    /\ frame' = NoFrame
    /\ Goes(u, "next")

LocksRio(u) ==
    /\ Does(u, "rio")
    /\ rio = NoOne /\ rio' = u
    /\ IF frame = NoFrame THEN Goes(u, "next") /\ UNCHANGED <<incoming, frame>>
       ELSE IF user[u].call = "receive" THEN Discards(u)
       ELSE Goes(u, "body") /\ UNCHANGED <<incoming, frame>>
    /\ UNCHANGED <<got, failed, garbled, writeVars, peerVars, closed>>

\* NewFrameReader; if the payload of an earlier frame is still there, its bytes
\* are taken for a head and what follows is noise.
TakesHead(u) ==
    /\ Does(u, "next") /\ incoming # <<>>
    /\ IF IsHead(Head(incoming))
       THEN /\ incoming' = Tail(incoming)
            /\ user' = [user EXCEPT ![u].pc = "handle", ![u].op = Head(incoming).op,
                                    ![u].masked = Head(incoming).masked,
                                    ![u].left = Head(incoming).len]
            /\ UNCHANGED garbled
       ELSE /\ garbled' = TRUE
            /\ incoming' = <<>>
            /\ Goes(u, "error")
    /\ UNCHANGED <<frame, rio, got, failed, writeVars, peerVars, closed>>

\* HandleFrame answers with a frame of its own.
Answers(u, op, msg) ==
    user' = [user EXCEPT ![u].pc = "wio", ![u].op = op, ![u].msg = msg, ![u].left = NoFrame]

\* io.ReadFull(frame, pingMsg): an empty ping is an EOF; the rest is discarded.
HandlesPing(u) ==
    LET n == user[u].left
    IN IF n = 0 \/ (Available(n) = 0 /\ peerDone)
       THEN Goes(u, "error") /\ UNCHANGED incoming
       ELSE /\ Whole(n)
            /\ Answers(u, "pong", First(Min2(Available(n), MaxControl)))
            /\ incoming' = Rest(n)

\* ErrNotImplemented: the payload is left where it is.
HandlesPong(u) == Goes(u, "error") /\ UNCHANGED incoming

\* The client must mask its frames and the server must not.
RightMask(u) == user[u].masked = Server

HandlesFrame(u) ==
    /\ Does(u, "handle")
    /\ CASE ~RightMask(u) ->
              Answers(u, "close", Status(1002)) /\ UNCHANGED <<incoming, frame>>
         [] RightMask(u) /\ user[u].op = "close" ->
              Goes(u, "error") /\ UNCHANGED <<incoming, frame>>
         [] RightMask(u) /\ user[u].op = "ping" -> HandlesPing(u) /\ UNCHANGED frame
         [] RightMask(u) /\ user[u].op = "pong" -> HandlesPong(u) /\ UNCHANGED frame
         [] OTHER ->
              /\ Goes(u, "body")
              /\ frame' = IF user[u].call = "read" THEN user[u].left ELSE NoFrame
              /\ UNCHANGED incoming
    /\ UNCHANGED <<rio, got, failed, garbled, writeVars, peerVars, closed>>

\* The call returns the payload and releases rio.
Gets(u, units) == /\ got' = Append(got, [call |-> user[u].call, units |-> units])
                  /\ rio' = NoOne
                  /\ user' = [user EXCEPT ![u] = NoWork]

\* Read with a buffer of one unit: at the end of the payload, or of the stream,
\* it goes on with the next frame.
ReadsBody(u) ==
    /\ Does(u, "body") /\ user[u].call = "read"
    /\ IF frame = 0 \/ (Available(frame) = 0 /\ peerDone)
       THEN frame' = NoFrame /\ Goes(u, "next") /\ UNCHANGED <<incoming, got, rio>>
       ELSE /\ Available(frame) > 0
            /\ frame' = frame - 1
            /\ incoming' = Tail(incoming)
            /\ Gets(u, First(1))
    /\ UNCHANGED <<failed, garbled, writeVars, peerVars, closed>>

\* Receive: ioutil.ReadAll takes the end of the stream for that of the frame.
ReceivesBody(u) ==
    /\ Does(u, "body") /\ user[u].call = "receive"
    /\ Whole(user[u].left)
    /\ incoming' = Rest(user[u].left)
    /\ Gets(u, First(Available(user[u].left)))
    /\ UNCHANGED <<frame, failed, garbled, writeVars, peerVars, closed>>

\* The connection gives no more bytes; a frame that was begun is kept.
StreamFails(u) ==
    /\ user[u].pc = "next" \/ (user[u].pc \in {"handle", "body"} /\ closed)
    /\ MayFail
    /\ Goes(u, "error")
    /\ UNCHANGED <<readVars, writeVars, peerVars, closed>>

ReturnsError(u) ==
    /\ u \in Readers /\ Does(u, "error")
    /\ rio' = NoOne
    /\ failed' = TRUE
    /\ user' = [user EXCEPT ![u] = NoWork]
    /\ UNCHANGED <<incoming, frame, got, garbled, writeVars, peerVars, closed>>

ReaderStep(u) ==
    \/ LocksRio(u) \/ TakesHead(u) \/ HandlesFrame(u) \/ ReadsBody(u)
    \/ ReceivesBody(u) \/ StreamFails(u) \/ ReturnsError(u)

-----------------------------------------------------------------------------
(* The peer. *)

UnitsSent == FoldLeft(LAMBDA n, f : n + Len(f.units), 0, arrived)

\* It sends a frame of n payload units, of which cut arrive; with fewer than n
\* its stream is over.
PeerSends(op, right, n, cut) ==
    /\ ~peerDone /\ FramesSoFar < MaxFrames /\ UnitsSent + cut <= MaxUnits
    /\ LET number == Len(arrived) + 1
           units == [k \in 1..cut |-> DataUnit(number, k)]
       IN /\ incoming' = incoming \o <<HeadUnit(op, right = Server, n, number)>> \o units
          /\ arrived' = Append(arrived, [op |-> op, units |-> units])
    /\ peerDone' = (cut < n)
    /\ UNCHANGED <<frame, rio, got, failed, garbled, writeVars, closed, user>>

PeerEnds ==
    /\ ~peerDone
    /\ peerDone' = TRUE
    /\ UNCHANGED <<readVars, writeVars, arrived, closed, user>>

Peer ==
    \/ \E op \in OpCodes, n \in 0..2 :
          \E cut \in 0..n : PeerSends(op, TRUE, n, cut)
    \/ PeerSends("data", FALSE, 1, 1)
    \/ PeerEnds

WebSocketNext ==
    \/ \E u \in Readers, call \in {"read", "receive"} : Reads(u, call)
    \/ \E u \in Readers : ReaderStep(u)
    \/ \E u \in Writers : Write(u) \/ CloseConn(u)
    \/ \E u \in Users : FrameStep(u)
    \/ Peer

WebSocketSpec == WebSocketInit /\ [][WebSocketNext]_webSocketVars

-----------------------------------------------------------------------------
(* Properties. *)

WebSocketTypeOK ==
    /\ peerDone \in BOOLEAN /\ closed \in BOOLEAN /\ broken \in BOOLEAN
    /\ frame \in {NoFrame} \cup Nat
    /\ rio \in {NoOne} \cup Readers /\ wio \in {NoOne} \cup Users
    /\ \A u \in Users : user[u].left \in {NoFrame} \cup Nat

\* What the writers and the reader's pongs and closes put on the wire are whole
\* frames one after the other, with the mask of this end, whoever writes at the
\* same time.
FramesAreWhole ==
    \A i \in DOMAIN outgoing :
        LET f == outgoing[i]
        IN /\ f[1].op # "payload" /\ f[1].masked = ~Server
           /\ Len(f) = f[1].len + 1
           /\ \A k \in 2..Len(f) : f[k].op = "payload"

FrameOf(u) == arrived[u.number]
Before(u, v) ==
    u.number < v.number \/ (u.number = v.number /\ u.payload < v.payload)

\* Pongs answer pings in the order in which they came, each at most once, with
\* the payload of the ping or the beginning of it.
PongsEchoPings ==
    LET pongs == {i \in DOMAIN outgoing : outgoing[i][1].op = "pong"}
        echo(i) == Tail(outgoing[i])
    IN \A i \in pongs :
          /\ echo(i) # <<>> /\ FrameOf(echo(i)[1]).op = "ping"
          /\ IsPrefix(echo(i), FrameOf(echo(i)[1]).units)
          /\ \A j \in pongs : i < j => echo(i)[1].number < echo(j)[1].number

\* Readers get the payload of data frames in the order in which it came, no
\* part of it twice and never that of a control frame, however many goroutines
\* read and even if they mix Read and Receive; and Receive returns the payload
\* of one frame, whole if the stream did not end in it.
DataInOrder ==
    \A i \in DOMAIN got :
        LET units == got[i].units
        IN /\ \A k \in DOMAIN units :
                 /\ FrameOf(units[k]).op = "data"
                 /\ \A m \in DOMAIN units : k < m => Before(units[k], units[m])
                 /\ \A j \in DOMAIN got : i < j =>
                       \A m \in DOMAIN got[j].units : Before(units[k], got[j].units[m])
           /\ got[i].call = "receive" /\ units # <<>> => units = FrameOf(units[1]).units

\* The frame boundaries are lost only after a Read or Receive that returned an
\* error (a pong, a close or a wrong mask, whose payload stays unread).
BoundariesAreKept == garbled => failed

\* The two directions of a connection: whole frames and one pong for a ping go
\* out, and the payload of the data frames comes in, in order.
WireIsSound == FramesAreWhole /\ PongsEchoPings
DataIsSound == DataInOrder /\ BoundariesAreKept

\* Conn.Close closes the connection only after its close frame got out; no pong
\* or data of other goroutines follows the frame once it is closed.
CloseFrameSent ==
    \E i \in DOMAIN outgoing :
        outgoing[i] = <<HeadUnit("close", ~Server, 1, 0)>> \o Status(1000)
CloseIsAnnounced ==
    [][(closed' => CloseFrameSent) /\ (closed => outgoing' = outgoing)]_webSocketVars
=============================================================================
