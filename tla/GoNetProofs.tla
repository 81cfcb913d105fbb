----------------------------- MODULE GoNetProofs -----------------------------
(***************************************************************************)
(* Proofs about three packages of go.net: LimitListener (netutil), for any *)
(* number of goroutines and connections and any limit; Handshake           *)
(* (websocket), for any protocols; WebSocket, for any readers, writers and *)
(* bounds, and either end; and HtmlTokenizer (html), for any input.        *)
(*                                                                         *)
(* The listener: a connection's releaseOnce is entered by one closer only, *)
(* after it has closed the connection, and that closer alone releases; so  *)
(* the connections that were accepted and not released, with the Accepts   *)
(* in progress, are as many as the tokens, and the open ones among them.   *)
(*                                                                         *)
(* The handshake: the response is what the server has come to, and what a  *)
(* client took from a response it still agrees with.                       *)
(*                                                                         *)
(* The connection: whoever writes holds wio from a frame's head to its     *)
(* flush, so what is in the buffer is one frame's head (BufferOK).  What   *)
(* is not read yet is the end of what the peer sent (StreamOK); whoever    *)
(* holds rio knows which payload comes next (PayloadNext), and what was    *)
(* returned or echoed lies before it (GotOK, PongsOK).                     *)
(*                                                                         *)
(* The tokenizer: each place in its functions has a condition on the bytes *)
(* that were taken since the token began (PlaceFits): that text holds no   *)
(* tag so far and what its last byte may still begin, where a name, a key  *)
(* or a value starts and that no byte in it ends it, how many dashes are   *)
(* the last bytes of a comment.  Bytes that are taken keep it (TakesFits), *)
(* and so does readByte when it moves them (SlidesFit).                    *)
(***************************************************************************)
EXTENDS LimitListener, Handshake, WebSocket, HtmlTokenizer, SequenceTheorems, FiniteSetTheorems,
        TLAPS

(* The listener. *)

Accepting == {a \in Acceptors : acceptor[a] = "accept"}
Counting == {c \in Conns : net[c] # "none" /\ once[c] # "done"}

\* What a closer knows of its connection.
CloserOK(k) ==
    LET c == closing[k].conn IN
    /\ closing[k].pc # "idle" => c \in Conns /\ net[c] # "none"
    /\ closing[k].pc \in {"once", "release"} => net[c] = "closed"
    /\ closing[k].pc = "release" => once[c] = "running"

OneReleases ==
    \A k, l \in Closers :
        /\ closing[k].pc = "release" /\ closing[l].pc = "release"
        /\ closing[k].conn = closing[l].conn
        => k = l

ListenerInv ==
    /\ ListenerTypeOK
    /\ \A k \in Closers : CloserOK(k)
    /\ \A c \in Conns : once[c] # "new" => net[c] = "closed"
    /\ OneReleases
    /\ TokensAreAccounted
    /\ sem <= Limit

USE LimitAssumption

-----------------------------------------------------------------------------

\* The sets that are counted are finite.
LEMMA SetsAreFinite ==
    /\ IsFiniteSet(Accepting) /\ Cardinality(Accepting) \in Nat
    /\ IsFiniteSet(Counting) /\ Cardinality(Counting) \in Nat
<1>1. Accepting \subseteq Acceptors /\ Counting \subseteq Conns
  BY DEF Accepting, Counting
<1> QED
  BY <1>1, FS_Subset, FS_CardinalityType

\* The tokens, by the two sets.
LEMMA TokensBySets ==
    TokensAreAccounted <=> sem = Cardinality(Accepting) + Cardinality(Counting)
BY DEF TokensAreAccounted, Accepting, Counting

\* A step that changes neither set and no token keeps the account.
LEMMA SameAccount ==
    ASSUME TokensAreAccounted, UNCHANGED <<sem, Accepting, Counting>>
    PROVE  TokensAreAccounted'
BY DEF TokensAreAccounted, Accepting, Counting

-----------------------------------------------------------------------------
(* One lemma for each action. *)

LEMMA InitOK == ListenerInit => ListenerInv
<1> SUFFICES ASSUME ListenerInit PROVE ListenerInv
  OBVIOUS
<1>1. Accepting = {} /\ Counting = {}
  BY DEF ListenerInit, Accepting, Counting
<1>2. TokensAreAccounted
  BY <1>1, FS_EmptySet, TokensBySets DEF ListenerInit
<1>3. ListenerTypeOK
  BY DEF ListenerInit, ListenerTypeOK, NotClosing
<1> QED
  BY <1>2, <1>3 DEF ListenerInit, ListenerInv, CloserOK, OneReleases, NotClosing

LEMMA AcceptOK ==
    ASSUME ListenerInv, NEW a \in Acceptors, Accept(a)
    PROVE  ListenerInv'
<1>1. UNCHANGED <<sem, Accepting, Counting>>
  BY DEF ListenerInv, ListenerTypeOK, Accept, Accepting, Counting
<1>2. TokensAreAccounted'
  BY <1>1, SameAccount DEF ListenerInv
<1>3. ListenerTypeOK'
  BY DEF ListenerInv, ListenerTypeOK, Accept
<1> QED
  BY <1>2, <1>3 DEF ListenerInv, Accept, CloserOK, OneReleases

LEMMA AcquiresOK ==
    ASSUME ListenerInv, NEW a \in Acceptors, Acquires(a)
    PROVE  ListenerInv'
<1>1. ListenerTypeOK'
  BY DEF ListenerInv, ListenerTypeOK, Acquires
<1>2. Accepting' = Accepting \cup {a} /\ a \notin Accepting /\ Counting' = Counting
  BY DEF ListenerInv, ListenerTypeOK, Acquires, Accepting, Counting
<1>3. Cardinality(Accepting') = Cardinality(Accepting) + 1
  BY <1>2, SetsAreFinite, FS_AddElement
<1>4. TokensAreAccounted'
  <2>1. sem = Cardinality(Accepting) + Cardinality(Counting) /\ sem' = sem + 1
    BY TokensBySets DEF ListenerInv, Acquires
  <2>2. sem' = Cardinality(Accepting') + Cardinality(Counting')
    BY <2>1, <1>2, <1>3, SetsAreFinite
  <2> QED
    BY <2>2 DEF TokensAreAccounted, Accepting, Counting
<1>5. sem' <= Limit
  BY DEF ListenerInv, ListenerTypeOK, Acquires, Free
<1> QED
  BY <1>1, <1>4, <1>5 DEF ListenerInv, Acquires, CloserOK, OneReleases

LEMMA AcceptsOK ==
    ASSUME ListenerInv, NEW a \in Acceptors, NEW c \in Conns, Accepts(a, c)
    PROVE  ListenerInv'
<1>1. ListenerTypeOK'
  BY DEF ListenerInv, ListenerTypeOK, Accepts
<1>2. once[c] = "new"
  BY DEF ListenerInv, ListenerTypeOK, Accepts
<1>3. /\ Accepting' = Accepting \ {a} /\ a \in Accepting
      /\ Counting' = Counting \cup {c} /\ c \notin Counting
  BY <1>2 DEF ListenerInv, ListenerTypeOK, Accepts, Accepting, Counting
<1>4. /\ Cardinality(Accepting') = Cardinality(Accepting) - 1
      /\ Cardinality(Counting') = Cardinality(Counting) + 1
  BY <1>3, SetsAreFinite, FS_AddElement, FS_RemoveElement
<1>5. TokensAreAccounted'
  <2>1. sem = Cardinality(Accepting) + Cardinality(Counting) /\ sem' = sem
    BY TokensBySets DEF ListenerInv, Accepts
  <2>2. sem' = Cardinality(Accepting') + Cardinality(Counting')
    BY <2>1, <1>4, SetsAreFinite
  <2> QED
    BY <2>2 DEF TokensAreAccounted, Accepting, Counting
<1>6. \A k \in Closers : CloserOK(k)'
  BY DEF ListenerInv, ListenerTypeOK, Accepts, CloserOK
<1>7. \A d \in Conns : once'[d] # "new" => net'[d] = "closed"
  BY <1>2 DEF ListenerInv, ListenerTypeOK, Accepts
<1> QED
  BY <1>1, <1>5, <1>6, <1>7 DEF ListenerInv, Accepts, OneReleases

LEMMA AcceptFailsOK ==
    ASSUME ListenerInv, NEW a \in Acceptors, AcceptFails(a)
    PROVE  ListenerInv'
<1>1. ListenerTypeOK'
  BY DEF ListenerInv, ListenerTypeOK, AcceptFails, Fails
<1>2. Accepting' = Accepting \ {a} /\ a \in Accepting /\ Counting' = Counting
  BY DEF ListenerInv, ListenerTypeOK, AcceptFails, Fails, Accepting, Counting
<1>3. Cardinality(Accepting') = Cardinality(Accepting) - 1
  BY <1>2, SetsAreFinite, FS_RemoveElement
<1>4. TokensAreAccounted'
  <2>1. sem = Cardinality(Accepting) + Cardinality(Counting) /\ sem' = sem - 1
    BY TokensBySets DEF ListenerInv, AcceptFails, Fails
  <2>2. sem' = Cardinality(Accepting') + Cardinality(Counting')
    BY <2>1, <1>2, <1>3, SetsAreFinite
  <2> QED
    BY <2>2 DEF TokensAreAccounted, Accepting, Counting
<1>5. sem' <= Limit
  BY DEF ListenerInv, ListenerTypeOK, AcceptFails, Fails
<1> QED
  BY <1>1, <1>4, <1>5 DEF ListenerInv, AcceptFails, Fails, CloserOK, OneReleases

LEMMA CloseOK ==
    ASSUME ListenerInv, NEW k \in Closers, NEW c \in Conns, Close(k, c)
    PROVE  ListenerInv'
<1>1. ListenerTypeOK'
  BY DEF ListenerInv, ListenerTypeOK, Close
<1>2. UNCHANGED <<sem, Accepting, Counting>>
  BY DEF Close, Accepting, Counting
<1>3. TokensAreAccounted'
  BY <1>2, SameAccount DEF ListenerInv
<1>4. \A l \in Closers : CloserOK(l)'
  BY DEF ListenerInv, ListenerTypeOK, Close, CloserOK
<1>5. OneReleases'
  BY DEF ListenerInv, ListenerTypeOK, Close, OneReleases
<1> QED
  BY <1>1, <1>3, <1>4, <1>5 DEF ListenerInv, Close

LEMMA ClosesConnOK ==
    ASSUME ListenerInv, NEW k \in Closers, ClosesConn(k)
    PROVE  ListenerInv'
<1> DEFINE c == closing[k].conn
<1>1. c \in Conns /\ net[c] # "none" /\ closing[k] \in [conn : Conns, pc : {"close", "once", "release"}]
  BY DEF ListenerInv, ListenerTypeOK, ClosesConn, CloserOK, NotClosing
<1>2. ListenerTypeOK'
  BY <1>1 DEF ListenerInv, ListenerTypeOK, ClosesConn
<1>3. UNCHANGED <<sem, Accepting, Counting>>
  BY <1>1 DEF ListenerInv, ListenerTypeOK, ClosesConn, Accepting, Counting
<1>4. TokensAreAccounted'
  BY <1>3, SameAccount DEF ListenerInv
<1>5. \A l \in Closers : CloserOK(l)'
  BY <1>1 DEF ListenerInv, ListenerTypeOK, ClosesConn, CloserOK
<1>6. OneReleases'
  BY <1>1 DEF ListenerInv, ListenerTypeOK, ClosesConn, OneReleases
<1>7. \A d \in Conns : once'[d] # "new" => net'[d] = "closed"
  BY <1>1 DEF ListenerInv, ListenerTypeOK, ClosesConn
<1> QED
  BY <1>2, <1>4, <1>5, <1>6, <1>7 DEF ListenerInv, ClosesConn

LEMMA EntersOnceOK ==
    ASSUME ListenerInv, NEW k \in Closers, EntersOnce(k)
    PROVE  ListenerInv'
<1> DEFINE c == closing[k].conn
<1>1. /\ c \in Conns /\ net[c] = "closed"
      /\ closing[k] \in [conn : Conns, pc : {"close", "once", "release"}]
  BY DEF ListenerInv, ListenerTypeOK, EntersOnce, CloserOK, NotClosing
<1>2. ListenerTypeOK'
  BY <1>1 DEF ListenerInv, ListenerTypeOK, EntersOnce, NotClosing
<1>3. UNCHANGED <<sem, Accepting, Counting>>
  BY <1>1 DEF ListenerInv, ListenerTypeOK, EntersOnce, FirstOnce, Accepting, Counting
<1>4. TokensAreAccounted'
  BY <1>3, SameAccount DEF ListenerInv
<1>5. \A l \in Closers : CloserOK(l)'
  BY <1>1 DEF ListenerInv, ListenerTypeOK, EntersOnce, FirstOnce, CloserOK, NotClosing
<1>6. OneReleases'
  BY <1>1 DEF ListenerInv, ListenerTypeOK, EntersOnce, FirstOnce, OneReleases, CloserOK, NotClosing
<1>7. \A d \in Conns : once'[d] # "new" => net'[d] = "closed"
  BY <1>1 DEF ListenerInv, ListenerTypeOK, EntersOnce
<1> QED
  BY <1>2, <1>4, <1>5, <1>6, <1>7 DEF ListenerInv, EntersOnce

LEMMA ReleasesOK ==
    ASSUME ListenerInv, NEW k \in Closers, Releases(k)
    PROVE  ListenerInv'
<1> DEFINE c == closing[k].conn
<1>1. /\ c \in Conns /\ net[c] = "closed" /\ once[c] = "running"
      /\ closing[k] \in [conn : Conns, pc : {"close", "once", "release"}]
  BY DEF ListenerInv, ListenerTypeOK, Releases, CloserOK, NotClosing
<1>2. ListenerTypeOK'
  BY <1>1 DEF ListenerInv, ListenerTypeOK, Releases, NotClosing
<1>3. Counting' = Counting \ {c} /\ c \in Counting /\ Accepting' = Accepting
  BY <1>1 DEF ListenerInv, ListenerTypeOK, Releases, Accepting, Counting
<1>4. Cardinality(Counting') = Cardinality(Counting) - 1
  BY <1>3, SetsAreFinite, FS_RemoveElement
<1>5. TokensAreAccounted'
  <2>1. sem = Cardinality(Accepting) + Cardinality(Counting) /\ sem' = sem - 1
    BY TokensBySets DEF ListenerInv, Releases
  <2>2. sem' = Cardinality(Accepting') + Cardinality(Counting')
    BY <2>1, <1>3, <1>4, SetsAreFinite
  <2> QED
    BY <2>2 DEF TokensAreAccounted, Accepting, Counting
<1>6. sem' <= Limit
  BY DEF ListenerInv, ListenerTypeOK, Releases
<1>7. \A l \in Closers : CloserOK(l)'
  BY <1>1 DEF ListenerInv, ListenerTypeOK, Releases, OneReleases, CloserOK, NotClosing
<1>8. OneReleases'
  BY <1>1 DEF ListenerInv, ListenerTypeOK, Releases, OneReleases, NotClosing
<1>9. \A d \in Conns : once'[d] # "new" => net'[d] = "closed"
  BY <1>1 DEF ListenerInv, ListenerTypeOK, Releases
<1> QED
  BY <1>2, <1>5, <1>6, <1>7, <1>8, <1>9 DEF ListenerInv

-----------------------------------------------------------------------------

LEMMA ListenerInvIsKept == ListenerInv /\ [ListenerNext]_listenerVars => ListenerInv'
<1> SUFFICES ASSUME ListenerInv, [ListenerNext]_listenerVars PROVE ListenerInv'
  OBVIOUS
<1>1. CASE UNCHANGED listenerVars
  BY <1>1 DEF listenerVars, ListenerInv, ListenerTypeOK, CloserOK, OneReleases, TokensAreAccounted
<1>2. CASE ListenerNext
  BY <1>2, AcceptOK, AcquiresOK, AcceptsOK, AcceptFailsOK, CloseOK, ClosesConnOK,
     EntersOnceOK, ReleasesOK DEF ListenerNext
<1> QED
  BY <1>1, <1>2

LEMMA OpenAreFew == ListenerInv => AtMostLimit
<1> SUFFICES ASSUME ListenerInv PROVE AtMostLimit
  OBVIOUS
<1> DEFINE Open == {c \in Conns : net[c] = "open"}
<1>1. Open \subseteq Counting
  BY DEF ListenerInv, Counting
<1>2. Cardinality(Open) <= Cardinality(Counting) /\ Cardinality(Open) \in Nat
  BY <1>1, SetsAreFinite, FS_Subset, FS_CardinalityType
<1>3. sem = Cardinality(Accepting) + Cardinality(Counting) /\ sem <= Limit
  BY TokensBySets DEF ListenerInv
<1>4. Cardinality(Open) <= Limit
  <2> HIDE DEF Open
  <2> QED BY <1>2, <1>3, SetsAreFinite
<1> QED
  BY <1>4 DEF AtMostLimit

LEMMA ListenerInvHolds == ListenerSpec => []ListenerInv
BY InitOK, ListenerInvIsKept, PTL DEF ListenerSpec

\* LimitListener (listen.go): its variables keep their types.
THEOREM ListenerIsTyped == ListenerSpec => []ListenerTypeOK
<1>1. ListenerInv => ListenerTypeOK
  BY DEF ListenerInv
<1> QED
  BY <1>1, ListenerInvHolds, PTL

\* Accept, Close and release (listen.go): every token belongs to an Accept in progress or
\* to a connection that is not released yet, and at most Limit connections are open,
\* whatever goroutines accept, fail and close at the same time.
THEOREM ListenerKeepsLimit == ListenerSpec => []LimitIsKept
<1>1. ListenerInv => LimitIsKept
  BY OpenAreFew DEF ListenerInv, LimitIsKept
<1> QED
  BY <1>1, ListenerInvHolds, PTL

-----------------------------------------------------------------------------
(* The handshake. *)

Ready == upgrader.pc \in {"handshake", "accept"}

DialerOK ==
    /\ dialer \in [pc : {"idle", "wait", "ok", "error"}, protocols : Seq(Protocols),
                   fault : DialFaults]
    /\ mode = "both" /\ dialer.pc = "idle" => hello = NoMsg

UpgraderOK ==
    /\ upgrader \in [pc : {"read", "handshake", "accept", "handler", "handled", "done"},
                     protocols : Seq(Protocols), kind : {"server", "handler"}]
    /\ mode = "client" => upgrader.pc = "read"
    /\ upgrader.pc # "read" => hello # NoMsg

\* A request that the server has taken up has no fault, and what the client of
\* this package sends has none.
HelloOK ==
    /\ hello # NoMsg => hello.protocols \in Seq(Protocols)
    /\ Ready \/ Handled => hello.fault = "none"
    /\ upgrader.pc = "accept" \/ Handled =>
          (upgrader.kind = "handler" => hello.origin = "url")

\* The response is what the server has come to.
WelcomeOK ==
    mode # "client" =>
        /\ upgrader.pc = "read" \/ Ready => welcome = NoMsg
        /\ upgrader.pc = "done" => welcome = Lost \/ welcome.status # 101
        /\ Handled =>
              /\ welcome.status = 101 /\ Len(upgrader.protocols) <= 1
              /\ welcome.protocol = IF upgrader.protocols = <<>> THEN NoProtocol
                                    ELSE upgrader.protocols[1]

\* What a client took from a response it still agrees with.
ConnectedOK ==
    mode = "both" /\ dialer.pc = "ok" =>
        /\ Handled
        /\ welcome.protocol # NoProtocol => dialer.protocols = <<welcome.protocol>>

HandshakeInv ==
    /\ mode \in {"both", "client", "server"}
    /\ DialerOK /\ UpgraderOK /\ HelloOK /\ WelcomeOK /\ ConnectedOK

LEMMA ListsAreSequences == ASSUME NEW n \in Nat PROVE SeqOf(Protocols, n) \subseteq Seq(Protocols)
  BY DEF SeqOf

LEMMA InitKeepsInv == HandshakeInit => HandshakeInv
<1> SUFFICES ASSUME HandshakeInit PROVE HandshakeInv
  OBVIOUS
<1>1. dialer.protocols \in Seq(Protocols) /\ upgrader.protocols \in Seq(Protocols)
  BY ListsAreSequences DEF HandshakeInit, Lists
<1>2. DialerOK /\ UpgraderOK
  BY <1>1 DEF HandshakeInit, DialerOK, UpgraderOK
<1>3. HelloOK /\ WelcomeOK /\ ConnectedOK
  BY DEF HandshakeInit, HelloOK, WelcomeOK, ConnectedOK, Ready, Handled
<1> QED
  BY <1>2, <1>3 DEF HandshakeInv, HandshakeInit

-----------------------------------------------------------------------------
(* The steps. *)

LEMMA DialKeepsInv == ASSUME HandshakeInv, Dial PROVE HandshakeInv'
<1> USE DEF HandshakeInv
<1>1. UNCHANGED <<mode, upgrader, welcome>> /\ upgrader.pc = "read"
  BY DEF Dial, DialEnds, DialerOK, UpgraderOK
<1>2. /\ dialer' \in [pc : {"wait", "error"}, protocols : Seq(Protocols), fault : DialFaults]
      /\ hello' = hello \/ hello'.protocols = dialer.protocols
  BY DEF Dial, DialEnds, DialerOK
<1>3. DialerOK' /\ UpgraderOK'
  BY <1>1, <1>2 DEF DialerOK, UpgraderOK
<1>4. HelloOK' /\ WelcomeOK' /\ ConnectedOK'
  BY <1>1, <1>2 DEF DialerOK, HelloOK, WelcomeOK, ConnectedOK, Ready, Handled
<1> QED
  BY <1>1, <1>3, <1>4

\* The client checks that it is the handler's 101, and that it offered the protocol.
LEMMA ReadsResponseKeepsInv == ASSUME HandshakeInv, ReadsResponse PROVE HandshakeInv'
<1> USE DEF HandshakeInv
<1>1. UNCHANGED <<mode, upgrader, hello, welcome>>
  BY DEF ReadsResponse
<1>2. dialer' \in [pc : {"ok", "error"}, protocols : Seq(Protocols), fault : DialFaults]
  <2>1. CASE GoodWelcome(welcome) /\ welcome.protocol # NoProtocol
    <3>1. welcome.protocol \in Protocols
      BY <2>1 DEF GoodWelcome, ToSet, DialerOK
    <3>2. dialer' = [dialer EXCEPT !.pc = "ok", !.protocols = <<welcome.protocol>>]
      BY <2>1 DEF ReadsResponse, Chosen
    <3>3. <<welcome.protocol>> \in Seq(Protocols)
      BY <3>1
    <3> QED
      BY <3>2, <3>3 DEF DialerOK
  <2>2. CASE GoodWelcome(welcome) /\ welcome.protocol = NoProtocol
    <3>1. dialer' = [dialer EXCEPT !.pc = "ok", !.protocols = @]
      BY <2>2 DEF ReadsResponse
    <3> QED
      BY <3>1 DEF DialerOK
  <2>3. CASE ~GoodWelcome(welcome)
    <3>1. dialer' = [dialer EXCEPT !.pc = "error"]
      BY <2>3 DEF ReadsResponse
    <3> QED
      BY <3>1 DEF DialerOK
  <2> QED
    BY <2>1, <2>2, <2>3
<1>3. ConnectedOK'
  <2> SUFFICES ASSUME mode = "both", dialer'.pc = "ok"
               PROVE  /\ Handled
                      /\ welcome.protocol # NoProtocol => dialer'.protocols = <<welcome.protocol>>
    BY <1>1 DEF ConnectedOK, Handled
  <2>1. GoodWelcome(welcome) /\ welcome # NoMsg
    BY DEF ReadsResponse, DialerOK
  <2>2. Handled
    BY <2>1 DEF GoodWelcome, UpgraderOK, WelcomeOK, Ready, Handled
  <2>3. welcome.protocol # NoProtocol => dialer'.protocols = <<welcome.protocol>>
    BY <2>1 DEF ReadsResponse, Chosen, DialerOK
  <2> QED
    BY <2>2, <2>3
<1>4. DialerOK' /\ UpgraderOK' /\ HelloOK' /\ WelcomeOK'
  BY <1>1, <1>2 DEF DialerOK, UpgraderOK, HelloOK, WelcomeOK, Ready, Handled
<1> QED
  BY <1>1, <1>3, <1>4

LEMMA RejectsKeepsInv ==
    ASSUME HandshakeInv, Ready \/ upgrader.pc = "read", mode # "client", hello # NoMsg,
           NEW code \in {400, 403, 405}, Rejects(code)
    PROVE  HandshakeInv'
<1> USE DEF HandshakeInv
<1>1. /\ UNCHANGED <<mode, dialer, hello>>
      /\ upgrader' = [upgrader EXCEPT !.pc = "done"]
      /\ welcome' = Lost \/ welcome'.status # 101
  BY DEF Rejects, Refusal
<1>2. DialerOK' /\ UpgraderOK' /\ HelloOK' /\ WelcomeOK'
  BY <1>1 DEF DialerOK, UpgraderOK, HelloOK, WelcomeOK, Ready, Handled
<1>3. ConnectedOK'
  BY <1>1 DEF ConnectedOK, UpgraderOK, Ready, Handled
<1> QED
  BY <1>1, <1>2, <1>3

LEMMA ReadsHandshakeKeepsInv == ASSUME HandshakeInv, ReadsHandshake PROVE HandshakeInv'
<1> USE DEF HandshakeInv
<1>1. CASE hello.fault # "none"
  BY <1>1, RejectsKeepsInv DEF ReadsHandshake, Code
<1>2. CASE hello.fault = "none"
  <2>1. /\ UNCHANGED <<mode, dialer, hello, welcome>>
        /\ mode # "client" /\ hello # NoMsg /\ upgrader.pc = "read"
        /\ upgrader' = [upgrader EXCEPT !.pc = "handshake", !.protocols = @ \o hello.protocols]
    BY <1>2 DEF ReadsHandshake
  <2>2. upgrader.protocols \o hello.protocols \in Seq(Protocols)
    BY <2>1 DEF UpgraderOK, HelloOK
  <2>3. DialerOK' /\ UpgraderOK'
    BY <2>1, <2>2 DEF DialerOK, UpgraderOK
  <2>4. HelloOK' /\ WelcomeOK' /\ ConnectedOK'
    BY <1>2, <2>1 DEF UpgraderOK, HelloOK, WelcomeOK, ConnectedOK, Ready, Handled
  <2> QED
    BY <2>1, <2>3, <2>4
<1> QED
  BY <1>1, <1>2

LEMMA HandshakesKeepsInv == ASSUME HandshakeInv, Handshakes PROVE HandshakeInv'
<1> USE DEF HandshakeInv
<1>1. mode # "client" /\ hello # NoMsg /\ Ready
  BY DEF Handshakes, UpgraderOK, Ready
<1>2. CASE Rejects(403)
  BY <1>1, <1>2, RejectsKeepsInv
<1>3. CASE ~Rejects(403)
  <2>1. /\ UNCHANGED <<mode, dialer, hello, welcome>> /\ upgrader.pc = "handshake"
        /\ upgrader.kind = "handler" => hello.origin = "url"
    BY <1>3 DEF Handshakes
  <2>2. PICK chosen \in Seq(Protocols) :
            upgrader' = [upgrader EXCEPT !.pc = "accept", !.protocols = chosen]
    <3>1. PICK chosen \in {upgrader.protocols}
                   \cup (IF upgrader.kind = "server"
                         THEN {<<>>} \cup {<<p>> : p \in ToSet(upgrader.protocols)} ELSE {}) :
              upgrader' = [upgrader EXCEPT !.pc = "accept", !.protocols = chosen]
      BY <1>3 DEF Handshakes
    <3>2. ToSet(upgrader.protocols) \subseteq Protocols
      BY DEF ToSet, UpgraderOK
    <3>3. \A p \in Protocols : <<p>> \in Seq(Protocols)
      OBVIOUS
    <3>4. <<>> \in Seq(Protocols) /\ upgrader.protocols \in Seq(Protocols)
      BY DEF UpgraderOK
    <3>5. chosen \in Seq(Protocols)
      BY <3>2, <3>3, <3>4
    <3> QED
      BY <3>1, <3>5
  <2>3. DialerOK' /\ UpgraderOK'
    BY <1>1, <2>1, <2>2 DEF DialerOK, UpgraderOK
  <2>4. HelloOK' /\ WelcomeOK' /\ ConnectedOK'
    BY <2>1, <2>2 DEF UpgraderOK, HelloOK, WelcomeOK, ConnectedOK, Ready, Handled
  <2> QED
    BY <2>1, <2>3, <2>4
<1> QED
  BY <1>2, <1>3

LEMMA AcceptsHandshakeKeepsInv == ASSUME HandshakeInv, AcceptsHandshake PROVE HandshakeInv'
<1> USE DEF HandshakeInv
<1>1. mode # "client" /\ hello # NoMsg /\ Ready /\ upgrader.pc = "accept"
  BY DEF AcceptsHandshake, UpgraderOK, Ready
<1>2. CASE Rejects(400)
  BY <1>1, <1>2, RejectsKeepsInv
<1>3. CASE ~Rejects(400)
  <2>1. /\ UNCHANGED <<mode, dialer, hello>> /\ Len(upgrader.protocols) <= 1
    BY <1>3 DEF AcceptsHandshake
  <2>2. \/ /\ upgrader' = [upgrader EXCEPT !.pc = "handler"]
           /\ welcome'.status = 101
           /\ welcome'.protocol = IF upgrader.protocols = <<>> THEN NoProtocol
                                  ELSE upgrader.protocols[1]
        \/ upgrader' = [upgrader EXCEPT !.pc = "done"] /\ welcome' = Lost
    BY <1>3 DEF AcceptsHandshake
  <2>3. DialerOK' /\ UpgraderOK'
    BY <1>1, <2>1, <2>2 DEF DialerOK, UpgraderOK
  <2>4. HelloOK'
    BY <1>1, <2>1, <2>2 DEF UpgraderOK, HelloOK, Ready, Handled
  <2>5. WelcomeOK' /\ ConnectedOK'
    BY <1>1, <2>1, <2>2 DEF UpgraderOK, WelcomeOK, ConnectedOK, Ready, Handled
  <2> QED
    BY <2>1, <2>3, <2>4, <2>5
<1> QED
  BY <1>2, <1>3

LEMMA HandlerReturnsKeepsInv == ASSUME HandshakeInv, HandlerReturns PROVE HandshakeInv'
<1>1. /\ UNCHANGED <<mode, dialer, hello, welcome>> /\ upgrader.pc = "handler"
      /\ upgrader' = [upgrader EXCEPT !.pc = "handled"]
  BY DEF HandlerReturns
<1> QED
  BY <1>1 DEF HandshakeInv, DialerOK, UpgraderOK, HelloOK, WelcomeOK, ConnectedOK, Ready, Handled

LEMMA ForeignKeepsInv == ASSUME HandshakeInv, ForeignRequest \/ ForeignResponse PROVE HandshakeInv'
<1> USE DEF HandshakeInv
<1>1. CASE ForeignRequest
  <2>1. UNCHANGED <<mode, dialer, upgrader, welcome>> /\ mode = "server" /\ upgrader.pc = "read"
    BY <1>1 DEF ForeignRequest, UpgraderOK
  <2>2. hello'.protocols \in Seq(Protocols)
    BY <1>1, ListsAreSequences DEF ForeignRequest, Hello, Lists
  <2> QED
    BY <2>1, <2>2
       DEF DialerOK, UpgraderOK, HelloOK, WelcomeOK, ConnectedOK, Ready, Handled
<1>2. CASE ForeignResponse
  BY <1>2 DEF ForeignResponse, DialerOK, UpgraderOK, HelloOK, WelcomeOK, ConnectedOK, Ready,
              Handled
<1> QED
  BY <1>1, <1>2

LEMMA StepKeepsInv == HandshakeInv /\ [HandshakeNext]_handshakeVars => HandshakeInv'
<1> SUFFICES ASSUME HandshakeInv, [HandshakeNext]_handshakeVars PROVE HandshakeInv'
  OBVIOUS
<1>1. CASE HandshakeStep
  BY <1>1, DialKeepsInv, ReadsResponseKeepsInv, ReadsHandshakeKeepsInv, HandshakesKeepsInv,
     AcceptsHandshakeKeepsInv, HandlerReturnsKeepsInv, ForeignKeepsInv DEF HandshakeStep
<1>2. CASE UNCHANGED handshakeVars
  BY <1>2 DEF handshakeVars, HandshakeInv, DialerOK, UpgraderOK, HelloOK, WelcomeOK, ConnectedOK, Ready,
              Handled
<1> QED
  BY <1>1, <1>2 DEF HandshakeNext

-----------------------------------------------------------------------------
(* The theorem. *)

\* Dial, hybiClientHandshake, ReadHandshake, AcceptHandshake (client.go, hybi.go): for any
\* protocols, a client that has its connection to a server of this package talks to a
\* running handler under the protocol it believes in; and a handler runs only for a request
\* without a fault.
THEOREM EndsAgree == HandshakeSpec => []HandshakeAgrees
<1>1. ASSUME HandshakeInv PROVE HandshakeAgrees
  <2> USE <1>1 DEF HandshakeInv
  <2>1. ASSUME mode = "both", dialer.pc = "ok"
        PROVE  /\ Handled
               /\ IF welcome.protocol = NoProtocol THEN upgrader.protocols = <<>>
                  ELSE dialer.protocols = upgrader.protocols
    <3>1. Handled /\ (welcome.protocol # NoProtocol => dialer.protocols = <<welcome.protocol>>)
      BY <2>1 DEF ConnectedOK
    <3>2. /\ Len(upgrader.protocols) <= 1 /\ upgrader.protocols \in Seq(Protocols)
          /\ welcome.protocol = IF upgrader.protocols = <<>> THEN NoProtocol
                                ELSE upgrader.protocols[1]
      BY <2>1, <3>1 DEF WelcomeOK, UpgraderOK
    <3>3. CASE upgrader.protocols = <<>>
      BY <3>1, <3>2, <3>3
    <3>4. CASE upgrader.protocols # <<>>
      <4>1. upgrader.protocols = <<upgrader.protocols[1]>> /\ upgrader.protocols[1] \in Protocols
        BY <3>2, <3>4
      <4> QED
        BY <3>1, <3>2, <3>4, <4>1, HandshakeAssumption
    <3> QED
      BY <3>3, <3>4
  <2>2. Handled => hello.fault = "none" /\ (upgrader.kind = "handler" => hello.origin = "url")
    BY DEF HelloOK
  <2>3. mode # "client" /\ Handled => welcome.status = 101 /\ Len(upgrader.protocols) <= 1
    BY DEF WelcomeOK
  <2>4. Handled => mode # "client"
    BY DEF UpgraderOK, Handled
  <2> QED
    BY <2>1, <2>2, <2>3, <2>4 DEF HandshakeAgrees
<1> QED
  BY <1>1, InitKeepsInv, StepKeepsInv, PTL DEF HandshakeSpec

-----------------------------------------------------------------------------
(* The connection. *)

Unit == [op : OpCodes \cup {"payload"}, masked : BOOLEAN, len : Nat, number : Nat, payload : Nat]
ReadCalls == {"read", "receive"}
Writing == {"wio", "data"}
Holding == {"next", "handle", "body", "error"} \cup Writing

Work == [pc : {"idle", "rio", "close", "return"} \cup Holding,
         call : {"none", "write", "close"} \cup ReadCalls,
         op : OpCodes \cup {"none"}, masked : BOOLEAN, left : {NoFrame} \cup Nat, msg : Seq(Unit)]

Typed ==
    /\ incoming \in Seq(Unit) /\ bufw \in Seq(Unit) /\ outgoing \in Seq(Seq(Unit))
    /\ arrived \in Seq([op : OpCodes, units : Seq(Unit)])
    /\ got \in Seq([call : ReadCalls, units : Seq(Unit)])
    /\ peerDone \in BOOLEAN /\ closed \in BOOLEAN /\ broken \in BOOLEAN
    /\ failed \in BOOLEAN /\ garbled \in BOOLEAN
    /\ frame \in {NoFrame} \cup Nat /\ sends \in Nat
    /\ rio \in {NoOne} \cup Readers /\ wio \in {NoOne} \cup Users
    /\ user \in [Users -> Work]

-----------------------------------------------------------------------------
(* Who does what. *)

Holds(u) == user[u].call \in ReadCalls /\ user[u].pc \in Holding

CallOK(u) ==
    /\ user[u].call \in ReadCalls => user[u].pc \in {"rio"} \cup Holding
    /\ user[u].call \in {"write", "close"} => user[u].pc \in {"close", "return"} \cup Writing
    /\ user[u].call = "none" => user[u].pc = "idle"
    /\ user[u].pc = "close" => user[u].call = "close"

MutexesOK ==
    \A u \in Users :
        /\ rio = u <=> Holds(u)
        /\ wio = u <=> user[u].pc = "data"

\* The frame that a goroutine writes.
MessageOK(u) ==
    user[u].pc \in Writing =>
        /\ user[u].op # "none"
        /\ \A k \in DOMAIN user[u].msg : ~IsHead(user[u].msg[k])
        /\ user[u].call \in ReadCalls => user[u].op \in {"pong", "close"}
        /\ user[u].call = "write" => user[u].op = "data"
        /\ user[u].call = "close" => user[u].op = "close" /\ user[u].msg = Status(1000)

-----------------------------------------------------------------------------
(* What goes out. *)

HeadOf(u) == HeadUnit(user[u].op, ~Server, Len(user[u].msg), 0)

BufferOK ==
    ~broken => /\ wio = NoOne => bufw = <<>>
               /\ \A u \in Users : wio = u => bufw = <<HeadOf(u)>>

ClosingOK ==
    /\ closed => CloseFrameSent
    /\ \A u \in Users : user[u].pc = "close" => CloseFrameSent

-----------------------------------------------------------------------------
(* What comes in. *)

ArrivedOK ==
    \A f \in DOMAIN arrived : \A k \in DOMAIN arrived[f].units :
        arrived[f].units[k] = DataUnit(f, k)

UnitsOf(u) == arrived[u.number].units

\* A payload of n units, of which there will be k.
Gives(n, k) == n >= k /\ (n > k => peerDone)

UnitOK(u) ==
    /\ u.number \in 1..Len(arrived) /\ u.payload <= Len(UnitsOf(u))
    /\ IsHead(u) => u.payload = 0 /\ u.op = FrameOf(u).op /\ Gives(u.len, Len(UnitsOf(u)))
    /\ ~IsHead(u) => u.payload > 0 /\ u = DataUnit(u.number, u.payload)

\* The frame of a unit goes on to its end, and then comes a head.
GoesOn(i) ==
    LET u == incoming[i]
        rest == Len(UnitsOf(u)) - u.payload
    IN /\ i + rest <= Len(incoming)
       /\ \A m \in 1..rest : incoming[i + m] = DataUnit(u.number, u.payload + m)
       /\ i + rest < Len(incoming) => IsHead(incoming[i + rest + 1])

Ordered ==
    \A i, j \in DOMAIN incoming : i < j => Before(incoming[i], incoming[j])

StreamOK ==
    /\ \A i \in DOMAIN incoming : UnitOK(incoming[i]) /\ GoesOn(i)
    /\ Ordered

Aligned == incoming = <<>> \/ IsHead(incoming[1])
Left == Len(UnitsOf(incoming[1])) - incoming[1].payload + 1

\* What is left of a payload, n units of a frame op, comes next.
PayloadNext(op, n) ==
    IF Aligned THEN n = 0 \/ peerDone
    ELSE FrameOf(incoming[1]).op = op /\ Gives(n, Left)

FrameNext(op, n) ==
    /\ n \in Nat /\ PayloadNext(op, n)
    /\ ~Aligned => incoming[1].payload = 1

ReaderOK(u) ==
    Holds(u) =>
        /\ user[u].pc \in {"next", "handle"} \cup Writing => frame = NoFrame
        /\ user[u].pc = "handle" => FrameNext(user[u].op, user[u].left)
        /\ user[u].pc = "body" =>
              IF user[u].call = "read" THEN frame # NoFrame
              ELSE frame = NoFrame /\ FrameNext("data", user[u].left)

AtHead(u) ==
    Holds(u) /\ (user[u].pc = "next" \/ (user[u].pc \in Writing /\ user[u].op = "pong"))

BoundaryOK ==
    /\ frame # NoFrame => PayloadNext("data", frame)
    /\ ~failed => /\ rio = NoOne /\ frame = NoFrame => Aligned
                  /\ \A u \in Users : AtHead(u) => Aligned
    /\ garbled => failed

-----------------------------------------------------------------------------
(* What was returned and echoed. *)

\* All of the frame has been read.
IsPast(number) == \A i \in DOMAIN incoming : number < incoming[i].number

EchoOK(msg) ==
    /\ msg \in Seq(Unit) /\ msg # <<>> /\ msg[1].number \in 1..Len(arrived)
    /\ FrameOf(msg[1]).op = "ping"
    /\ Len(msg) <= Len(UnitsOf(msg[1]))
    /\ \A k \in 1..Len(msg) : msg[k] = DataUnit(msg[1].number, k)
    /\ IsPast(msg[1].number)

Pongs == {i \in DOMAIN outgoing : outgoing[i][1].op = "pong"}
Echo(i) == Tail(outgoing[i])
EchoOf(i) == Echo(i)[1].number

Pending(u) == user[u].pc \in Writing /\ user[u].op = "pong"

PongsOK ==
    /\ \A i \in Pongs : EchoOK(Echo(i))
    /\ \A i, j \in Pongs : i < j => EchoOf(i) < EchoOf(j)
    /\ \A u \in Users : Pending(u) =>
          EchoOK(user[u].msg) /\ \A i \in Pongs : EchoOf(i) < user[u].msg[1].number

GotOK ==
    /\ \A i \in DOMAIN got : \A k \in DOMAIN got[i].units :
          LET u == got[i].units[k] IN
          /\ u.number \in 1..Len(arrived)
          /\ \A j \in DOMAIN incoming : Before(u, incoming[j])
    /\ DataInOrder

ConnInv ==
    /\ Typed /\ MutexesOK
    /\ \A u \in Users : CallOK(u) /\ MessageOK(u) /\ ReaderOK(u)
    /\ BufferOK /\ FramesAreWhole /\ ClosingOK
    /\ ArrivedOK /\ StreamOK /\ BoundaryOK
    /\ PongsOK /\ GotOK

HIDE LimitAssumption
USE WebSocketAssumption
-----------------------------------------------------------------------------
(* Sequences and records. *)

LEMMA SliceFields ==
    ASSUME NEW S, NEW s \in Seq(S), NEW n \in 0..Len(s)
    PROVE  LET t == SubSeq(s, n + 1, Len(s))
           IN /\ t \in Seq(S) /\ Len(t) = Len(s) - n
              /\ \A i \in 1..Len(t) : t[i] = s[i + n]
  OBVIOUS

LEMMA TailFields ==
    ASSUME NEW S, NEW s \in Seq(S), s # <<>>
    PROVE  LET t == Tail(s)
           IN /\ t \in Seq(S) /\ Len(t) = Len(s) - 1
              /\ \A i \in 1..Len(t) : t[i] = s[i + 1]
  OBVIOUS

LEMMA FirstFields ==
    ASSUME NEW S, NEW s \in Seq(S), NEW n \in 0..Len(s)
    PROVE  LET t == SubSeq(s, 1, n)
           IN /\ t \in Seq(S) /\ Len(t) = n
              /\ \A i \in 1..n : t[i] = s[i]
  OBVIOUS

LEMMA AppendFields ==
    ASSUME NEW S, NEW s \in Seq(S), NEW e \in S
    PROVE  LET t == Append(s, e)
           IN /\ t \in Seq(S) /\ Len(t) = Len(s) + 1
              /\ \A i \in 1..Len(s) : t[i] = s[i]
              /\ t[Len(s) + 1] = e
  OBVIOUS

LEMMA JoinFields ==
    ASSUME NEW S, NEW s \in Seq(S), NEW t \in Seq(S)
    PROVE  /\ s \o t \in Seq(S) /\ Len(s \o t) = Len(s) + Len(t)
           /\ \A i \in 1..Len(s) : (s \o t)[i] = s[i]
           /\ \A i \in 1..Len(t) : (s \o t)[Len(s) + i] = t[i]
  OBVIOUS

LEMMA UnitTypes ==
    /\ \A n, k \in Nat : DataUnit(n, k) \in Unit /\ ~IsHead(DataUnit(n, k))
    /\ \A op \in OpCodes, masked \in BOOLEAN, len, n \in Nat :
          HeadUnit(op, masked, len, n) \in Unit /\ IsHead(HeadUnit(op, masked, len, n))
  BY DEF DataUnit, HeadUnit, Unit, IsHead, OpCodes

LEMMA MaskTypes == (~Server) \in BOOLEAN
  BY DEF WebSocketAssumption

LEMMA UnitFields ==
    ASSUME NEW u \in Unit
    PROVE  u.number \in Nat /\ u.payload \in Nat /\ u.len \in Nat /\ u.masked \in BOOLEAN
           /\ u.op \in OpCodes \cup {"payload"} /\ (IsHead(u) => u.op \in OpCodes)
  BY DEF Unit, IsHead

LEMMA StatusFields ==
    ASSUME NEW code \in Nat
    PROVE  Status(code) \in Seq(Unit) /\ Len(Status(code)) = 1
           /\ \A k \in DOMAIN Status(code) : ~IsHead(Status(code)[k])
<1>1. DataUnit(0, code) \in Unit /\ ~IsHead(DataUnit(0, code))
  BY UnitTypes
<1> QED
  BY <1>1 DEF Status

LEMMA WorkFields ==
    ASSUME Typed, NEW u \in Users
    PROVE  /\ user[u] \in Work
           /\ user[u].pc \in {"idle", "rio", "close", "return"} \cup Holding
           /\ user[u].call \in {"none", "write", "close"} \cup ReadCalls
           /\ user[u].op \in OpCodes \cup {"none"} /\ user[u].masked \in BOOLEAN
           /\ user[u].left \in {NoFrame} \cup Nat /\ user[u].msg \in Seq(Unit)
  BY DEF Typed, Work

LEMMA Lengths ==
    ASSUME Typed
    PROVE  /\ Len(incoming) \in Nat /\ Len(arrived) \in Nat
           /\ Len(got) \in Nat /\ Len(outgoing) \in Nat
  BY DEF Typed

LEMMA FrameFields ==
    ASSUME Typed, NEW n \in 1..Len(arrived)
    PROVE  /\ arrived[n].op \in OpCodes /\ arrived[n].units \in Seq(Unit)
           /\ Len(arrived[n].units) \in Nat
<1> DEFINE Frame == [op : OpCodes, units : Seq(Unit)]
<1>1. arrived \in Seq(Frame)
  BY DEF Typed
<1>2. arrived[n] \in Frame
  <2> HIDE DEF Frame
  <2> QED BY <1>1
<1> QED
  BY <1>2

\* A step of one goroutine leaves the others where they are.
OnlyOf(u) ==
    /\ user' \in [Users -> Work]
    /\ \A w \in Users : w # u => user'[w] = user[w]

LEMMA UserSet ==
    ASSUME Typed, NEW u \in Users, NEW d \in Work, user' = [user EXCEPT ![u] = d]
    PROVE  OnlyOf(u) /\ user'[u] = d
  BY DEF Typed, OnlyOf

LEMMA UserGoes ==
    ASSUME Typed, NEW u \in Users,
           NEW pc \in {"idle", "rio", "close", "return"} \cup Holding, Goes(u, pc)
    PROVE  /\ OnlyOf(u)
           /\ user'[u].pc = pc /\ user'[u].call = user[u].call /\ user'[u].op = user[u].op
           /\ user'[u].masked = user[u].masked /\ user'[u].left = user[u].left
           /\ user'[u].msg = user[u].msg
<1> DEFINE d == [user[u] EXCEPT !.pc = pc]
<1>1. /\ d \in Work /\ d.pc = pc /\ d.call = user[u].call /\ d.op = user[u].op
      /\ d.masked = user[u].masked /\ d.left = user[u].left /\ d.msg = user[u].msg
  <2>1. user[u] \in Work
    BY WorkFields
  <2> QED
    BY <2>1 DEF Work
<1>2. user' = [user EXCEPT ![u] = d]
  BY DEF Goes
<1> HIDE DEF d
<1> QED
  BY <1>1, <1>2, UserSet

LEMMA NoWorkFields ==
    /\ NoWork \in Work
    /\ NoWork.pc = "idle" /\ NoWork.call = "none" /\ NoWork.op = "none"
    /\ NoWork.left = NoFrame /\ NoWork.msg = <<>>
  BY DEF NoWork, Work

LEMMA UserAnswers ==
    ASSUME Typed, NEW u \in Users, NEW op \in OpCodes, NEW msg \in Seq(Unit), Answers(u, op, msg)
    PROVE  /\ OnlyOf(u)
           /\ user'[u].pc = "wio" /\ user'[u].call = user[u].call /\ user'[u].op = op
           /\ user'[u].msg = msg
<1> DEFINE d == [user[u] EXCEPT !.pc = "wio", !.op = op, !.msg = msg, !.left = NoFrame]
<1>1. d \in Work /\ d.pc = "wio" /\ d.call = user[u].call /\ d.op = op /\ d.msg = msg
  <2>1. user[u] \in Work
    BY WorkFields
  <2> QED
    BY <2>1 DEF Work, Holding, Writing
<1>2. user' = [user EXCEPT ![u] = d]
  BY DEF Answers
<1> HIDE DEF d
<1> QED
  BY <1>1, <1>2, UserSet

-----------------------------------------------------------------------------
(* How much of a payload there is. *)

LEMMA MinIs ==
    ASSUME NEW S \in SUBSET Nat, NEW m \in S, \A k \in S : m <= k
    PROVE  Min(S) = m
<1>1. \E x \in S : \A y \in S : x =< y
  OBVIOUS
<1>2. Min(S) \in S /\ \A y \in S : Min(S) =< y
  BY <1>1 DEF Min
<1>3. Min(S) \in Nat /\ m \in Nat /\ Min(S) <= m /\ m <= Min(S)
  BY <1>2
<1> HIDE DEF Min
<1> QED
  BY <1>3

LEMMA NothingAvailable ==
    ASSUME Typed, Aligned, NEW n \in Nat
    PROVE  Available(n) = 0
<1> DEFINE heads == {k \in DOMAIN incoming : IsHead(incoming[k])}
<1>1. CASE incoming = <<>>
  BY <1>1 DEF Available, Min2
<1>2. CASE incoming # <<>>
  <2>1. 1 \in heads /\ heads \in SUBSET Nat /\ \A k \in heads : 1 <= k
    BY <1>2 DEF Typed, Aligned
  <2>2. Min(heads) = 1
    <3> HIDE DEF heads
    <3> QED BY <2>1, MinIs
  <2> QED
    BY <2>1, <2>2 DEF Available, Min2
<1> QED
  BY <1>1, <1>2

LEMMA LeftFields ==
    ASSUME Typed, StreamOK, ~Aligned
    PROVE  /\ incoming # <<>> /\ incoming[1] \in Unit /\ ~IsHead(incoming[1])
           /\ incoming[1].number \in 1..Len(arrived)
           /\ incoming[1].payload \in Nat /\ incoming[1].payload > 0
           /\ incoming[1] = DataUnit(incoming[1].number, incoming[1].payload)
           /\ Len(UnitsOf(incoming[1])) \in Nat
           /\ Left \in 1..Len(incoming) /\ Len(incoming) \in Nat
           /\ \A m \in 1..Left :
                 incoming[m] = DataUnit(incoming[1].number, incoming[1].payload + m - 1)
           /\ Left < Len(incoming) => IsHead(incoming[Left + 1])
<1>1. incoming # <<>> /\ ~IsHead(incoming[1]) /\ 1 \in DOMAIN incoming /\ Len(incoming) \in Nat
      /\ incoming[1] \in Unit
  BY DEF Typed, Aligned
<1>2. UnitOK(incoming[1]) /\ GoesOn(1)
  BY <1>1 DEF StreamOK
<1>3. /\ incoming[1].number \in 1..Len(arrived) /\ incoming[1].payload > 0
      /\ incoming[1].payload <= Len(UnitsOf(incoming[1]))
      /\ incoming[1] = DataUnit(incoming[1].number, incoming[1].payload)
  BY <1>1, <1>2 DEF UnitOK
<1>4. incoming[1].payload \in Nat
  BY <1>1, UnitFields
<1>5. Len(UnitsOf(incoming[1])) \in Nat
  <2>1. arrived[incoming[1].number].units \in Seq(Unit)
    BY <1>3, FrameFields
  <2> QED
    BY <2>1 DEF UnitsOf
<1> DEFINE L == Len(UnitsOf(incoming[1]))
           p == incoming[1].payload
<1>6. /\ 1 + (L - p) <= Len(incoming)
      /\ \A m \in 1..(L - p) : incoming[1 + m] = DataUnit(incoming[1].number, p + m)
      /\ 1 + (L - p) < Len(incoming) => IsHead(incoming[1 + (L - p) + 1])
  BY <1>2 DEF GoesOn
<1>7. Left = L - p + 1 /\ L \in Nat /\ p \in Nat /\ p > 0 /\ p <= L
  BY <1>3, <1>4, <1>5 DEF Left
<1>8. incoming[1] = DataUnit(incoming[1].number, p)
  BY <1>3
<1> HIDE DEF L, p
<1>9. ASSUME NEW m \in 1..Left PROVE incoming[m] = DataUnit(incoming[1].number, p + m - 1)
  <2>1. CASE m = 1
    BY <1>7, <1>8, <2>1
  <2>2. CASE m # 1
    <3>1. m - 1 \in 1..(L - p) /\ 1 + (m - 1) = m /\ p + (m - 1) = p + m - 1
      BY <1>7, <2>2
    <3> QED
      BY <1>6, <3>1
  <2> QED
    BY <2>1, <2>2
<1>10. Left \in 1..Len(incoming) /\ (Left < Len(incoming) => IsHead(incoming[Left + 1]))
  <2>1. 1 + (L - p) = Left /\ 1 + (L - p) + 1 = Left + 1
    BY <1>7
  <2> QED
    BY <1>1, <1>6, <1>7, <2>1
<1> QED
  BY <1>1, <1>3, <1>4, <1>5, <1>9, <1>10 DEF p

LEMMA LeftAvailable ==
    ASSUME Typed, StreamOK, ~Aligned, NEW n \in Nat
    PROVE  Available(n) = Min2(n, Left)
<1> DEFINE heads == {k \in DOMAIN incoming : IsHead(incoming[k])}
<1>0. incoming \in Seq(Unit) /\ Len(incoming) \in Nat /\ Left \in 1..Len(incoming)
  BY LeftFields DEF Typed
<1>1. ASSUME NEW k \in heads PROVE k \in Nat /\ k >= Left + 1 /\ k <= Len(incoming)
  <2>1. k \in 1..Len(incoming) /\ IsHead(incoming[k])
    BY <1>0
  <2>2. k \notin 1..Left
    <3> SUFFICES ASSUME k \in 1..Left PROVE FALSE
      OBVIOUS
    <3>1. incoming[k] = DataUnit(incoming[1].number, incoming[1].payload + k - 1)
      BY LeftFields
    <3> QED
      BY <2>1, <3>1 DEF DataUnit, IsHead
  <2> QED
    BY <1>0, <2>1, <2>2
<1>2. Left < Len(incoming) => Left + 1 \in heads
  BY <1>0, LeftFields
<1>3. CASE heads = {}
  <2>1. Left = Len(incoming)
    BY <1>0, <1>2, <1>3
  <2> QED
    BY <1>3, <2>1 DEF Available
<1>4. CASE heads # {}
  <2>1. Left < Len(incoming)
    BY <1>0, <1>1, <1>4
  <2>2. Left + 1 \in heads /\ heads \in SUBSET Nat /\ \A k \in heads : Left + 1 <= k
    BY <1>0, <1>1, <1>2, <2>1
  <2>3. Min(heads) = Left + 1
    <3> HIDE DEF heads
    <3> QED BY <2>2, MinIs
  <2>4. Min(heads) - 1 = Left
    <3> HIDE DEF heads
    <3> QED BY <1>0, <2>3
  <2> QED
    BY <1>4, <2>4 DEF Available
<1> QED
  BY <1>3, <1>4

\* Of the payload that comes next all is there that will be.
LEMMA WholeNext ==
    ASSUME Typed, StreamOK, NEW op, NEW n \in Nat, PayloadNext(op, n)
    PROVE  Available(n) = IF Aligned THEN 0 ELSE Left
<1>1. CASE Aligned
  BY <1>1, NothingAvailable
<1>2. CASE ~Aligned
  <2>1. n >= Left /\ Left \in Nat
    BY <1>2, LeftFields DEF PayloadNext, Gives
  <2>2. Available(n) = Min2(n, Left)
    BY <1>2, LeftAvailable
  <2> QED
    BY <1>2, <2>1, <2>2 DEF Min2
<1> QED
  BY <1>1, <1>2

-----------------------------------------------------------------------------
(* What a step does to the stream. *)

\* All but the peer's sends: the first n units are gone.
Shifted(n) ==
    /\ n \in 0..Len(incoming)
    /\ incoming' \in Seq(Unit) /\ Len(incoming') = Len(incoming) - n
    /\ \A i \in 1..Len(incoming') : incoming'[i] = incoming[i + n]
    /\ arrived' = arrived /\ (peerDone => peerDone')

LEMMA SameStream ==
    ASSUME Typed, UNCHANGED <<incoming, arrived>>, peerDone => peerDone'
    PROVE  Shifted(0)
  BY DEF Typed, Shifted

LEMMA ShiftKeeps ==
    ASSUME Typed, StreamOK, NEW n, Shifted(n)
    PROVE  /\ StreamOK'
           /\ \A number : IsPast(number) => IsPast(number)'
           /\ \A u : (\A j \in DOMAIN incoming : Before(u, incoming[j]))
                     => (\A j \in DOMAIN incoming' : Before(u, incoming'[j]))
<1>0. /\ incoming \in Seq(Unit) /\ incoming' \in Seq(Unit) /\ n \in Nat /\ Len(incoming) \in Nat
      /\ Len(incoming') = Len(incoming) - n /\ arrived' = arrived /\ (peerDone => peerDone')
      /\ Len(incoming') \in Nat /\ n <= Len(incoming)
  BY DEF Typed, Shifted
<1>1. ASSUME NEW i \in DOMAIN incoming'
      PROVE  i \in Nat /\ i + n \in DOMAIN incoming /\ incoming'[i] = incoming[i + n]
  BY <1>0 DEF Shifted
<1>2. ASSUME NEW i \in DOMAIN incoming' PROVE UnitOK(incoming[i])'
  <2>1. UnitOK(incoming[i + n])
    BY <1>1 DEF StreamOK
  <2> QED
    BY <1>0, <1>1, <2>1 DEF UnitOK, UnitsOf, FrameOf, Gives
<1>3. ASSUME NEW i \in DOMAIN incoming' PROVE GoesOn(i)'
  <2> DEFINE u == incoming[i + n]
             rest == Len(UnitsOf(u)) - u.payload
  <2>1. GoesOn(i + n) /\ UnitOK(u) /\ u \in Unit /\ i + n \in DOMAIN incoming
    BY <1>0, <1>1 DEF StreamOK
  <2>2. rest \in Nat
    <3>1. u.number \in 1..Len(arrived) /\ u.payload <= Len(UnitsOf(u))
      BY <2>1 DEF UnitOK
    <3>2. u.payload \in Nat /\ Len(UnitsOf(u)) \in Nat
      BY <2>1, <3>1, UnitFields, FrameFields DEF UnitsOf
    <3> HIDE DEF u
    <3> QED BY <3>1, <3>2
  <2>3. /\ i + n + rest <= Len(incoming)
        /\ \A m \in 1..rest : incoming[i + n + m] = DataUnit(u.number, u.payload + m)
        /\ i + n + rest < Len(incoming) => IsHead(incoming[i + n + rest + 1])
    BY <2>1 DEF GoesOn
  <2>4. incoming'[i] = u /\ UnitsOf(u)' = arrived[u'.number].units
    BY <1>0, <1>1 DEF UnitsOf
  <2> HIDE DEF rest
  <2>5. i + rest <= Len(incoming')
    BY <1>0, <1>1, <2>2, <2>3
  <2>6. ASSUME NEW m \in 1..rest PROVE incoming'[i + m] = DataUnit(u.number, u.payload + m)
    <3>1. i + m \in 1..Len(incoming') /\ i + m + n = i + n + m
      BY <1>0, <1>1, <2>2, <2>5
    <3> QED
      BY <2>3, <3>1 DEF Shifted
  <2>7. ASSUME i + rest < Len(incoming') PROVE IsHead(incoming'[i + rest + 1])
    <3>1. i + rest + 1 \in 1..Len(incoming') /\ (i + rest + 1) + n = i + n + rest + 1
          /\ i + n + rest < Len(incoming)
      BY <1>0, <1>1, <2>2, <2>7
    <3> QED
      BY <2>3, <3>1 DEF Shifted
  <2>8. rest = Len(arrived'[incoming'[i].number].units) - incoming'[i].payload
    BY <1>0, <2>4 DEF rest, UnitsOf
  <2>9. u = incoming'[i]
    BY <2>4
  <2> HIDE DEF u
  <2> QED
    BY <2>5, <2>6, <2>7, <2>8, <2>9 DEF GoesOn, UnitsOf
<1>4. Ordered'
  <2> SUFFICES ASSUME NEW i \in DOMAIN incoming', NEW j \in DOMAIN incoming', i < j
               PROVE  Before(incoming'[i], incoming'[j])
    BY DEF Ordered, Before
  <2>1. /\ i + n \in DOMAIN incoming /\ j + n \in DOMAIN incoming /\ i + n < j + n
        /\ incoming'[i] = incoming[i + n] /\ incoming'[j] = incoming[j + n]
    BY <1>0, <1>1
  <2> QED
    BY <2>1 DEF StreamOK, Ordered
<1>5. ASSUME NEW number, IsPast(number) PROVE IsPast(number)'
  BY <1>1, <1>5 DEF IsPast
<1>6. ASSUME NEW u, \A j \in DOMAIN incoming : Before(u, incoming[j]), NEW j \in DOMAIN incoming'
      PROVE  Before(u, incoming'[j])
  BY <1>1, <1>6
<1> QED
  BY <1>2, <1>3, <1>4, <1>5, <1>6 DEF StreamOK

\* Nothing is read: what comes next is as before.
LEMMA StillNext ==
    ASSUME Typed, UNCHANGED <<incoming, arrived>>, peerDone => peerDone'
    PROVE  /\ Aligned' <=> Aligned
           /\ \A op, n : PayloadNext(op, n) => PayloadNext(op, n)'
           /\ \A op, n : FrameNext(op, n) => FrameNext(op, n)'
<1>1. Aligned' <=> Aligned
  BY DEF Aligned
<1>2. ASSUME NEW op, NEW n, PayloadNext(op, n) PROVE PayloadNext(op, n)'
  BY <1>1, <1>2 DEF PayloadNext, Gives, Left, UnitsOf, FrameOf
<1>3. ASSUME NEW op, NEW n, FrameNext(op, n) PROVE FrameNext(op, n)'
  BY <1>1, <1>2, <1>3 DEF FrameNext
<1> QED
  BY <1>1, <1>2, <1>3

\* The payload that comes next is read to its end.
LEMMA DropsPayload ==
    ASSUME Typed, StreamOK, ~Aligned, Shifted(Left), NEW number, number = incoming[1].number
    PROVE  Aligned' /\ IsPast(number)'
<1>0. Left \in 1..Len(incoming) /\ Len(incoming) \in Nat /\ incoming' \in Seq(Unit)
      /\ Len(incoming') = Len(incoming) - Left /\ incoming \in Seq(Unit)
  BY LeftFields DEF Shifted, Typed
<1>1. Aligned'
  <2>1. CASE Left = Len(incoming)
    BY <1>0, <2>1 DEF Aligned
  <2>2. CASE Left < Len(incoming)
    <3>1. IsHead(incoming[Left + 1])
      BY <2>2, LeftFields
    <3>2. 1 \in 1..Len(incoming') /\ 1 + Left = Left + 1
      BY <1>0, <2>2
    <3>3. incoming'[1] = incoming[Left + 1]
      BY <3>2 DEF Shifted
    <3> QED
      BY <3>1, <3>3 DEF Aligned, IsHead
  <2> QED
    BY <1>0, <2>1, <2>2
<1>2. ASSUME NEW i \in DOMAIN incoming' PROVE incoming[1].number < incoming'[i].number
  <2> DEFINE u == incoming[i + Left]
  <2>1. i \in 1..Len(incoming') /\ i + Left \in DOMAIN incoming
    BY <1>0
  <2>9. incoming'[i] = u
    BY <2>1 DEF Shifted
  <2>2. u \in Unit
    BY <1>0, <2>1
  <2>3. Left < Len(incoming) /\ Left + 1 \in DOMAIN incoming
    BY <1>0, <2>1
  <2>4. IsHead(incoming[Left + 1]) /\ UnitOK(incoming[Left + 1]) /\ incoming[Left + 1] \in Unit
        /\ Before(incoming[1], incoming[Left + 1]) /\ incoming[1].payload > 0
        /\ incoming[1].payload \in Nat
    <3>1. 1 < Left + 1 /\ 1 \in DOMAIN incoming
      BY <1>0
    <3>2. IsHead(incoming[Left + 1]) /\ incoming[1].payload > 0 /\ incoming[1].payload \in Nat
      BY <2>3, LeftFields
    <3>3. incoming[Left + 1] \in Unit /\ UnitOK(incoming[Left + 1])
      BY <1>0, <2>3 DEF StreamOK
    <3>4. Before(incoming[1], incoming[Left + 1])
      BY <2>3, <3>1 DEF StreamOK, Ordered
    <3> QED
      BY <3>2, <3>3, <3>4
  <2>5. incoming[Left + 1].payload = 0
    BY <2>4 DEF UnitOK
  <2>6. incoming[1].number < incoming[Left + 1].number
    BY <2>4, <2>5 DEF Before
  <2>7. CASE i = 1
    <3>1. i + Left = Left + 1
      BY <1>0, <2>7
    <3> QED
      BY <2>6, <2>9, <3>1
  <2>8. CASE i # 1
    <3>1. Left + 1 < i + Left
      BY <1>0, <2>1, <2>8
    <3>2. Before(incoming[Left + 1], u)
      BY <2>1, <2>3, <3>1 DEF StreamOK, Ordered
    <3>3. u.number \in Nat /\ incoming[Left + 1].number \in Nat /\ incoming[1].number \in Nat
      BY <2>2, <2>4, LeftFields, UnitFields
    <3> HIDE DEF u
    <3> QED
      BY <2>9, <2>6, <3>2, <3>3 DEF Before
  <2> QED
    BY <2>7, <2>8
<1> QED
  BY <1>1, <1>2 DEF IsPast

\* One unit of it is read.
LEMMA DropsUnit ==
    ASSUME Typed, StreamOK, ~Aligned, Shifted(1), NEW op, NEW n \in Nat, PayloadNext(op, n)
    PROVE  /\ PayloadNext(op, n - 1)' /\ n - 1 \in Nat
           /\ FrameOf(incoming[1]).op = op
<1>0. /\ Left \in 1..Len(incoming) /\ Len(incoming) \in Nat /\ incoming' \in Seq(Unit)
      /\ Len(incoming') = Len(incoming) - 1 /\ incoming \in Seq(Unit) /\ arrived' = arrived
      /\ Left \in Nat
  BY LeftFields DEF Shifted, Typed
<1>1. FrameOf(incoming[1]).op = op /\ n >= Left /\ (n > Left => peerDone)
  BY DEF PayloadNext, Gives
<1>2. peerDone => peerDone'
  BY DEF Shifted
<1>3. CASE Left = 1
  <2>1. Aligned'
    BY <1>3, DropsPayload
  <2>2. n - 1 = 0 \/ peerDone'
    BY <1>1, <1>2, <1>3
  <2> QED
    BY <1>1, <1>3, <2>1, <2>2 DEF PayloadNext
<1>4. CASE Left > 1
  <2> DEFINE u == incoming[1]
  <2>1. incoming'[1] = incoming[2] /\ incoming' # <<>>
    <3>1. 1 \in 1..Len(incoming') /\ 1 + 1 = 2
      BY <1>0, <1>4
    <3> QED
      BY <3>1, <1>0 DEF Shifted
  <2>2. incoming[2] = DataUnit(u.number, u.payload + 1)
    <3>1. 2 \in 1..Left /\ u.payload + 2 - 1 = u.payload + 1
      BY <1>0, <1>4, LeftFields
    <3> QED
      BY <3>1, LeftFields
  <2>3. /\ ~IsHead(incoming'[1]) /\ incoming'[1].number = u.number
        /\ incoming'[1].payload = u.payload + 1
    BY <2>1, <2>2 DEF DataUnit, IsHead
  <2>4. ~Aligned'
    BY <2>1, <2>3 DEF Aligned, IsHead
  <2>5. Left' = Left - 1
    <3>1. Left' = Len(arrived[u.number].units) - (u.payload + 1) + 1
      BY <1>0, <2>3 DEF Left, UnitsOf
    <3>2. Left = Len(arrived[u.number].units) - u.payload + 1
      BY DEF Left, UnitsOf
    <3>3. u.payload \in Nat /\ Len(arrived[u.number].units) \in Nat
      BY LeftFields DEF UnitsOf
    <3>4. \A a, b \in Nat : (a - (b + 1)) + 1 = (a - b + 1) - 1
      OBVIOUS
    <3> QED
      BY <3>1, <3>2, <3>3, <3>4
  <2>6. FrameOf(incoming[1])'.op = op
    BY <1>0, <1>1, <2>3 DEF FrameOf
  <2>7. Gives(n - 1, Left)'
    BY <1>0, <1>1, <1>2, <1>4, <2>5 DEF Gives
  <2> QED
    BY <1>0, <1>1, <1>4, <2>4, <2>6, <2>7 DEF PayloadNext
<1> QED
  BY <1>0, <1>3, <1>4

\* A head is read.
LEMMA DropsHead ==
    ASSUME Typed, StreamOK, incoming # <<>>, IsHead(incoming[1]), Shifted(1),
           NEW op, NEW len, op = incoming[1].op, len = incoming[1].len
    PROVE  FrameNext(op, len)'
<1> DEFINE u == incoming[1]
           L == Len(arrived[u.number].units)
<1>0. /\ Len(incoming) \in Nat /\ incoming' \in Seq(Unit) /\ u \in Unit
      /\ Len(incoming') = Len(incoming) - 1 /\ incoming \in Seq(Unit) /\ arrived' = arrived
      /\ 1 \in DOMAIN incoming /\ (peerDone => peerDone')
  BY DEF Shifted, Typed
<1>1. UnitOK(u) /\ GoesOn(1)
  BY <1>0 DEF StreamOK
<1>2. /\ u.number \in 1..Len(arrived) /\ u.payload = 0 /\ u.op = arrived[u.number].op
      /\ u.len >= L /\ (u.len > L => peerDone)
  BY <1>1 DEF UnitOK, FrameOf, UnitsOf, Gives
<1>3. L \in Nat /\ u.len \in Nat /\ u.number \in Nat
  BY <1>0, <1>2, FrameFields, UnitFields
<1>4. /\ 1 + L <= Len(incoming)
      /\ \A m \in 1..L : incoming[1 + m] = DataUnit(u.number, m)
      /\ 1 + L < Len(incoming) => IsHead(incoming[1 + L + 1])
  <2>1. L - u.payload = L /\ \A m \in 1..L : u.payload + m = m
    BY <1>2, <1>3
  <2> QED
    BY <1>1, <2>1 DEF GoesOn, UnitsOf
<1>5. CASE L = 0
  <2>1. Aligned'
    <3>1. CASE incoming' = <<>>
      BY <3>1 DEF Aligned
    <3>2. CASE incoming' # <<>>
      <4>1. 1 \in 1..Len(incoming') /\ 1 + 1 = 1 + L + 1 /\ 1 + L < Len(incoming)
        BY <1>0, <1>5, <3>2
      <4>2. IsHead(incoming'[1])
        BY <1>4, <4>1 DEF Shifted
      <4> QED
        BY <4>2 DEF Aligned, IsHead
    <3> QED
      BY <3>1, <3>2
  <2>2. u.len = 0 \/ peerDone'
    BY <1>0, <1>2, <1>3, <1>5
  <2> QED
    BY <1>3, <2>1, <2>2 DEF FrameNext, PayloadNext
<1>6. CASE L > 0
  <2>1. incoming'[1] = DataUnit(u.number, 1) /\ incoming' # <<>>
    <3>1. 1 \in 1..Len(incoming') /\ 1 \in 1..L
      BY <1>0, <1>3, <1>4, <1>6
    <3>2. incoming'[1] = incoming[1 + 1]
      BY <3>1 DEF Shifted
    <3> QED
      BY <1>0, <1>4, <3>1, <3>2
  <2>2. /\ ~IsHead(incoming'[1]) /\ incoming'[1].number = u.number
        /\ incoming'[1].payload = 1
    BY <2>1 DEF DataUnit, IsHead
  <2>3. ~Aligned'
    BY <2>1, <2>2 DEF Aligned, IsHead
  <2>4. Left' = L
    <3>1. Left' = L - 1 + 1
      BY <1>0, <2>2 DEF Left, UnitsOf
    <3> HIDE DEF L
    <3> QED BY <1>3, <3>1
  <2>5. FrameOf(incoming[1])'.op = u.op
    BY <1>0, <1>2, <2>2 DEF FrameOf
  <2>6. len >= Left' /\ (len > Left' => peerDone')
    BY <1>0, <1>2, <2>4
  <2>7. len \in Nat /\ FrameOf(incoming[1])'.op = op
    BY <1>3, <2>5
  <2> HIDE DEF u, L
  <2> QED
    BY <2>2, <2>3, <2>6, <2>7 DEF FrameNext, PayloadNext, Gives
<1> QED
  BY <1>3, <1>5, <1>6

-----------------------------------------------------------------------------
(* What was read stays read: what a step does to the history. *)

Moves ==
    /\ Len(arrived') \in Nat /\ Len(arrived) <= Len(arrived')
    /\ \A number \in 1..Len(arrived) :
          /\ arrived'[number] = arrived[number]
          /\ IsPast(number) => IsPast(number)'
    /\ \A u \in Unit : u.number \in 1..Len(arrived) =>
          ((\A j \in DOMAIN incoming : Before(u, incoming[j]))
              => (\A j \in DOMAIN incoming' : Before(u, incoming'[j])))

LEMMA ShiftMoves ==
    ASSUME Typed, StreamOK, NEW n, Shifted(n)
    PROVE  Moves
<1>1. arrived' = arrived /\ Len(arrived) \in Nat
  BY DEF Shifted, Typed
<1> QED
  BY <1>1, ShiftKeeps DEF Moves

LEMMA EchoKeeps ==
    ASSUME Typed, Moves, NEW msg, EchoOK(msg)
    PROVE  EchoOK(msg)'
<1>1. /\ msg \in Seq(Unit) /\ msg # <<>> /\ msg[1].number \in 1..Len(arrived) /\ Len(arrived) \in Nat
      /\ arrived[msg[1].number].op = "ping"
      /\ Len(msg) <= Len(arrived[msg[1].number].units)
      /\ \A k \in 1..Len(msg) : msg[k] = DataUnit(msg[1].number, k)
      /\ IsPast(msg[1].number)
  <2>1. Len(arrived) \in Nat
    BY DEF Typed
  <2> QED
    BY <2>1 DEF EchoOK, FrameOf, UnitsOf
<1>2. /\ msg[1].number \in 1..Len(arrived')
      /\ arrived'[msg[1].number] = arrived[msg[1].number]
      /\ IsPast(msg[1].number)'
  BY <1>1 DEF Moves
<1> QED
  BY <1>1, <1>2 DEF EchoOK, FrameOf, UnitsOf

\* A step that writes nothing: the pongs on the wire stay right, and so does the
\* one that waits if it is not a new one.
LEMMA PongsKeep ==
    ASSUME Typed, Moves, PongsOK, NEW u \in Users, OnlyOf(u), UNCHANGED outgoing,
           Pending(u)' => /\ EchoOK(user[u].msg)'
                          /\ \A i \in Pongs : EchoOf(i) < user'[u].msg[1].number
    PROVE  PongsOK'
<1>1. Pongs' = Pongs /\ \A i : Echo(i)' = Echo(i) /\ EchoOf(i)' = EchoOf(i)
  BY DEF Pongs, Echo, EchoOf
<1>2. \A i \in Pongs : EchoOK(Echo(i))'
  <2> SUFFICES ASSUME NEW i \in Pongs PROVE EchoOK(Echo(i))'
    OBVIOUS
  <2>1. \A msg : EchoOK(msg) => EchoOK(msg)'
    BY EchoKeeps
  <2>2. EchoOK(Echo(i)) /\ Echo(i)' = Echo(i)
    BY <1>1 DEF PongsOK
  <2> QED
    BY <2>1, <2>2
<1>3. ASSUME NEW w \in Users, Pending(w)'
      PROVE  EchoOK(user[w].msg)' /\ \A i \in Pongs : EchoOf(i) < user'[w].msg[1].number
  <2>1. CASE w = u
    BY <1>3, <2>1
  <2>2. CASE w # u
    <3>1. user'[w] = user[w]
      BY <2>2 DEF OnlyOf
    <3>2. Pending(w)
      BY <1>3, <3>1 DEF Pending
    <3>3. EchoOK(user[w].msg) /\ \A i \in Pongs : EchoOf(i) < user[w].msg[1].number
      BY <3>2 DEF PongsOK
    <3>4. \A msg : EchoOK(msg) => EchoOK(msg)'
      BY EchoKeeps
    <3> QED
      BY <3>1, <3>3, <3>4
  <2> QED
    BY <2>1, <2>2
<1> QED
  BY <1>1, <1>2, <1>3 DEF PongsOK

LEMMA GotFields ==
    ASSUME Typed, NEW i \in DOMAIN got
    PROVE  got[i].call \in ReadCalls /\ got[i].units \in Seq(Unit)
<1> DEFINE Call == [call : ReadCalls, units : Seq(Unit)]
<1>1. got \in Seq(Call)
  BY DEF Typed
<1>2. got[i] \in Call
  <2> HIDE DEF Call
  <2> QED BY <1>1
<1> QED
  BY <1>2

LEMMA GotKeeps ==
    ASSUME Typed, Moves, GotOK, UNCHANGED got
    PROVE  GotOK'
<1>1. ASSUME NEW i \in DOMAIN got, NEW k \in DOMAIN got[i].units
      PROVE  /\ got[i].units[k] \in Unit /\ got[i].units[k].number \in 1..Len(arrived)
             /\ \A j \in DOMAIN incoming : Before(got[i].units[k], incoming[j])
  BY GotFields DEF GotOK
<1>2. ASSUME NEW i \in DOMAIN got, NEW k \in DOMAIN got[i].units
      PROVE  /\ got[i].units[k].number \in 1..Len(arrived')
             /\ \A j \in DOMAIN incoming' : Before(got[i].units[k], incoming'[j])
             /\ arrived'[got[i].units[k].number] = arrived[got[i].units[k].number]
  <2> DEFINE u == got[i].units[k]
  <2>1. /\ u \in Unit /\ u.number \in 1..Len(arrived) /\ Len(arrived) \in Nat
        /\ \A j \in DOMAIN incoming : Before(u, incoming[j])
    BY <1>1, Lengths
  <2> HIDE DEF u
  <2>2. u.number \in 1..Len(arrived') /\ arrived'[u.number] = arrived[u.number]
    BY <2>1 DEF Moves
  <2>3. \A j \in DOMAIN incoming' : Before(u, incoming'[j])
    BY <2>1 DEF Moves
  <2> QED
    BY <2>2, <2>3 DEF u
<1>3. ASSUME NEW i \in DOMAIN got, got[i].units # <<>> PROVE 1 \in DOMAIN got[i].units
  BY <1>3, GotFields
<1>4. DataInOrder'
  <2> SUFFICES ASSUME NEW i \in DOMAIN got
               PROVE  LET units == got[i].units
        IN /\ \A k \in DOMAIN units :
                 /\ arrived'[units[k].number].op = "data"
                 /\ \A m \in DOMAIN units : k < m => Before(units[k], units[m])
                 /\ \A j \in DOMAIN got : i < j =>
                       \A m \in DOMAIN got[j].units : Before(units[k], got[j].units[m])
           /\ got[i].call = "receive" /\ units # <<>> => units = arrived'[units[1].number].units
    BY DEF DataInOrder, FrameOf, Before
  <2>1. DataInOrder
    BY DEF GotOK
  <2> QED
    BY <1>2, <1>3, <2>1 DEF DataInOrder, FrameOf
<1> QED
  BY <1>2, <1>4 DEF GotOK, Before

-----------------------------------------------------------------------------
(* What a step of one goroutine leaves alone. *)

\* It writes nothing.
LEMMA WireKeeps ==
    ASSUME Typed, MutexesOK, BufferOK, FramesAreWhole, ClosingOK,
           NEW u \in Users, OnlyOf(u), UNCHANGED <<outgoing, bufw, broken, wio, closed>>,
           user[u].pc # "data", user'[u].pc \notin {"data", "close"}
    PROVE  BufferOK' /\ FramesAreWhole' /\ ClosingOK'
<1>1. BufferOK'
  <2> SUFFICES ASSUME NEW w \in Users, wio = w PROVE HeadOf(w)' = HeadOf(w)
    BY DEF BufferOK
  <2>1. user[w].pc = "data"
    BY DEF MutexesOK
  <2>2. user'[w] = user[w]
    BY <2>1 DEF OnlyOf
  <2> QED
    BY <2>2 DEF HeadOf
<1>2. FramesAreWhole'
  BY DEF FramesAreWhole
<1>3. CloseFrameSent' <=> CloseFrameSent
  BY DEF CloseFrameSent
<1>4. ClosingOK'
  <2> SUFFICES ASSUME NEW w \in Users, user'[w].pc = "close" PROVE user[w].pc = "close"
    BY <1>3 DEF ClosingOK
  <2> QED
    BY DEF OnlyOf
<1> QED
  BY <1>1, <1>2, <1>4

LEMMA ControlKeeps ==
    ASSUME Typed, MutexesOK, \A w \in Users : CallOK(w) /\ MessageOK(w),
           NEW u \in Users, OnlyOf(u), CallOK(u)', MessageOK(u)',
           rio' = u <=> Holds(u)', wio' = u <=> user'[u].pc = "data",
           \A w \in Users : w # u => (rio' = w <=> rio = w) /\ (wio' = w <=> wio = w)
    PROVE  MutexesOK' /\ \A w \in Users : CallOK(w)' /\ MessageOK(w)'
<1>1. ASSUME NEW w \in Users, w # u
      PROVE  /\ user'[w] = user[w] /\ CallOK(w)' /\ MessageOK(w)'
             /\ rio' = w <=> Holds(w)'
             /\ wio' = w <=> user'[w].pc = "data"
  <2>1. user'[w] = user[w]
    BY <1>1 DEF OnlyOf
  <2>2. CallOK(w) /\ MessageOK(w)
    OBVIOUS
  <2>3. CallOK(w)' /\ MessageOK(w)'
    BY <2>1, <2>2 DEF CallOK, MessageOK
  <2>4. (rio' = w <=> Holds(w)') /\ (wio' = w <=> user'[w].pc = "data")
    BY <1>1, <2>1 DEF MutexesOK, Holds
  <2> QED
    BY <2>1, <2>3, <2>4
<1>2. MutexesOK'
  BY <1>1 DEF MutexesOK
<1> QED
  BY <1>1, <1>2

LEMMA NotHolding ==
    ASSUME MutexesOK, NEW u \in Users, NEW w \in Users, w # u, rio = u
    PROVE  ~Holds(w)
  BY DEF MutexesOK

LEMMA ReadersKeep ==
    ASSUME Typed, MutexesOK, \A w \in Users : ReaderOK(w),
           NEW u \in Users, OnlyOf(u), ReaderOK(u)', MutexesOK',
           \/ rio = u \/ rio' = u
           \/ UNCHANGED <<incoming, arrived, frame>> /\ (peerDone => peerDone')
    PROVE  \A w \in Users : ReaderOK(w)'
<1> SUFFICES ASSUME NEW w \in Users, w # u PROVE ReaderOK(w)'
  OBVIOUS
<1>1. user'[w] = user[w]
  BY DEF OnlyOf
<1>2. Holds(w)' <=> Holds(w)
  BY <1>1 DEF Holds
<1>3. CASE rio = u
  BY <1>2, <1>3, NotHolding DEF ReaderOK
<1>4. CASE rio' = u
  <2>1. ~Holds(w)'
    BY <1>4 DEF MutexesOK
  <2> QED
    BY <2>1 DEF ReaderOK
<1>5. CASE UNCHANGED <<incoming, arrived, frame>> /\ (peerDone => peerDone')
  <2>1. ReaderOK(w)
    OBVIOUS
  <2>2. ASSUME NEW op, NEW n, FrameNext(op, n) PROVE FrameNext(op, n)'
    BY <1>5, <2>2, StillNext
  <2>3. FrameNext(user[w].op, user[w].left) => FrameNext(user[w].op, user[w].left)'
    BY <1>1, <2>2
  <2>4. FrameNext("data", user[w].left) => FrameNext("data", user[w].left)'
    BY <1>1, <2>2
  <2> QED
    BY <1>1, <1>2, <1>5, <2>1, <2>3, <2>4 DEF ReaderOK
<1> QED
  BY <1>3, <1>4, <1>5

\* It has nothing to do with the reading end.
LEMMA BoundaryKeeps ==
    ASSUME Typed, BoundaryOK, NEW u \in Users, OnlyOf(u),
           UNCHANGED <<incoming, arrived, frame, rio, failed, garbled>>,
           peerDone => peerDone', AtHead(u)' => AtHead(u)
    PROVE  BoundaryOK'
<1>1. (Aligned' <=> Aligned) /\ \A op, n : PayloadNext(op, n) => PayloadNext(op, n)'
  BY StillNext
<1>2. \A w \in Users : AtHead(w)' => AtHead(w)
  <2> SUFFICES ASSUME NEW w \in Users, w # u PROVE AtHead(w)' => AtHead(w)
    OBVIOUS
  <2>1. user'[w] = user[w]
    BY DEF OnlyOf
  <2> QED
    BY <2>1 DEF AtHead, Holds
<1>3. PayloadNext("data", frame) => PayloadNext("data", frame)'
  BY <1>1
<1> QED
  BY <1>1, <1>2, <1>3 DEF BoundaryOK

\* It is the reader's.
LEMMA BoundaryAfter ==
    ASSUME MutexesOK, MutexesOK', NEW u \in Users, OnlyOf(u), rio = u \/ rio' = u,
           frame' # NoFrame => PayloadNext("data", frame)',
           ~failed' => (((rio' = NoOne /\ frame' = NoFrame) \/ AtHead(u)') => Aligned'),
           garbled' => failed'
    PROVE  BoundaryOK'
<1>1. ASSUME NEW w \in Users, AtHead(w)' PROVE w = u
  <2> SUFFICES ASSUME w # u PROVE FALSE
    OBVIOUS
  <2>1. user'[w] = user[w] /\ Holds(w)'
    BY <1>1 DEF OnlyOf, AtHead
  <2>2. Holds(w)
    BY <2>1 DEF Holds
  <2> QED
    BY <2>1, <2>2 DEF MutexesOK
<1> QED
  BY <1>1 DEF BoundaryOK

-----------------------------------------------------------------------------
(* Steps that have nothing to do with the reading end. *)

LEMMA Beside ==
    ASSUME ConnInv, NEW u \in Users, OnlyOf(u), MutexesOK', ReaderOK(u)',
           UNCHANGED <<incoming, arrived, peerDone, frame, rio, got, failed, garbled>>,
           AtHead(u)' => AtHead(u)
    PROVE  /\ Moves /\ \A w \in Users : ReaderOK(w)'
           /\ ArrivedOK' /\ StreamOK' /\ BoundaryOK' /\ GotOK'
<1>1. Typed /\ MutexesOK /\ StreamOK /\ ArrivedOK /\ BoundaryOK /\ GotOK
      /\ \A w \in Users : ReaderOK(w)
  BY DEF ConnInv
<1>2. Shifted(0)
  BY <1>1, SameStream
<1>3. Moves /\ StreamOK'
  BY <1>1, <1>2, ShiftMoves, ShiftKeeps
<1>4. ArrivedOK'
  BY <1>1 DEF ArrivedOK
<1>5. GotOK'
  BY <1>1, <1>3, GotKeeps
<1>6. BoundaryOK'
  BY <1>1, BoundaryKeeps
<1>7. \A w \in Users : ReaderOK(w)'
  BY <1>1, ReadersKeep
<1> QED
  BY <1>3, <1>4, <1>5, <1>6, <1>7

\* A call that begins, or ends without having read, and is not at the wire.
LEMMA CallStep ==
    ASSUME ConnInv, NEW u \in Users, OnlyOf(u), Typed', CallOK(u)', MessageOK(u)',
           ~Holds(u), ~Holds(u)', ~Pending(u)',
           user[u].pc # "data", user'[u].pc \notin {"data", "close"},
           UNCHANGED <<readVars, peerVars, outgoing, bufw, broken, wio, closed>>
    PROVE  ConnInv'
<1>1. Typed /\ MutexesOK /\ BufferOK /\ FramesAreWhole /\ ClosingOK /\ PongsOK
      /\ \A w \in Users : CallOK(w) /\ MessageOK(w)
  BY DEF ConnInv
<1>2. UNCHANGED <<incoming, arrived, peerDone, frame, rio, got, failed, garbled>>
  BY DEF readVars, peerVars
<1>3. rio # u /\ wio # u /\ (rio' = rio) /\ (wio' = wio)
  BY <1>1, <1>2 DEF MutexesOK
<1>4. MutexesOK' /\ \A w \in Users : CallOK(w)' /\ MessageOK(w)'
  BY <1>1, <1>3, ControlKeeps
<1>5. ReaderOK(u)' /\ ~AtHead(u)'
  BY DEF ReaderOK, AtHead
<1>6. /\ Moves /\ \A w \in Users : ReaderOK(w)'
      /\ ArrivedOK' /\ StreamOK' /\ BoundaryOK' /\ GotOK'
  BY <1>2, <1>4, <1>5, Beside
<1>7. PongsOK'
  BY <1>1, <1>6, PongsKeep
<1>8. BufferOK' /\ FramesAreWhole' /\ ClosingOK'
  BY <1>1, WireKeeps
<1> QED
  BY <1>4, <1>6, <1>7, <1>8 DEF ConnInv

LEMMA WriteStep ==
    ASSUME ConnInv, NEW u \in Writers, Write(u)
    PROVE  ConnInv'
<1>1. Typed /\ u \in Users /\ sends \in Nat /\ user[u].pc = "idle"
  BY DEF ConnInv, Typed, Users, Write, Does
<1> DEFINE msg == <<DataUnit(0, sends + 1)>>
<1>2. msg \in Seq(Unit) /\ \A k \in DOMAIN msg : ~IsHead(msg[k])
  <2>1. DataUnit(0, sends + 1) \in Unit /\ ~IsHead(DataUnit(0, sends + 1))
    BY <1>1, UnitTypes
  <2> QED
    BY <2>1
<1> DEFINE d == [NoWork EXCEPT !.pc = "wio", !.call = "write", !.op = "data", !.msg = msg]
<1>3. user' = [user EXCEPT ![u] = d]
  BY DEF Write
<1> HIDE DEF msg
<1>4. d \in Work /\ d.pc = "wio" /\ d.call = "write" /\ d.op = "data" /\ d.msg = msg
  BY <1>2, NoWorkFields DEF Work, NoWork, OpCodes, Holding, Writing
<1> HIDE DEF d
<1>5. /\ OnlyOf(u) /\ user'[u].pc = "wio" /\ user'[u].call = "write"
      /\ user'[u].op = "data" /\ user'[u].msg = msg
  BY <1>1, <1>3, <1>4, UserSet
<1>6. /\ sends' = sends + 1
      /\ UNCHANGED <<readVars, peerVars, outgoing, bufw, broken, wio, closed>>
  BY DEF Write
<1>7. Typed'
  BY <1>1, <1>5, <1>6 DEF Typed, OnlyOf, readVars, peerVars
<1>8. CallOK(u)' /\ MessageOK(u)' /\ ~Holds(u)' /\ ~Pending(u)'
  BY <1>2, <1>5 DEF CallOK, MessageOK, Holds, Pending, ReadCalls, Writing, Holding
<1>9. ~Holds(u)
  BY <1>1 DEF Holds, Holding, Writing
<1> QED
  BY <1>1, <1>5, <1>6, <1>7, <1>8, <1>9, CallStep

LEMMA CloseConnStep ==
    ASSUME ConnInv, NEW u \in Writers, CloseConn(u)
    PROVE  ConnInv'
<1>1. Typed /\ u \in Users /\ sends \in Nat /\ user[u].pc = "idle"
  BY DEF ConnInv, Typed, Users, CloseConn, Does
<1> DEFINE msg == Status(1000)
<1>2. msg \in Seq(Unit) /\ \A k \in DOMAIN msg : ~IsHead(msg[k])
  BY StatusFields
<1> DEFINE d == [NoWork EXCEPT !.pc = "wio", !.call = "close", !.op = "close", !.msg = msg]
<1>3. user' = [user EXCEPT ![u] = d]
  BY DEF CloseConn
<1> HIDE DEF msg
<1>4. d \in Work /\ d.pc = "wio" /\ d.call = "close" /\ d.op = "close" /\ d.msg = msg
  BY <1>2, NoWorkFields DEF Work, NoWork, OpCodes, Holding, Writing
<1> HIDE DEF d
<1>5. /\ OnlyOf(u) /\ user'[u].pc = "wio" /\ user'[u].call = "close"
      /\ user'[u].op = "close" /\ user'[u].msg = msg
  BY <1>1, <1>3, <1>4, UserSet
<1>6. /\ sends' = sends + 1
      /\ UNCHANGED <<readVars, peerVars, outgoing, bufw, broken, wio, closed>>
  BY DEF CloseConn
<1>7. Typed'
  BY <1>1, <1>5, <1>6 DEF Typed, OnlyOf, readVars, peerVars
<1>8. CallOK(u)' /\ MessageOK(u)' /\ ~Holds(u)' /\ ~Pending(u)'
  BY <1>2, <1>5 DEF msg, CallOK, MessageOK, Holds, Pending, ReadCalls, Writing, Holding
<1>9. ~Holds(u)
  BY <1>1 DEF Holds, Holding, Writing
<1> QED
  BY <1>1, <1>5, <1>6, <1>7, <1>8, <1>9, CallStep

LEMMA ReadsStep ==
    ASSUME ConnInv, NEW u \in Readers, NEW call \in ReadCalls, Reads(u, call)
    PROVE  ConnInv'
<1>1. Typed /\ u \in Users /\ user[u].pc = "idle"
  BY DEF ConnInv, Users, Reads, Does
<1> DEFINE d == [NoWork EXCEPT !.pc = "rio", !.call = call]
<1>2. d \in Work /\ d.pc = "rio" /\ d.call = call
  BY NoWorkFields DEF Work, NoWork, ReadCalls
<1>3. user' = [user EXCEPT ![u] = d]
  BY DEF Reads
<1> HIDE DEF d
<1>4. OnlyOf(u) /\ user'[u].pc = "rio" /\ user'[u].call = call
  BY <1>1, <1>2, <1>3, UserSet
<1>5. /\ sends' = sends
      /\ UNCHANGED <<readVars, peerVars, outgoing, bufw, broken, wio, closed>>
  BY DEF Reads, writeVars
<1>6. Typed'
  BY <1>1, <1>4, <1>5 DEF Typed, OnlyOf, readVars, peerVars
<1>7. CallOK(u)' /\ MessageOK(u)' /\ ~Holds(u)' /\ ~Pending(u)'
  BY <1>4 DEF CallOK, MessageOK, Holds, Pending, ReadCalls, Writing, Holding
<1>8. ~Holds(u)
  BY <1>1 DEF Holds, Holding, Writing
<1> QED
  BY <1>1, <1>4, <1>5, <1>6, <1>7, <1>8, CallStep

LEMMA WriterReturnsStep ==
    ASSUME ConnInv, NEW u \in Users, WriterReturns(u)
    PROVE  ConnInv'
<1>1. Typed /\ user[u].pc = "return"
  BY DEF ConnInv, WriterReturns, Does
<1>2. OnlyOf(u) /\ user'[u].pc = "idle" /\ user'[u].call = "none"
  BY <1>1, NoWorkFields, UserSet DEF WriterReturns
<1>3. /\ sends' = sends
      /\ UNCHANGED <<readVars, peerVars, outgoing, bufw, broken, wio, closed>>
  BY DEF WriterReturns, writeVars
<1>4. Typed'
  BY <1>1, <1>2, <1>3 DEF Typed, OnlyOf, readVars, peerVars
<1>5. CallOK(u)' /\ MessageOK(u)' /\ ~Holds(u)' /\ ~Pending(u)'
  BY <1>2 DEF CallOK, MessageOK, Holds, Pending, ReadCalls, Writing, Holding
<1>6. ~Holds(u)
  BY <1>1 DEF Holds, Holding, Writing
<1> QED
  BY <1>1, <1>2, <1>3, <1>4, <1>5, <1>6, CallStep

LEMMA ClosesRwcStep ==
    ASSUME ConnInv, NEW u \in Users, ClosesRwc(u)
    PROVE  ConnInv'
<1>0. Typed /\ MutexesOK /\ BufferOK /\ FramesAreWhole /\ ClosingOK /\ PongsOK
      /\ \A w \in Users : CallOK(w) /\ MessageOK(w)
  BY DEF ConnInv
<1>1. user[u].pc = "close" /\ closed' = TRUE /\ user[u].call = "close"
  BY <1>0 DEF ClosesRwc, Does, CallOK
<1>2. OnlyOf(u) /\ user'[u].pc = "return" /\ user'[u].call = "close"
  BY <1>0, <1>1, UserGoes DEF ClosesRwc
<1>3. UNCHANGED <<readVars, peerVars, outgoing, bufw, broken, wio, sends>>
  BY DEF ClosesRwc, writeVars
<1>4. UNCHANGED <<incoming, arrived, peerDone, frame, rio, got, failed, garbled>>
  BY <1>3 DEF readVars, peerVars
<1>5. Typed'
  BY <1>0, <1>1, <1>2, <1>3, <1>4 DEF Typed, OnlyOf
<1>6. /\ CallOK(u)' /\ MessageOK(u)' /\ ~Holds(u)' /\ ~Pending(u)' /\ ~Holds(u)
      /\ ReaderOK(u)' /\ ~AtHead(u)'
  BY <1>1, <1>2 DEF CallOK, MessageOK, Holds, Pending, ReadCalls, Writing, Holding, ReaderOK, AtHead
<1>7. rio # u /\ wio # u /\ (rio' = rio) /\ (wio' = wio)
  BY <1>0, <1>1, <1>3, <1>4, <1>6 DEF MutexesOK
<1>8. MutexesOK' /\ \A w \in Users : CallOK(w)' /\ MessageOK(w)'
  BY <1>0, <1>2, <1>6, <1>7, ControlKeeps
<1>9. /\ Moves /\ \A w \in Users : ReaderOK(w)'
      /\ ArrivedOK' /\ StreamOK' /\ BoundaryOK' /\ GotOK'
  BY <1>2, <1>4, <1>6, <1>8, Beside
<1>10. PongsOK'
  BY <1>0, <1>2, <1>3, <1>6, <1>9, PongsKeep
<1>11. FramesAreWhole' /\ (CloseFrameSent' <=> CloseFrameSent)
  BY <1>0, <1>3 DEF FramesAreWhole, CloseFrameSent
<1>12. ClosingOK'
  <2>1. CloseFrameSent
    BY <1>0, <1>1 DEF ClosingOK
  <2> QED
    BY <1>11, <2>1 DEF ClosingOK
<1>13. BufferOK'
  <2> SUFFICES ASSUME NEW w \in Users, wio = w PROVE HeadOf(w)' = HeadOf(w)
    BY <1>0, <1>3 DEF BufferOK
  <2>1. w # u
    BY <1>7
  <2> QED
    BY <1>2, <2>1 DEF HeadOf, OnlyOf
<1> QED
  BY <1>5, <1>8, <1>9, <1>10, <1>11, <1>12, <1>13 DEF ConnInv

-----------------------------------------------------------------------------
(* Steps at the wire. *)

LEMMA BeginsFrameStep ==
    ASSUME ConnInv, NEW u \in Users, BeginsFrame(u)
    PROVE  ConnInv'
<1>0. Typed /\ MutexesOK /\ BufferOK /\ FramesAreWhole /\ ClosingOK /\ PongsOK
      /\ \A w \in Users : CallOK(w) /\ MessageOK(w) /\ ReaderOK(w)
  BY DEF ConnInv
<1>1. user[u].pc = "wio" /\ wio = NoOne /\ wio' = u /\ bufw' = Append(bufw, HeadOf(u))
      /\ UNCHANGED <<incoming, arrived, peerDone, frame, rio, got, failed, garbled>>
      /\ UNCHANGED <<outgoing, broken, sends, closed>>
  BY DEF BeginsFrame, Does, TakesWio, HeadOf, readVars, peerVars
<1>2. /\ OnlyOf(u) /\ user'[u].pc = "data" /\ user'[u].call = user[u].call
      /\ user'[u].op = user[u].op /\ user'[u].msg = user[u].msg
  BY <1>0, <1>1, UserGoes DEF BeginsFrame, Holding, Writing
<1>3. HeadOf(u) \in Unit /\ HeadOf(u)' = HeadOf(u)
  <2>1. user[u].op \in OpCodes /\ user[u].msg \in Seq(Unit)
    BY <1>0, <1>1, WorkFields DEF MessageOK, Writing
  <2>2. Len(user[u].msg) \in Nat
    BY <2>1
  <2> QED
    BY <1>2, <2>1, <2>2, MaskTypes, UnitTypes DEF HeadOf
<1>4. Typed'
  <2>1. bufw' \in Seq(Unit)
    BY <1>0, <1>1, <1>3 DEF Typed
  <2> QED
    BY <1>0, <1>1, <1>2, <2>1 DEF Typed, OnlyOf
<1>5. /\ Holds(u)' <=> Holds(u)
      /\ Pending(u)' <=> Pending(u)
      /\ AtHead(u)' => AtHead(u)
      /\ CallOK(u)' /\ MessageOK(u)'
  BY <1>0, <1>1, <1>2 DEF Holds, Pending, AtHead, CallOK, MessageOK, Holding, Writing
<1>6. ReaderOK(u)'
  <2>1. Holds(u) => frame = NoFrame
    BY <1>0, <1>1 DEF ReaderOK, Writing
  <2> QED
    BY <1>1, <1>2, <1>5, <2>1 DEF ReaderOK, Writing
<1>7. NoOne \notin Users
  BY DEF Users
<1>8. MutexesOK' /\ \A w \in Users : CallOK(w)' /\ MessageOK(w)'
  <2>1. rio' = u <=> Holds(u)'
    BY <1>0, <1>1, <1>5 DEF MutexesOK
  <2> QED
    BY <1>0, <1>1, <1>2, <1>5, <1>7, <2>1, ControlKeeps
<1>9. /\ Moves /\ \A w \in Users : ReaderOK(w)'
      /\ ArrivedOK' /\ StreamOK' /\ BoundaryOK' /\ GotOK'
  BY <1>1, <1>2, <1>5, <1>6, <1>8, Beside
<1>10. PongsOK'
  <2>1. Pending(u) => EchoOK(user[u].msg) /\ \A i \in Pongs : EchoOf(i) < user[u].msg[1].number
    BY <1>0 DEF PongsOK
  <2>2. \A msg : EchoOK(msg) => EchoOK(msg)'
    BY <1>0, <1>9, EchoKeeps
  <2>3. Pending(u)' => EchoOK(user[u].msg)' /\ \A i \in Pongs : EchoOf(i) < user'[u].msg[1].number
    BY <1>2, <1>5, <2>1, <2>2
  <2> QED
    BY <1>0, <1>1, <1>2, <1>9, <2>3, PongsKeep
<1>11. FramesAreWhole' /\ (CloseFrameSent' <=> CloseFrameSent)
  BY <1>0, <1>1 DEF FramesAreWhole, CloseFrameSent
<1>12. ClosingOK'
  BY <1>0, <1>1, <1>2, <1>11 DEF ClosingOK, OnlyOf
<1>13. BufferOK'
  <2> SUFFICES ASSUME ~broken PROVE bufw' = <<HeadOf(u)>>
    BY <1>1, <1>3, <1>7 DEF BufferOK
  <2>1. bufw = <<>>
    BY <1>0, <1>1 DEF BufferOK
  <2> QED
    BY <1>1, <2>1
<1> QED
  BY <1>4, <1>8, <1>9, <1>10, <1>11, <1>12, <1>13 DEF ConnInv

\* Who writes what, and where it goes on.
LEMMA AfterFlushIs ==
    ASSUME Typed, NEW u \in Users, CallOK(u), MessageOK(u), user[u].pc = "data", NEW ok \in BOOLEAN
    PROVE  /\ AfterFlush(u, ok) \in {"next", "error", "close", "return"}
           /\ user[u].op = "pong" => user[u].call \in ReadCalls
           /\ AfterFlush(u, ok) \in {"next", "error"} <=> user[u].call \in ReadCalls
           /\ AfterFlush(u, ok) = "next" => user[u].op = "pong"
           /\ AfterFlush(u, ok) = "close" => user[u].call = "close" /\ ok
<1>1. user[u].call \in {"none", "write", "close"} \cup ReadCalls /\ user[u].op \in OpCodes \cup {"none"}
  BY WorkFields
<1>2. /\ user[u].op # "none" /\ user[u].call # "none"
      /\ user[u].call \in ReadCalls => user[u].op \in {"pong", "close"}
      /\ user[u].call = "write" => user[u].op = "data"
      /\ user[u].call = "close" => user[u].op = "close"
  BY DEF MessageOK, CallOK, Writing
<1>3. CASE user[u].op = "pong"
  <2>1. AfterFlush(u, ok) = IF ok THEN "next" ELSE "error"
    BY <1>3 DEF AfterFlush
  <2>2. user[u].call \in ReadCalls
    BY <1>1, <1>2, <1>3
  <2> QED
    BY <1>3, <2>1, <2>2 DEF ReadCalls
<1>4. CASE user[u].op # "pong" /\ user[u].call = "close"
  <2>1. AfterFlush(u, ok) = IF ok THEN "close" ELSE "return"
    BY <1>2, <1>4 DEF AfterFlush
  <2> QED
    BY <1>4, <2>1 DEF ReadCalls
<1>5. CASE user[u].op # "pong" /\ user[u].call # "close"
  <2>1. user[u].op = "close" => AfterFlush(u, ok) = "error"
    BY <1>5 DEF AfterFlush
  <2>2. user[u].op # "close" => AfterFlush(u, ok) = "return"
    BY <1>5 DEF AfterFlush
  <2>3. (user[u].op = "close" /\ user[u].call \in ReadCalls)
        \/ (user[u].op = "data" /\ user[u].call = "write")
    BY <1>1, <1>2, <1>5
  <2> QED
    BY <1>5, <2>1, <2>2, <2>3 DEF ReadCalls
<1> QED
  BY <1>3, <1>4, <1>5

\* The frame that a flush puts on the wire.
LEMMA FlushedFrame ==
    ASSUME Typed, NEW u \in Users, MessageOK(u), user[u].pc = "data"
    PROVE  LET f == <<HeadOf(u)>> \o user[u].msg
           IN /\ f \in Seq(Unit) /\ f[1] = HeadOf(u) /\ Len(f) = Len(user[u].msg) + 1
              /\ Tail(f) = user[u].msg
              /\ \A k \in 2..Len(f) : f[k].op = "payload"
<1> DEFINE h == <<HeadOf(u)>>
           msg == user[u].msg
<1>1. user[u].op \in OpCodes /\ msg \in Seq(Unit) /\ \A k \in DOMAIN msg : ~IsHead(msg[k])
  BY WorkFields DEF MessageOK, Writing
<1>2. HeadOf(u) \in Unit
  <2>1. Len(msg) \in Nat
    BY <1>1
  <2> QED
    BY <1>1, <2>1, MaskTypes, UnitTypes DEF HeadOf
<1>3. h \in Seq(Unit) /\ Len(h) = 1 /\ h[1] = HeadOf(u)
  BY <1>2
<1>4. /\ h \o msg \in Seq(Unit) /\ Len(h \o msg) = 1 + Len(msg)
      /\ (h \o msg)[1] = h[1]
      /\ \A i \in 1..Len(msg) : (h \o msg)[1 + i] = msg[i]
  <2> HIDE DEF h, msg
  <2>1. /\ h \o msg \in Seq(Unit) /\ Len(h \o msg) = Len(h) + Len(msg)
        /\ \A i \in 1..Len(h) : (h \o msg)[i] = h[i]
        /\ \A i \in 1..Len(msg) : (h \o msg)[Len(h) + i] = msg[i]
    <3>1. h \in Seq(Unit) /\ msg \in Seq(Unit)
      BY <1>1, <1>3
    <3> QED BY <3>1, JoinFields
  <2> QED BY <1>3, <2>1
<1>5. Tail(h \o msg) = msg
  BY <1>1, <1>2, <1>3
<1>6. ASSUME NEW k \in 2..Len(h \o msg) PROVE (h \o msg)[k].op = "payload"
  <2>1. k - 1 \in 1..Len(msg) /\ 1 + (k - 1) = k /\ DOMAIN msg = 1..Len(msg)
    BY <1>1, <1>4
  <2>2. (h \o msg)[k] = msg[k - 1] /\ ~IsHead(msg[k - 1])
    BY <1>1, <1>4, <2>1
  <2> QED
    BY <2>2 DEF IsHead
<1>7. Len(h \o msg) = Len(msg) + 1
  BY <1>1, <1>4
<1> QED
  BY <1>3, <1>4, <1>5, <1>6, <1>7

LEMMA EndsFrameStep ==
    ASSUME ConnInv, NEW u \in Users, EndsFrame(u)
    PROVE  ConnInv'
<1>0. Typed /\ MutexesOK /\ BufferOK /\ FramesAreWhole /\ ClosingOK /\ PongsOK
      /\ \A w \in Users : CallOK(w) /\ MessageOK(w) /\ ReaderOK(w)
  BY DEF ConnInv
<1>1. user[u].pc = "data" /\ wio = u /\ wio' = NoOne
      /\ UNCHANGED <<incoming, arrived, peerDone, frame, rio, got, failed, garbled>>
      /\ UNCHANGED <<sends, closed>>
  BY <1>0 DEF EndsFrame, Does, MutexesOK, readVars, peerVars
<1>2. PICK ok \in BOOLEAN :
        /\ Goes(u, AfterFlush(u, ok))
        /\ ok => ~closed /\ ~broken /\ outgoing' = Append(outgoing, bufw \o user[u].msg)
                 /\ bufw' = <<>> /\ broken' = broken
        /\ ~ok => broken' = TRUE /\ outgoing' = outgoing /\ bufw' = bufw
  BY DEF EndsFrame
<1>3. /\ AfterFlush(u, ok) \in {"next", "error", "close", "return"}
      /\ user[u].op = "pong" => user[u].call \in ReadCalls
      /\ AfterFlush(u, ok) \in {"next", "error"} <=> user[u].call \in ReadCalls
      /\ AfterFlush(u, ok) = "next" => user[u].op = "pong"
      /\ AfterFlush(u, ok) = "close" => user[u].call = "close" /\ ok
  BY <1>0, <1>1, AfterFlushIs
<1>4. /\ OnlyOf(u) /\ user'[u].pc = AfterFlush(u, ok) /\ user'[u].call = user[u].call
      /\ user'[u].op = user[u].op /\ user'[u].msg = user[u].msg
  BY <1>0, <1>2, <1>3, UserGoes DEF Holding
<1>5. NoOne \notin Users
  BY DEF Users
<1> DEFINE f == <<HeadOf(u)>> \o user[u].msg
<1>6. ok => bufw \o user[u].msg = f
  BY <1>0, <1>1, <1>2 DEF BufferOK
<1>7. /\ f \in Seq(Unit) /\ f[1] = HeadOf(u) /\ Len(f) = Len(user[u].msg) + 1
      /\ Tail(f) = user[u].msg
      /\ \A k \in 2..Len(f) : f[k].op = "payload"
  BY <1>0, <1>1, FlushedFrame
<1>8. f[1].op = user[u].op /\ f[1].masked = ~Server /\ f[1].len = Len(user[u].msg)
      /\ user[u].op \in OpCodes
  BY <1>0, <1>1, <1>7, WorkFields DEF HeadOf, HeadUnit, MessageOK, Writing
<1>9. HeadOf(u) = HeadUnit(user[u].op, ~Server, Len(user[u].msg), 0) /\ f = <<HeadOf(u)>> \o user[u].msg
  BY DEF HeadOf
<1> HIDE DEF f
<1>10. ok => /\ outgoing' = Append(outgoing, f) /\ outgoing' \in Seq(Seq(Unit))
            /\ Len(outgoing') = Len(outgoing) + 1 /\ DOMAIN outgoing' = 1..(Len(outgoing) + 1)
            /\ \A i \in 1..Len(outgoing) : outgoing'[i] = outgoing[i]
            /\ outgoing'[Len(outgoing) + 1] = f
  <2> DEFINE Frames == Seq(Unit)
  <2>1. outgoing \in Seq(Frames) /\ f \in Frames
    BY <1>0, <1>7 DEF Typed
  <2>2. ok => outgoing' = Append(outgoing, f)
    BY <1>2, <1>6
  <2> HIDE DEF Frames
  <2>3. ok => /\ outgoing' \in Seq(Frames)
              /\ Len(outgoing') = Len(outgoing) + 1
              /\ \A i \in 1..Len(outgoing) : outgoing'[i] = outgoing[i]
              /\ outgoing'[Len(outgoing) + 1] = f
    BY <2>1, <2>2, AppendFields
  <2>4. ok => DOMAIN outgoing' = 1..(Len(outgoing) + 1)
    BY <2>3
  <2> QED
    BY <2>2, <2>3, <2>4 DEF Frames
<1>11. outgoing \in Seq(Seq(Unit)) /\ DOMAIN outgoing = 1..Len(outgoing) /\ Len(outgoing) \in Nat
  BY <1>0 DEF Typed
<1>12. Typed'
  <2>1. outgoing' \in Seq(Seq(Unit)) /\ bufw' \in Seq(Unit) /\ broken' \in BOOLEAN
    <3>1. CASE ok
      BY <1>0, <1>2, <1>10, <3>1 DEF Typed
    <3>2. CASE ~ok
      BY <1>0, <1>2, <3>2 DEF Typed
    <3> QED
      BY <3>1, <3>2
  <2> QED
    BY <1>0, <1>1, <1>4, <2>1 DEF Typed, OnlyOf
<1>13. /\ Holds(u) <=> user[u].call \in ReadCalls
       /\ Holds(u)' <=> Holds(u)
       /\ ~Pending(u)' /\ (AtHead(u)' => AtHead(u))
       /\ CallOK(u)' /\ MessageOK(u)'
  BY <1>0, <1>1, <1>3, <1>4 DEF Holds, Pending, AtHead, CallOK, MessageOK, Holding, Writing, ReadCalls
<1>14. ReaderOK(u)'
  <2>1. Holds(u) => frame = NoFrame
    BY <1>0, <1>1 DEF ReaderOK, Writing
  <2> QED
    BY <1>1, <1>3, <1>4, <1>13, <2>1 DEF ReaderOK, Writing
<1>15. MutexesOK' /\ \A w \in Users : CallOK(w)' /\ MessageOK(w)'
  <2>1. rio' = u <=> Holds(u)'
    BY <1>0, <1>1, <1>13 DEF MutexesOK
  <2>2. wio' = u <=> user'[u].pc = "data"
    BY <1>1, <1>3, <1>4, <1>5
  <2>3. \A w \in Users : w # u => (rio' = w <=> rio = w) /\ (wio' = w <=> wio = w)
    BY <1>1, <1>5
  <2> QED
    BY <1>0, <1>4, <1>13, <2>1, <2>2, <2>3, ControlKeeps
<1>16. /\ Moves /\ \A w \in Users : ReaderOK(w)'
       /\ ArrivedOK' /\ StreamOK' /\ BoundaryOK' /\ GotOK'
  BY <1>1, <1>4, <1>13, <1>14, <1>15, Beside
<1>17. FramesAreWhole'
  <2>1. CASE ok
    <3> SUFFICES ASSUME NEW i \in DOMAIN outgoing'
                 PROVE  LET g == outgoing'[i]
                        IN /\ g[1].op # "payload" /\ g[1].masked = ~Server
                           /\ Len(g) = g[1].len + 1
                           /\ \A k \in 2..Len(g) : g[k].op = "payload"
      BY DEF FramesAreWhole
    <3>1. CASE i \in DOMAIN outgoing
      <4>1. outgoing'[i] = outgoing[i]
        BY <1>10, <1>11, <2>1, <3>1
      <4> QED
        BY <1>0, <3>1, <4>1 DEF FramesAreWhole
    <3>2. CASE i \notin DOMAIN outgoing
      <4>1. outgoing'[i] = f
        BY <1>10, <1>11, <2>1, <3>2
      <4> QED
        BY <1>7, <1>8, <4>1 DEF OpCodes
    <3> QED
      BY <3>1, <3>2
  <2>2. CASE ~ok
    BY <1>0, <1>2, <2>2 DEF FramesAreWhole
  <2> QED
    BY <2>1, <2>2
<1>18. CloseFrameSent => CloseFrameSent'
  <2>1. CASE ok
    <3> SUFFICES ASSUME NEW i \in DOMAIN outgoing,
                        outgoing[i] = <<HeadUnit("close", ~Server, 1, 0)>> \o Status(1000)
                 PROVE  CloseFrameSent'
      BY DEF CloseFrameSent
    <3>1. outgoing'[i] = outgoing[i] /\ i \in DOMAIN outgoing'
      BY <1>10, <1>11, <2>1
    <3> QED
      BY <3>1 DEF CloseFrameSent
  <2>2. CASE ~ok
    BY <1>2, <2>2 DEF CloseFrameSent
  <2> QED
    BY <2>1, <2>2
<1>19. ClosingOK'
  <2>1. ASSUME user'[u].pc = "close" PROVE CloseFrameSent'
    <3>1. ok /\ user[u].call = "close"
      BY <1>3, <1>4, <2>1
    <3>2. user[u].op = "close" /\ user[u].msg = Status(1000)
      BY <1>0, <1>1, <3>1 DEF MessageOK, Writing
    <3>3. Len(user[u].msg) = 1
      BY <3>2, StatusFields
    <3> DEFINE c == <<HeadUnit("close", ~Server, 1, 0)>> \o Status(1000)
    <3>4. f = c
      BY <1>9, <3>2, <3>3
    <3>5. Len(outgoing) + 1 \in DOMAIN outgoing' /\ outgoing'[Len(outgoing) + 1] = f
      BY <1>10, <1>11, <3>1
    <3> HIDE DEF c
    <3>6. \E i \in DOMAIN outgoing' : outgoing'[i] = c
      BY ONLY <3>4, <3>5
    <3> QED
      BY ONLY <3>6, Zenon DEF c, CloseFrameSent
  <2>2. ASSUME NEW w \in Users, user'[w].pc = "close" PROVE CloseFrameSent'
    <3>1. CASE w = u
      BY <2>1, <2>2, <3>1
    <3>2. CASE w # u
      BY <1>0, <1>4, <1>18, <2>2, <3>2 DEF ClosingOK, OnlyOf
    <3> QED
      BY <3>1, <3>2
  <2> QED
    BY <1>0, <1>1, <1>18, <2>2 DEF ClosingOK
<1>20. BufferOK'
  <2> SUFFICES ASSUME ~broken' PROVE bufw' = <<>> /\ \A w \in Users : wio' # w
    BY DEF BufferOK
  <2> QED
    BY <1>1, <1>2, <1>5
<1>21. PongsOK'
  <2>1. CASE ~ok
    BY <1>0, <1>2, <1>4, <1>13, <1>16, <2>1, PongsKeep
  <2>2. CASE ok
    <3> PICK n \in Nat : n = Len(outgoing) + 1
      BY <1>11
    <3>1. ASSUME NEW i \in DOMAIN outgoing
          PROVE  /\ Echo(i)' = Echo(i) /\ EchoOf(i)' = EchoOf(i)
                 /\ i \in Pongs' <=> i \in Pongs
                 /\ i \in Nat /\ i < n
      <4>1. outgoing'[i] = outgoing[i] /\ i \in DOMAIN outgoing'
        BY <1>10, <1>11, <2>2
      <4> QED
        BY <1>11, <4>1 DEF Echo, EchoOf, Pongs
    <3>2. outgoing'[n] = f /\ DOMAIN outgoing' = DOMAIN outgoing \cup {n}
      BY <1>10, <1>11, <2>2
    <3>3. (n \in Pongs') <=> user[u].op = "pong"
      BY <1>8, <3>2 DEF Pongs
    <3>4. Echo(n)' = user[u].msg /\ EchoOf(n)' = user[u].msg[1].number
      BY <1>7, <3>2 DEF Echo, EchoOf
    <3>5. \A i \in Pongs' : i \in Pongs \/ (i = n /\ user[u].op = "pong")
      BY <3>1, <3>2, <3>3 DEF Pongs
    <3>6. \A msg : EchoOK(msg) => EchoOK(msg)'
      BY <1>0, <1>16, EchoKeeps
    <3>7. user[u].op = "pong" =>
             EchoOK(user[u].msg) /\ \A i \in Pongs : EchoOf(i) < user[u].msg[1].number
      BY <1>0, <1>1 DEF PongsOK, Pending, Writing
    <3>8. ASSUME NEW w \in Users, Pending(w)'
          PROVE  user[u].op # "pong" /\ w # u /\ user'[w] = user[w] /\ Pending(w)
      <4>1. w # u
        BY <1>13, <3>8
      <4>2. user'[w] = user[w] /\ Pending(w)
        BY <1>4, <3>8, <4>1 DEF OnlyOf, Pending
      <4>3. Holds(w)
        <5>1. CallOK(w) /\ MessageOK(w) /\ user[w].pc \in Writing /\ user[w].op = "pong"
          BY <1>0, <4>2 DEF Pending
        <5>2. user[w].call \in ReadCalls
          BY <1>0, <5>1, WorkFields DEF CallOK, MessageOK, Writing
        <5> QED
          BY <5>1, <5>2 DEF Holds, Holding
      <4>4. ~Holds(u)
        BY <1>0, <4>1, <4>3 DEF MutexesOK
      <4> QED
        BY <1>3, <1>13, <4>1, <4>2, <4>4
    <3>9. ASSUME NEW i \in Pongs' PROVE EchoOK(Echo(i))'
      <4>1. CASE i \in Pongs
        <5>1. EchoOK(Echo(i)) /\ i \in DOMAIN outgoing
          BY <1>0, <4>1 DEF PongsOK, Pongs
        <5> QED
          BY <3>1, <3>6, <5>1
      <4>2. CASE i = n /\ user[u].op = "pong"
        BY <3>4, <3>6, <3>7, <4>2
      <4> QED
        BY <3>5, <4>1, <4>2
    <3>10. ASSUME NEW i \in Pongs', NEW j \in Pongs', i < j PROVE EchoOf(i)' < EchoOf(j)'
      <4>1. i \in Pongs
        BY <3>1, <3>5, <3>10 DEF Pongs
      <4>2. CASE j \in Pongs
        <5>1. EchoOf(i) < EchoOf(j) /\ i \in DOMAIN outgoing /\ j \in DOMAIN outgoing
          BY <1>0, <3>10, <4>1, <4>2 DEF PongsOK, Pongs
        <5> QED
          BY <3>1, <5>1
      <4>3. CASE j = n /\ user[u].op = "pong"
        <5>1. EchoOf(i) < user[u].msg[1].number /\ i \in DOMAIN outgoing
          BY <3>7, <4>1, <4>3 DEF Pongs
        <5> QED
          BY <3>1, <3>4, <4>3, <5>1
      <4> QED
        BY <3>5, <4>2, <4>3
    <3>11. ASSUME NEW w \in Users, Pending(w)'
           PROVE  EchoOK(user[w].msg)' /\ \A i \in Pongs' : EchoOf(i)' < user'[w].msg[1].number
      <4>1. user[u].op # "pong" /\ user'[w] = user[w] /\ Pending(w)
        BY <3>8, <3>11
      <4>2. EchoOK(user[w].msg) /\ \A i \in Pongs : EchoOf(i) < user[w].msg[1].number
        BY <1>0, <4>1 DEF PongsOK
      <4>3. \A i \in Pongs' : i \in Pongs /\ EchoOf(i)' = EchoOf(i)
        BY <3>1, <3>5, <4>1 DEF Pongs
      <4> QED
        BY <3>6, <4>1, <4>2, <4>3
    <3> QED
      BY <3>9, <3>10, <3>11 DEF PongsOK
  <2> QED
    BY <2>1, <2>2
<1> QED
  BY <1>12, <1>15, <1>16, <1>17, <1>19, <1>20, <1>21 DEF ConnInv

-----------------------------------------------------------------------------
(* Steps of the reader. *)

LEMMA HoldsRio ==
    ASSUME ConnInv, NEW u \in Users, user[u].pc \in {"next", "handle", "body", "error"}
    PROVE  Holds(u) /\ rio = u /\ user[u].call \in ReadCalls /\ wio # u
<1>1. user[u].call \in ReadCalls
  BY WorkFields DEF ConnInv, CallOK, Writing
<1> QED
  BY <1>1 DEF ConnInv, MutexesOK, Holds, Holding

LEMMA ReaderKeeps ==
    ASSUME ConnInv, NEW u \in Users, OnlyOf(u), Typed', NEW n, Shifted(n),
           UNCHANGED <<outgoing, bufw, broken, wio, closed>>,
           rio = u \/ rio' = u, rio \in {u, NoOne}, rio' \in {u, NoOne}, rio' = u <=> Holds(u)',
           user[u].pc # "data", user'[u].pc \notin {"data", "close"},
           CallOK(u)', MessageOK(u)', ReaderOK(u)', GotOK',
           Pending(u)' => /\ EchoOK(user[u].msg)'
                          /\ \A i \in Pongs : EchoOf(i) < user'[u].msg[1].number,
           frame' # NoFrame => PayloadNext("data", frame)',
           ~failed' => (((rio' = NoOne /\ frame' = NoFrame) \/ AtHead(u)') => Aligned'),
           garbled' => failed'
    PROVE  ConnInv'
<1>1. Typed /\ MutexesOK /\ BufferOK /\ FramesAreWhole /\ ClosingOK /\ PongsOK /\ StreamOK /\ ArrivedOK
      /\ \A w \in Users : CallOK(w) /\ MessageOK(w) /\ ReaderOK(w)
  BY DEF ConnInv
<1>2. NoOne \notin Users
  BY DEF Users
<1>3. MutexesOK' /\ \A w \in Users : CallOK(w)' /\ MessageOK(w)'
  <2>1. wio # u /\ (wio' = u <=> user'[u].pc = "data")
    BY <1>1 DEF MutexesOK
  <2> QED
    BY <1>1, <1>2, <2>1, ControlKeeps
<1>4. \A w \in Users : ReaderOK(w)'
  BY <1>1, <1>3, ReadersKeep
<1>5. BoundaryOK'
  BY <1>1, <1>3, BoundaryAfter
<1>6. Moves /\ StreamOK'
  BY <1>1, ShiftMoves, ShiftKeeps
<1>7. PongsOK'
  BY <1>1, <1>6, PongsKeep
<1>8. BufferOK' /\ FramesAreWhole' /\ ClosingOK'
  BY <1>1, WireKeeps
<1>9. ArrivedOK'
  BY <1>1 DEF ArrivedOK, Shifted
<1> QED
  BY <1>3, <1>4, <1>5, <1>6, <1>7, <1>8, <1>9 DEF ConnInv

LEMMA StillGot ==
    ASSUME ConnInv, NEW n, Shifted(n), UNCHANGED got
    PROVE  GotOK'
<1>1. Moves
  BY ShiftMoves DEF ConnInv
<1> QED
  BY <1>1, GotKeeps DEF ConnInv

\* Nothing is read and the call ends in an error.
LEMMA ToError ==
    ASSUME ConnInv, NEW u \in Users, user[u].pc \in {"next", "handle", "body"}, Goes(u, "error"),
           UNCHANGED <<readVars, writeVars, peerVars, closed>>
    PROVE  ConnInv'
<1>1. Typed /\ BoundaryOK /\ UNCHANGED <<incoming, frame, rio, got, failed, garbled>>
      /\ UNCHANGED <<outgoing, bufw, broken, wio, sends>> /\ UNCHANGED <<peerDone, arrived>>
  BY DEF ConnInv, readVars, writeVars, peerVars
<1>2. Holds(u) /\ rio = u /\ user[u].call \in ReadCalls /\ wio # u
  BY HoldsRio
<1>3. OnlyOf(u) /\ user'[u].pc = "error" /\ user'[u].call = user[u].call
  BY <1>1, UserGoes DEF Holding
<1>4. Typed'
  BY <1>1, <1>3 DEF Typed, OnlyOf
<1>5. Shifted(0)
  BY <1>1, SameStream
<1>6. /\ CallOK(u)' /\ MessageOK(u)' /\ ReaderOK(u)' /\ Holds(u)' /\ ~Pending(u)' /\ ~AtHead(u)'
  BY <1>2, <1>3 DEF CallOK, MessageOK, ReaderOK, Holds, Pending, AtHead, ReadCalls, Holding, Writing
<1>7. GotOK'
  BY <1>1, <1>5, StillGot
<1>8. frame' # NoFrame => PayloadNext("data", frame)'
  <2>1. PayloadNext("data", frame) => PayloadNext("data", frame)'
    BY <1>1, StillNext
  <2> QED
    BY <1>1, <2>1 DEF BoundaryOK
<1>9. rio' # NoOne /\ (garbled' => failed')
  BY <1>1, <1>2 DEF BoundaryOK, Users
<1> QED
  BY <1>1, <1>2, <1>3, <1>4, <1>5, <1>6, <1>7, <1>8, <1>9, ReaderKeeps

LEMMA StreamFailsStep ==
    ASSUME ConnInv, NEW u \in Users, StreamFails(u)
    PROVE  ConnInv'
  BY ToError DEF StreamFails

LEMMA ReturnsErrorStep ==
    ASSUME ConnInv, NEW u \in Users, ReturnsError(u)
    PROVE  ConnInv'
<1>1. /\ Typed /\ BoundaryOK /\ user[u].pc = "error" /\ rio' = NoOne /\ failed' = TRUE
      /\ UNCHANGED <<incoming, frame, got, garbled>>
      /\ UNCHANGED <<outgoing, bufw, broken, wio, sends, closed>> /\ UNCHANGED <<peerDone, arrived>>
  BY DEF ConnInv, ReturnsError, Does, writeVars, peerVars
<1>2. Holds(u) /\ rio = u
  BY <1>1, HoldsRio
<1>3. OnlyOf(u) /\ user'[u].pc = "idle" /\ user'[u].call = "none"
  BY <1>1, NoWorkFields, UserSet DEF ReturnsError
<1>4. Typed'
  BY <1>1, <1>3 DEF Typed, OnlyOf
<1>5. Shifted(0)
  BY <1>1, SameStream
<1>6. /\ CallOK(u)' /\ MessageOK(u)' /\ ReaderOK(u)' /\ ~Holds(u)' /\ ~Pending(u)'
  BY <1>3 DEF CallOK, MessageOK, ReaderOK, Holds, Pending, ReadCalls, Holding, Writing
<1>7. GotOK'
  BY <1>1, <1>5, StillGot
<1>8. frame' # NoFrame => PayloadNext("data", frame)'
  <2>1. PayloadNext("data", frame) => PayloadNext("data", frame)'
    BY <1>1, StillNext
  <2> QED
    BY <1>1, <2>1 DEF BoundaryOK
<1>9. rio' # u
  BY <1>1 DEF Users
<1> QED
  BY <1>1, <1>2, <1>3, <1>4, <1>5, <1>6, <1>7, <1>8, <1>9, ReaderKeeps

\* Reading a payload to its end.
LEMMA Rests ==
    ASSUME Typed, StreamOK, NEW op, NEW n \in Nat, PayloadNext(op, n), incoming' = Rest(n),
           arrived' = arrived, peerDone => peerDone'
    PROVE  /\ Shifted(Available(n)) /\ Aligned'
           /\ Available(n) \in 0..Len(incoming)
           /\ Aligned => Available(n) = 0
           /\ ~Aligned => Available(n) = Left
           /\ \A number : ~Aligned /\ number = incoming[1].number => IsPast(number)'
<1>1. Available(n) = IF Aligned THEN 0 ELSE Left
  BY WholeNext
<1>2. Available(n) \in 0..Len(incoming)
  <2>1. ~Aligned => Left \in 1..Len(incoming)
    BY LeftFields
  <2> QED
    BY <1>1, <2>1, Lengths
<1>3. Shifted(Available(n))
  <2>1. incoming \in Seq(Unit)
    BY DEF Typed
  <2> QED
    BY <1>2, <2>1, SliceFields DEF Rest, Shifted
<1>4. CASE Aligned
  <2>1. Len(incoming') = Len(incoming) /\ \A i \in 1..Len(incoming') : incoming'[i] = incoming[i]
    BY <1>1, <1>3, <1>4, Lengths DEF Shifted, Typed
  <2>2. Aligned'
    BY <1>3, <1>4, <2>1 DEF Aligned, Typed, Shifted, IsHead
  <2> QED
    BY <1>1, <1>2, <1>3, <1>4, <2>2
<1>5. CASE ~Aligned
  <2>1. Shifted(Left)
    BY <1>1, <1>3, <1>5
  <2> QED
    BY <1>1, <1>2, <1>3, <1>5, <2>1, DropsPayload
<1> QED
  BY <1>4, <1>5

LEMMA LocksRioStep ==
    ASSUME ConnInv, NEW u \in Readers, LocksRio(u)
    PROVE  ConnInv'
<1>0. u \in Users
  BY DEF Users
<1>1. /\ Typed /\ BoundaryOK /\ StreamOK /\ user[u].pc = "rio" /\ rio = NoOne /\ rio' = u
      /\ UNCHANGED <<got, failed, garbled>>
      /\ UNCHANGED <<outgoing, bufw, broken, wio, sends, closed>> /\ UNCHANGED <<peerDone, arrived>>
      /\ CallOK(u) /\ MutexesOK
  BY <1>0 DEF ConnInv, LocksRio, Does, writeVars, peerVars
<1>2. user[u].call \in ReadCalls
  <2>1. user[u].call \in {"none", "write", "close"} \cup ReadCalls
    BY <1>0, <1>1, WorkFields
  <2> QED
    BY <1>0, <1>1, <2>1 DEF CallOK, Writing
<1>3. /\ wio # u /\ NoOne # u
      /\ frame # NoFrame => frame \in Nat
  BY <1>0, <1>1 DEF MutexesOK, Users, Typed
<1>4. PICK pc \in {"next", "body"} :
        /\ Goes(u, pc)
        /\ \/ pc = "next" /\ frame = NoFrame /\ UNCHANGED <<incoming, frame>>
           \/ pc = "next" /\ frame # NoFrame /\ incoming' = Rest(frame) /\ frame' = NoFrame
           \/ pc = "body" /\ frame # NoFrame /\ user[u].call # "receive" /\ UNCHANGED <<incoming, frame>>
  BY DEF LocksRio, Discards
<1>5. OnlyOf(u) /\ user'[u].pc = pc /\ user'[u].call = user[u].call
  BY <1>0, <1>1, <1>4, UserGoes DEF Holding
<1>6. PICK n : Shifted(n) /\ (pc = "next" /\ ~failed' => Aligned')
  <2>1. CASE UNCHANGED <<incoming, frame>>
    <3>1. Shifted(0) /\ (Aligned' <=> Aligned)
      BY <1>0, <1>1, <2>1, SameStream, StillNext
    <3>2. pc = "next" => frame = NoFrame
      BY <1>4, <2>1
    <3>3. pc = "next" /\ ~failed' => Aligned
      BY <1>0, <1>1, <3>2 DEF BoundaryOK
    <3> QED
      BY <3>1, <3>3
  <2>2. CASE frame # NoFrame /\ incoming' = Rest(frame) /\ frame' = NoFrame
    <3>1. PayloadNext("data", frame) /\ frame \in Nat
      BY <1>0, <1>1, <1>3, <2>2 DEF BoundaryOK
    <3> QED
      BY <1>0, <1>1, <2>2, <3>1, Rests
  <2> QED
    BY <1>4, <2>1, <2>2
<1>7. frame' # NoFrame => PayloadNext("data", frame)'
  <2>1. CASE UNCHANGED <<incoming, frame>>
    <3>1. PayloadNext("data", frame) => PayloadNext("data", frame)'
      BY <1>0, <1>1, <2>1, StillNext
    <3> QED
      BY <1>0, <1>1, <2>1, <3>1 DEF BoundaryOK
  <2> QED
    BY <1>4, <2>1
<1>8. incoming' \in Seq(Unit) /\ frame' \in {NoFrame} \cup Nat
  BY <1>0, <1>1, <1>4, <1>6 DEF Typed, Shifted
<1>9. Typed'
  BY <1>0, <1>1, <1>5, <1>8 DEF Typed, OnlyOf
<1>10. /\ CallOK(u)' /\ MessageOK(u)' /\ Holds(u)' /\ ~Pending(u)'
       /\ AtHead(u)' <=> pc = "next"
  BY <1>0, <1>2, <1>4, <1>5 DEF CallOK, MessageOK, Holds, Pending, AtHead, ReadCalls, Holding, Writing
<1>11. ReaderOK(u)'
  BY <1>0, <1>2, <1>4, <1>5 DEF ReaderOK, ReadCalls, Writing
<1>12. GotOK'
  BY <1>0, <1>1, <1>6, StillGot
<1>13. rio' # NoOne /\ (garbled' => failed') /\ user'[u].pc \notin {"data", "close"}
  BY <1>0, <1>1, <1>3, <1>4, <1>5 DEF BoundaryOK
<1> QED
  BY <1>0, <1>1, <1>3, <1>5, <1>6, <1>7, <1>9, <1>10, <1>11, <1>12, <1>13, ReaderKeeps

LEMMA TakesHeadStep ==
    ASSUME ConnInv, NEW u \in Users, TakesHead(u)
    PROVE  ConnInv'
<1>1. /\ Typed /\ BoundaryOK /\ StreamOK /\ user[u].pc = "next" /\ incoming # <<>>
      /\ UNCHANGED <<frame, rio, got, failed>>
      /\ UNCHANGED <<outgoing, bufw, broken, wio, sends, closed>> /\ UNCHANGED <<peerDone, arrived>>
      /\ ReaderOK(u)
  BY DEF ConnInv, TakesHead, Does, writeVars, peerVars
<1>2. Holds(u) /\ rio = u /\ user[u].call \in ReadCalls /\ wio # u /\ NoOne # u /\ frame = NoFrame
  <2>1. Holds(u) /\ rio = u /\ user[u].call \in ReadCalls /\ wio # u
    BY <1>1, HoldsRio
  <2> QED
    BY <1>1, <2>1 DEF ReaderOK, Users
<1>3. incoming[1] \in Unit /\ Head(incoming) = incoming[1] /\ incoming \in Seq(Unit) /\ Len(incoming) \in Nat
  BY <1>1 DEF Typed
<1>4. CASE IsHead(incoming[1])
  <2> DEFINE h == incoming[1]
             d == [user[u] EXCEPT !.pc = "handle", !.op = h.op, !.masked = h.masked, !.left = h.len]
  <2>1. incoming' = Tail(incoming) /\ garbled' = garbled /\ user' = [user EXCEPT ![u] = d]
    BY <1>3, <1>4 DEF TakesHead
  <2>2. h.op \in OpCodes /\ h.masked \in BOOLEAN /\ h.len \in Nat
    BY <1>3, <1>4, UnitFields
  <2> HIDE DEF h
  <2>3. d \in Work /\ d.pc = "handle" /\ d.call = user[u].call /\ d.op = h.op /\ d.left = h.len
    <3>1. user[u] \in Work
      BY <1>1, WorkFields
    <3> QED
      BY <2>2, <3>1 DEF Work, Holding
  <2> HIDE DEF d
  <2>4. /\ OnlyOf(u) /\ user'[u].pc = "handle" /\ user'[u].call = user[u].call
        /\ user'[u].op = h.op /\ user'[u].left = h.len
    BY <1>1, <2>1, <2>3, UserSet
  <2>5. Shifted(1)
    <3>1. 1 \in 0..Len(incoming)
      BY <1>1, <1>3
    <3> QED
      BY <1>1, <1>3, <2>1, <3>1, TailFields DEF Shifted
  <2>6. FrameNext(user[u].op, user[u].left)'
    <3>1. ASSUME NEW op, NEW len, op = h.op, len = h.len PROVE FrameNext(op, len)'
      BY <1>1, <1>4, <2>5, <3>1, DropsHead DEF h
    <3> QED
      BY <2>4, <3>1
  <2>7. Typed'
    BY <1>1, <2>1, <2>4, <2>5 DEF Typed, OnlyOf, Shifted
  <2>8. /\ CallOK(u)' /\ MessageOK(u)' /\ Holds(u)' /\ ~Pending(u)' /\ ~AtHead(u)'
    BY <1>2, <2>4 DEF CallOK, MessageOK, Holds, Pending, AtHead, ReadCalls, Holding, Writing
  <2>9. ReaderOK(u)'
    BY <1>1, <1>2, <2>4, <2>6 DEF ReaderOK
  <2>10. GotOK'
    BY <1>1, <2>5, StillGot
  <2>11. rio' # NoOne /\ (garbled' => failed') /\ user'[u].pc \notin {"data", "close"} /\ frame' = NoFrame
    BY <1>1, <1>2, <2>1, <2>4 DEF BoundaryOK
  <2> QED
    BY <1>1, <1>2, <2>4, <2>5, <2>7, <2>8, <2>9, <2>10, <2>11, ReaderKeeps
<1>5. CASE ~IsHead(incoming[1])
  <2>1. incoming' = <<>> /\ Goes(u, "error")
    BY <1>3, <1>5 DEF TakesHead
  <2>2. failed
    <3>1. AtHead(u) /\ ~Aligned
      BY <1>1, <1>2, <1>5 DEF AtHead, Aligned
    <3> QED
      BY <1>1, <3>1 DEF BoundaryOK, Typed
  <2>3. OnlyOf(u) /\ user'[u].pc = "error" /\ user'[u].call = user[u].call
    BY <1>1, <2>1, UserGoes DEF Holding
  <2>4. Shifted(Len(incoming))
    <3>1. incoming' \in Seq(Unit) /\ Len(incoming') = 0
      BY <2>1
    <3> QED
      BY <1>1, <1>3, <3>1 DEF Shifted
  <2>5. Typed'
    <3>1. incoming' \in Seq(Unit) /\ garbled' \in BOOLEAN
      <4>1. garbled' = TRUE
        BY <1>3, <1>5 DEF TakesHead
      <4> QED
        BY <2>4, <4>1 DEF Shifted
    <3> QED
      BY <1>1, <2>3, <3>1 DEF Typed, OnlyOf
  <2>6. /\ CallOK(u)' /\ MessageOK(u)' /\ Holds(u)' /\ ~Pending(u)' /\ ~AtHead(u)' /\ ReaderOK(u)'
    BY <1>2, <2>3 DEF CallOK, MessageOK, Holds, Pending, AtHead, ReadCalls, Holding, Writing, ReaderOK
  <2>7. GotOK'
    BY <1>1, <2>4, StillGot
  <2>8. rio' # NoOne /\ failed' /\ user'[u].pc \notin {"data", "close"} /\ frame' = NoFrame
    BY <1>1, <1>2, <2>2, <2>3
  <2> QED
    BY <1>1, <1>2, <2>3, <2>4, <2>5, <2>6, <2>7, <2>8, ReaderKeeps
<1> QED
  BY <1>4, <1>5

-----------------------------------------------------------------------------
(* HandleFrame. *)

\* The frame that is handled goes on to the caller.
LEMMA ToBody ==
    ASSUME ConnInv, NEW u \in Users, user[u].pc = "handle", Goes(u, "body"),
           user[u].op # "close", user[u].op # "ping", user[u].op # "pong",
           frame' = IF user[u].call = "read" THEN user[u].left ELSE NoFrame,
           UNCHANGED <<incoming, rio, got, failed, garbled, writeVars, peerVars, closed>>
    PROVE  ConnInv'
<1>1. /\ Typed /\ BoundaryOK /\ StreamOK /\ UNCHANGED <<incoming, rio, got, failed, garbled>>
      /\ UNCHANGED <<outgoing, bufw, broken, wio, sends, closed>> /\ UNCHANGED <<peerDone, arrived>>
      /\ ReaderOK(u)
  BY DEF ConnInv, writeVars, peerVars
<1>2. Holds(u) /\ rio = u /\ user[u].call \in ReadCalls /\ wio # u /\ NoOne # u
  BY HoldsRio DEF Users
<1>3. FrameNext(user[u].op, user[u].left) /\ user[u].left \in Nat
  BY <1>1, <1>2 DEF ReaderOK, FrameNext
<1>4. FrameNext("data", user[u].left)
  <2>1. ~Aligned => user[u].op = "data"
    <3> SUFFICES ASSUME ~Aligned PROVE user[u].op = "data"
      OBVIOUS
    <3>1. user[u].op = arrived[incoming[1].number].op
      BY <1>3 DEF FrameNext, PayloadNext, FrameOf
    <3>2. user[u].op \in OpCodes
      BY <1>1, <3>1, LeftFields, FrameFields
    <3> QED
      BY <3>2 DEF OpCodes
  <2> QED
    BY <1>3, <2>1 DEF FrameNext, PayloadNext
<1>5. /\ OnlyOf(u) /\ user'[u].pc = "body" /\ user'[u].call = user[u].call
      /\ user'[u].left = user[u].left
  BY <1>1, UserGoes DEF Holding
<1>6. Shifted(0)
  BY <1>1, SameStream
<1>7. FrameNext("data", user[u].left)'
  <2>1. \A n : FrameNext("data", n) => FrameNext("data", n)'
    BY <1>1, StillNext
  <2> QED
    BY <1>4, <1>5, <2>1
<1>8. frame' \in {NoFrame} \cup Nat /\ (user[u].call = "read" => frame' # NoFrame)
  BY <1>3 DEF NoFrame
<1>9. Typed'
  BY <1>1, <1>5, <1>8 DEF Typed, OnlyOf
<1>10. CallOK(u)' /\ MessageOK(u)' /\ Holds(u)' /\ ~Pending(u)' /\ ~AtHead(u)'
  BY <1>2, <1>5 DEF CallOK, MessageOK, Holds, Pending, AtHead, ReadCalls, Holding, Writing
<1>11. ReaderOK(u)'
  BY <1>5, <1>7, <1>8 DEF ReaderOK, Writing
<1>12. GotOK'
  BY <1>1, <1>6, StillGot
<1>13. frame' # NoFrame => PayloadNext("data", frame)'
  <2> SUFFICES ASSUME frame' # NoFrame PROVE PayloadNext("data", frame)'
    OBVIOUS
  <2>1. frame' = user'[u].left
    BY <1>5
  <2> QED
    BY <1>7, <2>1 DEF FrameNext
<1>14. rio' # NoOne /\ (garbled' => failed') /\ user'[u].pc \notin {"data", "close"}
  BY <1>1, <1>2, <1>5 DEF BoundaryOK
<1> QED
  BY <1>1, <1>2, <1>5, <1>6, <1>9, <1>10, <1>11, <1>12, <1>13, <1>14, ReaderKeeps

\* A frame with the wrong mask is answered with a close; its payload stays.
LEMMA ToClose ==
    ASSUME ConnInv, NEW u \in Users, user[u].pc = "handle", Answers(u, "close", Status(1002)),
           UNCHANGED <<incoming, frame, rio, got, failed, garbled, writeVars, peerVars, closed>>
    PROVE  ConnInv'
<1>1. /\ Typed /\ BoundaryOK /\ StreamOK /\ UNCHANGED <<incoming, frame, rio, got, failed, garbled>>
      /\ UNCHANGED <<outgoing, bufw, broken, wio, sends, closed>> /\ UNCHANGED <<peerDone, arrived>>
      /\ ReaderOK(u)
  BY DEF ConnInv, writeVars, peerVars
<1>2. Holds(u) /\ rio = u /\ user[u].call \in ReadCalls /\ wio # u /\ NoOne # u
  BY HoldsRio DEF Users
<1>3. Status(1002) \in Seq(Unit) /\ \A k \in DOMAIN Status(1002) : ~IsHead(Status(1002)[k])
  BY StatusFields
<1>4. /\ OnlyOf(u) /\ user'[u].pc = "wio" /\ user'[u].call = user[u].call
      /\ user'[u].op = "close" /\ user'[u].msg = Status(1002)
  BY <1>1, <1>3, UserAnswers DEF OpCodes
<1>5. frame = NoFrame
  BY <1>1, <1>2 DEF ReaderOK
<1>6. Shifted(0)
  BY <1>1, SameStream
<1>7. Typed'
  BY <1>1, <1>4 DEF Typed, OnlyOf
<1>8. CallOK(u)' /\ MessageOK(u)' /\ Holds(u)' /\ ~Pending(u)' /\ ~AtHead(u)' /\ ReaderOK(u)'
  BY <1>1, <1>2, <1>3, <1>4, <1>5
     DEF CallOK, MessageOK, Holds, Pending, AtHead, ReadCalls, Holding, Writing, ReaderOK
<1>9. GotOK'
  BY <1>1, <1>6, StillGot
<1>10. rio' # NoOne /\ (garbled' => failed') /\ user'[u].pc \notin {"data", "close"} /\ frame' = NoFrame
  BY <1>1, <1>2, <1>4, <1>5 DEF BoundaryOK
<1> QED
  BY <1>1, <1>2, <1>4, <1>6, <1>7, <1>8, <1>9, <1>10, ReaderKeeps

\* The payload of a ping is read and echoed.
LEMMA ToPong ==
    ASSUME ConnInv, NEW u \in Users, user[u].pc = "handle", user[u].op = "ping",
           user[u].left # 0, ~(Available(user[u].left) = 0 /\ peerDone), Whole(user[u].left),
           Answers(u, "pong", First(Min2(Available(user[u].left), MaxControl))),
           incoming' = Rest(user[u].left),
           UNCHANGED <<frame, rio, got, failed, garbled, writeVars, peerVars, closed>>
    PROVE  ConnInv'
<1>1. /\ Typed /\ BoundaryOK /\ StreamOK /\ UNCHANGED <<frame, rio, got, failed, garbled>>
      /\ UNCHANGED <<outgoing, bufw, broken, wio, sends, closed>> /\ UNCHANGED <<peerDone, arrived>>
      /\ ReaderOK(u) /\ PongsOK /\ ArrivedOK
  BY DEF ConnInv, writeVars, peerVars
<1>2. Holds(u) /\ rio = u /\ user[u].call \in ReadCalls /\ wio # u /\ NoOne # u
  BY HoldsRio DEF Users
<1> DEFINE n == user[u].left
<1>3. /\ n \in Nat /\ PayloadNext("ping", n) /\ (~Aligned => incoming[1].payload = 1)
      /\ frame = NoFrame
  BY <1>1, <1>2 DEF ReaderOK, FrameNext
<1>4. /\ Shifted(Available(n)) /\ Aligned'
      /\ Available(n) \in 0..Len(incoming)
      /\ Aligned => Available(n) = 0
      /\ ~Aligned => Available(n) = Left
      /\ \A number : ~Aligned /\ number = incoming[1].number => IsPast(number)'
  BY <1>1, <1>3, Rests
<1>5. ~Aligned /\ Available(n) = Left
  <2>1. Available(n) # 0
    BY <1>3 DEF Whole
  <2> QED
    BY <1>4, <2>1
<1> PICK number : number = incoming[1].number
  OBVIOUS
<1> DEFINE k == Min2(Available(n), MaxControl)
           msg == First(k)
<1>6. /\ number \in 1..Len(arrived) /\ Left \in 1..Len(incoming) /\ Len(incoming) \in Nat
      /\ \A m \in 1..Left : incoming[m] = DataUnit(number, m)
      /\ Len(UnitsOf(incoming[1])) = Left /\ incoming \in Seq(Unit)
  <2>1. /\ number \in 1..Len(arrived) /\ Left \in 1..Len(incoming) /\ Len(incoming) \in Nat
        /\ \A m \in 1..Left : incoming[m] = DataUnit(number, incoming[1].payload + m - 1)
        /\ Len(UnitsOf(incoming[1])) \in Nat
    BY <1>1, <1>5, LeftFields
  <2>2. incoming[1].payload = 1
    BY <1>3, <1>5
  <2>3. \A m \in 1..Left : 1 + m - 1 = m
    BY <2>1
  <2>4. Left = Len(UnitsOf(incoming[1])) - 1 + 1
    BY <2>2 DEF Left
  <2> QED
    BY <1>1, <2>1, <2>2, <2>3, <2>4 DEF Typed
<1>7. k \in 1..Left
  BY <1>5, <1>6 DEF Min2, WebSocketAssumption
<1>8. /\ msg \in Seq(Unit) /\ Len(msg) = k /\ msg # <<>>
      /\ \A m \in 1..k : msg[m] = DataUnit(number, m)
  <2>1. k \in 0..Len(incoming) /\ k > 0
    BY <1>6, <1>7
  <2> HIDE DEF k
  <2>2. msg \in Seq(Unit) /\ Len(msg) = k /\ \A m \in 1..k : msg[m] = incoming[m]
    BY <1>6, <2>1, FirstFields DEF First
  <2>3. \A m \in 1..k : m \in 1..Left
    BY <1>6, <1>7
  <2>4. msg # <<>>
    BY <2>1, <2>2
  <2> QED
    BY <1>6, <2>2, <2>3, <2>4
<1>9. /\ OnlyOf(u) /\ user'[u].pc = "wio" /\ user'[u].call = user[u].call
       /\ user'[u].op = "pong" /\ user'[u].msg = msg
  <2>1. Answers(u, "pong", msg) /\ msg \in Seq(Unit)
    BY <1>8
  <2> HIDE DEF msg
  <2> QED
    BY <1>1, <2>1, UserAnswers DEF OpCodes
<1> HIDE DEF msg, k
<1>10. msg[1].number = number /\ 1 \in 1..k /\ DOMAIN msg = 1..k
  <2>1. 1 \in 1..k /\ DOMAIN msg = 1..k
    BY <1>6, <1>7, <1>8
  <2>2. msg[1] = DataUnit(number, 1)
    BY <1>8, <2>1
  <2> QED
    BY <2>1, <2>2 DEF DataUnit
<1>11. arrived[number].op = "ping" /\ Len(msg) <= Len(arrived[number].units) /\ number \in Nat
  BY <1>3, <1>5, <1>6, <1>7, <1>8 DEF PayloadNext, FrameOf, UnitsOf
<1>12. Typed'
  BY <1>1, <1>4, <1>9 DEF Typed, OnlyOf, Shifted
<1>13. EchoOK(user[u].msg)'
  <2>1. IsPast(number)'
    BY <1>4, <1>5
  <2>2. ASSUME NEW m, m = msg PROVE EchoOK(m)'
    <3>1. /\ m \in Seq(Unit) /\ m # <<>> /\ m[1].number = number /\ number \in 1..Len(arrived') /\ arrived' = arrived
          /\ Len(m) = k /\ \A i \in 1..k : m[i] = DataUnit(number, i)
      BY <1>1, <1>6, <1>8, <1>10, <2>2
    <3> QED
      BY <1>8, <1>11, <2>1, <3>1 DEF EchoOK, FrameOf, UnitsOf
  <2> QED
    BY <1>9, <2>2
<1>14. ASSUME NEW i \in Pongs PROVE EchoOf(i) < user'[u].msg[1].number
  <2>1. EchoOK(Echo(i))
    BY <1>1 DEF PongsOK
  <2>2. IsPast(EchoOf(i)) /\ 1 \in DOMAIN incoming
    BY <1>6, <2>1 DEF EchoOK, EchoOf
  <2> QED
    BY <1>10, <1>9, <2>2 DEF IsPast
<1>15. \A m \in DOMAIN msg : ~IsHead(msg[m])
  BY <1>8, <1>10 DEF DataUnit, IsHead
<1>16. CallOK(u)' /\ MessageOK(u)' /\ Holds(u)' /\ ReaderOK(u)'
  BY <1>1, <1>2, <1>3, <1>9, <1>15
     DEF CallOK, MessageOK, Holds, ReadCalls, Holding, Writing, ReaderOK
<1>17. GotOK'
  BY <1>1, <1>4, StillGot
<1>18. rio' # NoOne /\ (garbled' => failed') /\ user'[u].pc \notin {"data", "close"} /\ frame' = NoFrame
  BY <1>1, <1>2, <1>3, <1>9 DEF BoundaryOK
<1> QED
  BY <1>1, <1>2, <1>4, <1>9, <1>12, <1>13, <1>14, <1>16, <1>17, <1>18, ReaderKeeps

LEMMA HandlesFrameStep ==
    ASSUME ConnInv, NEW u \in Users, HandlesFrame(u)
    PROVE  ConnInv'
<1>1. user[u].pc = "handle"
      /\ UNCHANGED <<rio, got, failed, garbled, writeVars, peerVars, closed>>
  BY DEF HandlesFrame, Does
<1>2. CASE ~RightMask(u)
  <2>1. Answers(u, "close", Status(1002)) /\ UNCHANGED <<incoming, frame>>
    BY <1>2 DEF HandlesFrame
  <2> QED
    BY <1>1, <2>1, ToClose
<1>3. CASE RightMask(u) /\ user[u].op \in {"close", "pong"}
  <2>1. Goes(u, "error") /\ UNCHANGED <<incoming, frame>>
    BY <1>3 DEF HandlesFrame, HandlesPong
  <2> QED
    BY <1>1, <2>1, ToError DEF readVars
<1>4. CASE RightMask(u) /\ user[u].op = "ping"
  <2>1. HandlesPing(u) /\ UNCHANGED frame
    BY <1>4 DEF HandlesFrame
  <2>2. CASE Goes(u, "error") /\ UNCHANGED incoming
    BY <1>1, <2>1, <2>2, ToError DEF readVars
  <2>3. CASE ~(user[u].left = 0 \/ (Available(user[u].left) = 0 /\ peerDone))
    <3>1. /\ Whole(user[u].left)
          /\ Answers(u, "pong", First(Min2(Available(user[u].left), MaxControl)))
          /\ incoming' = Rest(user[u].left)
      BY <2>1, <2>3 DEF HandlesPing
    <3> QED
      BY <1>1, <1>4, <2>1, <2>3, <3>1, ToPong
  <2> QED
    BY <2>1, <2>2, <2>3 DEF HandlesPing
<1>5. CASE RightMask(u) /\ user[u].op \notin {"close", "ping", "pong"}
  <2>1. /\ Goes(u, "body") /\ UNCHANGED incoming
        /\ frame' = IF user[u].call = "read" THEN user[u].left ELSE NoFrame
    BY <1>5 DEF HandlesFrame
  <2> QED
    BY <1>1, <1>5, <2>1, ToBody
<1> QED
  BY <1>2, <1>3, <1>4, <1>5

-----------------------------------------------------------------------------
(* What Read and Receive return. *)

LEMMA GotMore ==
    ASSUME ConnInv, NEW n, Shifted(n), NEW call \in ReadCalls,
           got' = Append(got, [call |-> call, units |-> First(n)]),
           \A k \in 1..n : FrameOf(incoming[k]).op = "data",
           call = "receive" /\ n > 0 => First(n) = UnitsOf(incoming[1])
    PROVE  GotOK' /\ got' \in Seq([call : ReadCalls, units : Seq(Unit)])
<1> DEFINE Call == [call : ReadCalls, units : Seq(Unit)]
           units == First(n)
           g == [call |-> call, units |-> units]
<1>1. /\ Typed /\ StreamOK /\ GotOK /\ incoming \in Seq(Unit) /\ n \in 0..Len(incoming)
      /\ Len(incoming) \in Nat /\ n \in Nat /\ arrived' = arrived
      /\ Len(incoming') = Len(incoming) - n
  BY Lengths DEF ConnInv, Shifted, Typed
<1>2. units \in Seq(Unit) /\ Len(units) = n /\ DOMAIN units = 1..n
      /\ \A k \in 1..n : units[k] = incoming[k] /\ k \in DOMAIN incoming
  BY <1>1, FirstFields DEF First
<1>3. ASSUME NEW k \in 1..n
      PROVE  /\ units[k].number \in 1..Len(arrived) /\ arrived[units[k].number].op = "data"
             /\ \A m \in 1..n : k < m => Before(units[k], units[m])
             /\ \A j \in DOMAIN incoming' : Before(units[k], incoming'[j])
  <2>1. units[k] = incoming[k] /\ k \in DOMAIN incoming
    BY <1>2
  <2>2. UnitOK(incoming[k]) /\ Ordered
    BY <1>1, <2>1 DEF StreamOK
  <2>3. units[k].number \in 1..Len(arrived) /\ arrived[units[k].number].op = "data"
    BY <2>1, <2>2 DEF UnitOK, FrameOf
  <2>4. \A m \in 1..n : k < m => Before(units[k], units[m])
    BY <1>2, <2>1, <2>2 DEF Ordered
  <2>5. ASSUME NEW j \in DOMAIN incoming' PROVE Before(units[k], incoming'[j])
    <3>1. j \in 1..Len(incoming') /\ j + n \in DOMAIN incoming /\ k < j + n
      BY <1>1 DEF Shifted
    <3>2. incoming'[j] = incoming[j + n]
      BY <3>1 DEF Shifted
    <3> QED
      BY <2>1, <2>2, <3>1, <3>2 DEF Ordered
  <2> QED
    BY <2>3, <2>4, <2>5
<1>4. ASSUME NEW i \in DOMAIN got, NEW k \in DOMAIN got[i].units
      PROVE  /\ got[i].units[k] \in Unit /\ got[i].units[k].number \in 1..Len(arrived)
             /\ \A j \in DOMAIN incoming : Before(got[i].units[k], incoming[j])
             /\ \A j \in DOMAIN incoming' : Before(got[i].units[k], incoming'[j])
  <2>1. /\ got[i].units[k] \in Unit /\ got[i].units[k].number \in 1..Len(arrived)
        /\ \A j \in DOMAIN incoming : Before(got[i].units[k], incoming[j])
    BY <1>1, GotFields DEF GotOK
  <2>2. \A u : (\A j \in DOMAIN incoming : Before(u, incoming[j]))
               => (\A j \in DOMAIN incoming' : Before(u, incoming'[j]))
    BY <1>1, ShiftKeeps
  <2> QED
    BY <2>1, <2>2
<1>5. ASSUME NEW i \in DOMAIN got, NEW k \in DOMAIN got[i].units, NEW m \in 1..n
      PROVE  Before(got[i].units[k], units[m])
  BY <1>2, <1>4
<1>6. g \in Call /\ g.call = call /\ g.units = units
  BY <1>2
<1>7. call = "receive" /\ units # <<>> => units = arrived[units[1].number].units
  <2> SUFFICES ASSUME call = "receive", units # <<>>
               PROVE  units = arrived[units[1].number].units
    OBVIOUS
  <2>1. n > 0 /\ 1 \in 1..n
    BY <1>1, <1>2
  <2>2. units[1] = incoming[1]
    BY <1>2, <2>1
  <2>3. units = UnitsOf(incoming[1])
    BY <2>1
  <2> HIDE DEF units
  <2> QED
    BY <2>2, <2>3 DEF UnitsOf
<1>8. /\ got \in Seq(Call) /\ got' = Append(got, g) /\ Len(got) \in Nat
  BY <1>1, Lengths DEF Typed
<1> HIDE DEF units, g, Call
<1>9. /\ got' \in Seq(Call) /\ DOMAIN got' = 1..(Len(got) + 1) /\ DOMAIN got = 1..Len(got)
      /\ \A i \in 1..Len(got) : got'[i] = got[i]
      /\ got'[Len(got) + 1] = g
  <2>1. /\ got' \in Seq(Call) /\ Len(got') = Len(got) + 1
        /\ \A i \in 1..Len(got) : got'[i] = got[i]
        /\ got'[Len(got) + 1] = g
    BY <1>6, <1>8, AppendFields
  <2> QED
    BY <1>8, <2>1
<1>10. DataInOrder
  BY <1>1 DEF GotOK
<1>11. ASSUME NEW i \in DOMAIN got'
       PROVE  /\ i \in Nat
              /\ \/ i \in DOMAIN got /\ got'[i] = got[i] /\ i < Len(got) + 1
                 \/ i = Len(got) + 1 /\ got'[i] = g
  BY <1>8, <1>9
<1>12. ASSUME NEW i \in DOMAIN got', NEW k \in DOMAIN got'[i].units
       PROVE  /\ got'[i].units[k].number \in 1..Len(arrived)
              /\ arrived[got'[i].units[k].number].op = "data"
              /\ \A j \in DOMAIN incoming' : Before(got'[i].units[k], incoming'[j])
              /\ \A m \in DOMAIN got'[i].units : k < m => Before(got'[i].units[k], got'[i].units[m])
              /\ \A j \in DOMAIN got' : i < j =>
                    \A m \in DOMAIN got'[j].units : Before(got'[i].units[k], got'[j].units[m])
  <2>1. CASE i \in DOMAIN got /\ got'[i] = got[i]
    <3>1. /\ got'[i].units[k].number \in 1..Len(arrived)
          /\ arrived[got'[i].units[k].number].op = "data"
          /\ \A j \in DOMAIN incoming' : Before(got'[i].units[k], incoming'[j])
          /\ \A m \in DOMAIN got'[i].units : k < m => Before(got'[i].units[k], got'[i].units[m])
      BY <1>4, <1>10, <2>1 DEF DataInOrder, FrameOf
    <3>2. ASSUME NEW j \in DOMAIN got', i < j, NEW m \in DOMAIN got'[j].units
          PROVE  Before(got'[i].units[k], got'[j].units[m])
      <4>1. CASE j \in DOMAIN got /\ got'[j] = got[j]
        BY <1>10, <2>1, <3>2, <4>1 DEF DataInOrder
      <4>2. CASE got'[j] = g
        BY <1>2, <1>5, <1>6, <2>1, <4>2
      <4> QED
        BY <1>11, <4>1, <4>2
    <3> QED
      BY <3>1, <3>2
  <2>2. CASE i = Len(got) + 1 /\ got'[i] = g
    <3>1. \A j \in DOMAIN got' : ~(i < j)
      BY <1>8, <1>9, <2>2
    <3>2. k \in 1..n /\ got'[i].units = units /\ DOMAIN units = 1..n
      BY <1>2, <1>6, <2>2
    <3> QED
      BY <1>3, <3>1, <3>2
  <2> QED
    BY <1>11, <2>1, <2>2
<1>13. ASSUME NEW i \in DOMAIN got', got'[i].call = "receive", got'[i].units # <<>>
       PROVE  got'[i].units = arrived[got'[i].units[1].number].units
  <2>1. CASE i \in DOMAIN got /\ got'[i] = got[i]
    BY <1>10, <1>13, <2>1 DEF DataInOrder, FrameOf
  <2>2. CASE got'[i] = g
    BY <1>6, <1>7, <1>13, <2>2
  <2> QED
    BY <1>11, <2>1, <2>2
<1>14. DataInOrder'
  <2> SUFFICES ASSUME NEW i \in DOMAIN got'
               PROVE  LET us == got'[i].units
        IN /\ \A k \in DOMAIN us :
                 /\ arrived'[us[k].number].op = "data"
                 /\ \A m \in DOMAIN us : k < m => Before(us[k], us[m])
                 /\ \A j \in DOMAIN got' : i < j =>
                       \A m \in DOMAIN got'[j].units : Before(us[k], got'[j].units[m])
           /\ got'[i].call = "receive" /\ us # <<>> => us = arrived'[us[1].number].units
    BY DEF DataInOrder, FrameOf, Before
  <2> QED
    BY <1>1, <1>12, <1>13
<1>15. GotOK'
  <2>1. \A i \in DOMAIN got' : \A k \in DOMAIN got'[i].units :
           /\ got'[i].units[k].number \in 1..Len(arrived)
           /\ \A j \in DOMAIN incoming' : Before(got'[i].units[k], incoming'[j])
    BY ONLY <1>12, Zenon
  <2>2. arrived' = arrived
    BY <1>1
  <2> QED
    BY ONLY <1>14, <2>1, <2>2 DEF GotOK, Before
<1> QED
  BY <1>9, <1>15 DEF Call

LEMMA ReadsBodyStep ==
    ASSUME ConnInv, NEW u \in Users, ReadsBody(u)
    PROVE  ConnInv'
<1>1. /\ Typed /\ BoundaryOK /\ StreamOK /\ user[u].pc = "body" /\ user[u].call = "read"
      /\ UNCHANGED <<failed, garbled>>
      /\ UNCHANGED <<outgoing, bufw, broken, wio, sends, closed>> /\ UNCHANGED <<peerDone, arrived>>
      /\ ReaderOK(u)
  BY DEF ConnInv, ReadsBody, Does, writeVars, peerVars
<1>2. Holds(u) /\ rio = u /\ user[u].call \in ReadCalls /\ wio # u /\ NoOne # u
  BY <1>1, HoldsRio DEF Users
<1>3. frame \in Nat /\ PayloadNext("data", frame)
  BY <1>1, <1>2 DEF ReaderOK, BoundaryOK, Typed
<1>4. CASE frame = 0 \/ (Available(frame) = 0 /\ peerDone)
  <2>1. frame' = NoFrame /\ Goes(u, "next") /\ UNCHANGED <<incoming, got, rio>>
    BY <1>4 DEF ReadsBody
  <2>2. OnlyOf(u) /\ user'[u].pc = "next" /\ user'[u].call = user[u].call
    BY <1>1, <2>1, UserGoes DEF Holding
  <2>3. Aligned
    <3> SUFFICES ASSUME ~Aligned PROVE FALSE
      OBVIOUS
    <3>1. Left >= 1 /\ Left \in Nat /\ frame >= Left
      BY <1>1, <1>3, LeftFields, Lengths DEF PayloadNext, Gives
    <3>2. Available(frame) = Left
      BY <1>1, <1>3, WholeNext
    <3> QED
      BY <1>4, <3>1, <3>2
  <2>4. Shifted(0) /\ Aligned'
    BY <1>1, <2>1, <2>3, SameStream, StillNext
  <2>5. Typed'
    BY <1>1, <2>1, <2>2 DEF Typed, OnlyOf
  <2>6. CallOK(u)' /\ MessageOK(u)' /\ Holds(u)' /\ ~Pending(u)' /\ ReaderOK(u)'
    BY <1>2, <2>1, <2>2 DEF CallOK, MessageOK, Holds, Pending, ReadCalls, Holding, Writing, ReaderOK
  <2>7. GotOK'
    BY <2>1, <2>4, StillGot
  <2>8. (garbled' => failed') /\ user'[u].pc \notin {"data", "close"}
    BY <1>1, <2>2 DEF BoundaryOK
  <2> QED
    BY <1>1, <1>2, <2>1, <2>2, <2>4, <2>5, <2>6, <2>7, <2>8, ReaderKeeps
<1>5. CASE ~(frame = 0 \/ (Available(frame) = 0 /\ peerDone))
  <2>1. /\ Available(frame) > 0 /\ frame' = frame - 1 /\ incoming' = Tail(incoming)
        /\ Gets(u, First(1))
    BY <1>5 DEF ReadsBody
  <2>2. ~Aligned
    BY <1>1, <1>3, <2>1, NothingAvailable
  <2>3. incoming \in Seq(Unit) /\ incoming # <<>> /\ Len(incoming) \in Nat
    BY <1>1, <2>2, LeftFields DEF Typed
  <2>4. Shifted(1)
    <3>1. 1 \in 0..Len(incoming)
      BY <2>3
    <3> QED
      BY <1>1, <2>1, <2>3, <3>1, TailFields DEF Shifted
  <2>5. PayloadNext("data", frame)' /\ frame' \in Nat /\ FrameOf(incoming[1]).op = "data"
    <3>1. ASSUME NEW n \in Nat, n = frame
          PROVE  PayloadNext("data", n - 1)' /\ n - 1 \in Nat /\ FrameOf(incoming[1]).op = "data"
      BY <1>1, <1>3, <2>2, <2>4, <3>1, DropsUnit
    <3>2. PICK n \in Nat : n = frame
      BY <1>3
    <3>3. frame' = n - 1 /\ n - 1 \in Nat
      BY <2>1, <3>1, <3>2
    <3>4. PayloadNext("data", n - 1)'
      BY <3>1, <3>2
    <3>5. PayloadNext("data", frame)' <=> PayloadNext("data", n - 1)'
      BY <3>3 DEF PayloadNext, Gives
    <3> QED
      BY <3>1, <3>2, <3>3, <3>4, <3>5
  <2>6. OnlyOf(u) /\ user'[u].pc = "idle" /\ user'[u].call = "none" /\ rio' = NoOne
    BY <1>1, <2>1, NoWorkFields, UserSet DEF Gets
  <2>7. GotOK' /\ got' \in Seq([call : ReadCalls, units : Seq(Unit)])
    <3>1. got' = Append(got, [call |-> "read", units |-> First(1)]) /\ "read" \in ReadCalls
      BY <1>1, <2>1 DEF Gets, ReadCalls
    <3>2. \A k \in 1..1 : FrameOf(incoming[k]).op = "data"
      BY <2>5
    <3> QED
      BY <2>4, <3>1, <3>2, GotMore
  <2>8. Typed'
    BY <1>1, <2>4, <2>5, <2>6, <2>7 DEF Typed, OnlyOf, Shifted
  <2>9. CallOK(u)' /\ MessageOK(u)' /\ ~Holds(u)' /\ ~Pending(u)' /\ ReaderOK(u)'
    BY <2>6 DEF CallOK, MessageOK, Holds, Pending, ReadCalls, Holding, Writing, ReaderOK
  <2>10. /\ garbled' => failed'
         /\ user'[u].pc \notin {"data", "close"} /\ frame' # NoFrame /\ ~AtHead(u)'
    BY <1>1, <2>5, <2>6, <2>9 DEF BoundaryOK, NoFrame, AtHead
  <2> QED
    BY <1>1, <1>2, <2>4, <2>5, <2>6, <2>7, <2>8, <2>9, <2>10, ReaderKeeps
<1> QED
  BY <1>4, <1>5

LEMMA ReceivesBodyStep ==
    ASSUME ConnInv, NEW u \in Users, ReceivesBody(u)
    PROVE  ConnInv'
<1>1. /\ Typed /\ BoundaryOK /\ StreamOK /\ ArrivedOK
      /\ user[u].pc = "body" /\ user[u].call = "receive"
      /\ UNCHANGED <<frame, failed, garbled>>
      /\ UNCHANGED <<outgoing, bufw, broken, wio, sends, closed>> /\ UNCHANGED <<peerDone, arrived>>
      /\ ReaderOK(u)
  BY DEF ConnInv, ReceivesBody, Does, writeVars, peerVars
<1>2. Holds(u) /\ rio = u /\ user[u].call \in ReadCalls /\ wio # u /\ NoOne # u
  BY <1>1, HoldsRio DEF Users
<1> DEFINE n == user[u].left
<1>3. n \in Nat /\ PayloadNext("data", n) /\ (~Aligned => incoming[1].payload = 1) /\ frame = NoFrame
  BY <1>1, <1>2 DEF ReaderOK, FrameNext
<1>4. /\ incoming' = Rest(n) /\ rio' = NoOne /\ user' = [user EXCEPT ![u] = NoWork]
      /\ got' = Append(got, [call |-> "receive", units |-> First(Available(n))])
  BY <1>1 DEF ReceivesBody, Gets
<1>5. /\ Shifted(Available(n)) /\ Aligned'
      /\ Available(n) \in 0..Len(incoming)
      /\ Aligned => Available(n) = 0
      /\ ~Aligned => Available(n) = Left
  BY <1>1, <1>3, <1>4, Rests
<1>6. OnlyOf(u) /\ user'[u].pc = "idle" /\ user'[u].call = "none"
  BY <1>1, <1>4, NoWorkFields, UserSet
<1> HIDE DEF n
<1>7. /\ \A k \in 1..Available(n) : FrameOf(incoming[k]).op = "data"
      /\ Available(n) > 0 => First(Available(n)) = UnitsOf(incoming[1])
  <2>1. CASE Aligned
    BY <1>5, <2>1
  <2>2. CASE ~Aligned
    <3> PICK number : number = incoming[1].number
      OBVIOUS
    <3> DEFINE units == arrived[number].units
    <3>1. /\ number \in 1..Len(arrived) /\ Left \in 1..Len(incoming) /\ Len(incoming) \in Nat
          /\ \A m \in 1..Left : incoming[m] = DataUnit(number, incoming[1].payload + m - 1)
          /\ Left = Len(units) - incoming[1].payload + 1 /\ Len(units) \in Nat
          /\ incoming[1].payload = 1
      BY <1>1, <1>3, <2>2, LeftFields DEF Left, UnitsOf
    <3>2. \A m \in 1..Left : 1 + m - 1 = m
      BY <3>1
    <3>3. \A m \in 1..Left : incoming[m] = DataUnit(number, m) /\ incoming[m].number = number
      BY <3>1, <3>2 DEF DataUnit
    <3>4. Len(units) = Left
      <4> HIDE DEF units
      <4> QED BY <3>1
    <3>5. arrived[number].op = "data"
      BY <1>3, <2>2 DEF PayloadNext, FrameOf
    <3>6. units \in Seq(Unit) /\ \A m \in 1..Left : units[m] = DataUnit(number, m)
      <4>1. units \in Seq(Unit) /\ DOMAIN units = 1..Left /\ number \in DOMAIN arrived
        <5>1. number \in 1..Len(arrived)
          BY ONLY <3>1
        <5>2. units \in Seq(Unit)
          BY ONLY <1>1, <5>1, FrameFields
        <5>3. DOMAIN arrived = 1..Len(arrived)
          BY ONLY <1>1 DEF Typed
        <5> HIDE DEF units
        <5>4. DOMAIN units = 1..Left
          BY ONLY <3>4, <5>2
        <5> QED
          BY ONLY <5>1, <5>2, <5>3, <5>4
      <4> QED
        BY <1>1, <4>1 DEF ArrivedOK
    <3>7. /\ First(Left) \in Seq(Unit) /\ Len(First(Left)) = Left
          /\ \A m \in 1..Left : First(Left)[m] = incoming[m]
      <4>1. incoming \in Seq(Unit) /\ Left \in 0..Len(incoming)
        BY <1>1, <3>1 DEF Typed
      <4> QED
        BY <4>1, FirstFields DEF First
    <3>8. First(Left) = units
      <4> HIDE DEF units, First
      <4>1. \A m \in 1..Left : First(Left)[m] = units[m]
        BY <3>3, <3>6, <3>7
      <4> QED
        BY <3>4, <3>6, <3>7, <4>1
    <3> QED
      BY <1>5, <2>2, <3>3, <3>5, <3>8 DEF FrameOf, UnitsOf
  <2> QED
    BY <2>1, <2>2
<1>8. GotOK' /\ got' \in Seq([call : ReadCalls, units : Seq(Unit)])
  BY <1>4, <1>5, <1>7, GotMore DEF ReadCalls
<1>9. Typed'
  BY <1>1, <1>4, <1>5, <1>6, <1>8 DEF Typed, OnlyOf, Shifted
<1>10. CallOK(u)' /\ MessageOK(u)' /\ ~Holds(u)' /\ ~Pending(u)' /\ ReaderOK(u)'
  BY <1>6 DEF CallOK, MessageOK, Holds, Pending, ReadCalls, Holding, Writing, ReaderOK
<1>11. (garbled' => failed') /\ user'[u].pc \notin {"data", "close"} /\ frame' = NoFrame
  BY <1>1, <1>3, <1>6 DEF BoundaryOK
<1> QED
  BY <1>1, <1>2, <1>4, <1>5, <1>6, <1>8, <1>9, <1>10, <1>11, ReaderKeeps

-----------------------------------------------------------------------------
(* Steps of the peer. *)

LEMMA PeerKeeps ==
    ASSUME ConnInv, Typed', Moves, StreamOK', ArrivedOK',
           UNCHANGED <<frame, rio, got, failed, garbled, writeVars, closed, user>>,
           Aligned => Aligned', \A op, n : PayloadNext(op, n) => PayloadNext(op, n)',
           \A op, n : FrameNext(op, n) => FrameNext(op, n)'
    PROVE  ConnInv'
<1>1. UNCHANGED <<frame, rio, got, failed, garbled, outgoing, bufw, broken, wio, sends, closed, user>>
  BY DEF writeVars
<1>2. /\ Typed /\ MutexesOK /\ BufferOK /\ FramesAreWhole /\ ClosingOK /\ BoundaryOK /\ PongsOK /\ GotOK
      /\ \A w \in Users : CallOK(w) /\ MessageOK(w) /\ ReaderOK(w)
  BY DEF ConnInv
<1>3. \A w \in Users : (Holds(w)' <=> Holds(w)) /\ (Pending(w)' <=> Pending(w)) /\ (AtHead(w)' <=> AtHead(w))
  BY <1>1 DEF Holds, Pending, AtHead
<1>4. MutexesOK' /\ \A w \in Users : CallOK(w)' /\ MessageOK(w)'
  BY <1>1, <1>2, <1>3 DEF MutexesOK, CallOK, MessageOK
<1>5. ASSUME NEW w \in Users PROVE ReaderOK(w)'
  <2>1. ReaderOK(w)
    BY <1>2
  <2>2. /\ FrameNext(user[w].op, user[w].left) => FrameNext(user[w].op, user[w].left)'
        /\ FrameNext("data", user[w].left) => FrameNext("data", user[w].left)'
    BY <1>1
  <2> QED
    BY <1>1, <1>3, <2>1, <2>2 DEF ReaderOK
<1>6. BufferOK' /\ FramesAreWhole' /\ ClosingOK'
  <2>1. \A w \in Users : HeadOf(w)' = HeadOf(w)
    BY <1>1 DEF HeadOf
  <2>2. CloseFrameSent' <=> CloseFrameSent
    BY <1>1 DEF CloseFrameSent
  <2> QED
    BY <1>1, <1>2, <2>1, <2>2 DEF BufferOK, FramesAreWhole, ClosingOK
<1>7. BoundaryOK'
  <2>1. PayloadNext("data", frame) => PayloadNext("data", frame)'
    BY <1>1
  <2> QED
    BY <1>1, <1>2, <1>3, <2>1 DEF BoundaryOK
<1>8. PongsOK'
  <2>1. Pongs' = Pongs /\ \A i : Echo(i)' = Echo(i) /\ EchoOf(i)' = EchoOf(i)
    BY <1>1 DEF Pongs, Echo, EchoOf
  <2>2. \A msg : EchoOK(msg) => EchoOK(msg)'
    BY <1>2, EchoKeeps
  <2>3. ASSUME NEW i \in Pongs PROVE EchoOK(Echo(i))'
    BY <1>2, <2>1, <2>2 DEF PongsOK
  <2>4. ASSUME NEW w \in Users, Pending(w)
        PROVE  EchoOK(user[w].msg)' /\ \A i \in Pongs : EchoOf(i) < user'[w].msg[1].number
    <3>1. EchoOK(user[w].msg) /\ \A i \in Pongs : EchoOf(i) < user[w].msg[1].number
      BY <1>2, <2>4 DEF PongsOK
    <3> QED
      BY <1>1, <2>2, <3>1
  <2> QED
    BY <1>2, <1>3, <2>1, <2>3, <2>4 DEF PongsOK
<1>9. GotOK'
  BY <1>1, <1>2, GotKeeps
<1> QED
  BY <1>4, <1>5, <1>6, <1>7, <1>8, <1>9 DEF ConnInv

LEMMA PeerEndsStep ==
    ASSUME ConnInv, PeerEnds
    PROVE  ConnInv'
<1>1. /\ Typed /\ StreamOK /\ ArrivedOK
      /\ peerDone' = TRUE /\ UNCHANGED <<incoming, arrived>>
      /\ UNCHANGED <<frame, rio, got, failed, garbled, outgoing, bufw, broken, wio, sends, closed, user>>
  BY DEF ConnInv, PeerEnds, readVars, writeVars
<1>2. Typed'
  BY <1>1 DEF Typed
<1>3. Shifted(0)
  BY <1>1, SameStream
<1>4. Moves /\ StreamOK' /\ ArrivedOK'
  BY <1>1, <1>3, ShiftMoves, ShiftKeeps DEF ArrivedOK
<1>5. /\ Aligned => Aligned'
      /\ \A op, n : PayloadNext(op, n) => PayloadNext(op, n)'
      /\ \A op, n : FrameNext(op, n) => FrameNext(op, n)'
  BY <1>1, StillNext
<1> QED
  BY <1>1, <1>2, <1>4, <1>5, PeerKeeps DEF writeVars

\* What a frame of the peer adds to the stream.
Sent(op, n, cut, number) ==
    /\ Len(incoming') = Len(incoming) + 1 + cut
    /\ \A i \in 1..Len(incoming) : incoming'[i] = incoming[i]
    /\ LET h == incoming'[Len(incoming) + 1]
       IN IsHead(h) /\ h.op = op /\ h.len = n /\ h.number = number /\ h.payload = 0
    /\ \A k \in 1..cut : incoming'[Len(incoming) + 1 + k] = DataUnit(number, k)
    /\ Len(arrived') = number
    /\ \A f \in 1..Len(arrived) : arrived'[f] = arrived[f]
    /\ arrived'[number].op = op /\ Len(arrived'[number].units) = cut
    /\ \A k \in 1..cut : arrived'[number].units[k] = DataUnit(number, k)
    /\ DOMAIN arrived'[number].units = 1..cut

LEMMA SendFields ==
    ASSUME Typed, NEW op \in OpCodes, NEW right \in BOOLEAN, NEW n \in Nat, NEW cut \in 0..n,
           PeerSends(op, right, n, cut), NEW number, number = Len(arrived) + 1
    PROVE  /\ incoming' \in Seq(Unit) /\ arrived' \in Seq([op : OpCodes, units : Seq(Unit)])
           /\ Sent(op, n, cut, number)
<1> DEFINE units == [k \in 1..cut |-> DataUnit(number, k)]
           h == HeadUnit(op, right = Server, n, number)
           Frame == [op : OpCodes, units : Seq(Unit)]
           f == [op |-> op, units |-> units]
<1>1. incoming' = (incoming \o <<h>>) \o units /\ arrived' = Append(arrived, f)
  BY DEF PeerSends
<1>2. incoming \in Seq(Unit) /\ Len(incoming) \in Nat /\ Len(arrived) \in Nat /\ number \in Nat
      /\ arrived \in Seq(Frame)
  BY Lengths DEF Typed
<1>3. cut \in Nat
  OBVIOUS
<1>4. units \in Seq(Unit) /\ Len(units) = cut /\ DOMAIN units = 1..cut
      /\ \A k \in 1..cut : units[k] = DataUnit(number, k)
  <2>1. \A k \in 1..cut : DataUnit(number, k) \in Unit
    BY <1>2, <1>3, UnitTypes
  <2> HIDE DEF Frame
  <2> QED
    BY <1>3, <2>1
<1>5. h \in Unit /\ IsHead(h) /\ h.op = op /\ h.len = n /\ h.number = number /\ h.payload = 0
  <2>1. (right = Server) \in BOOLEAN
    OBVIOUS
  <2>2. h \in Unit /\ IsHead(h)
    BY <1>2, <2>1, UnitTypes
  <2> QED
    BY <2>2 DEF HeadUnit
<1>6. f \in Frame /\ f.op = op /\ f.units = units
  BY <1>4
<1> HIDE DEF units, h, Frame, f
<1>7. /\ arrived' \in Seq(Frame) /\ Len(arrived') = Len(arrived) + 1
      /\ \A i \in 1..Len(arrived) : arrived'[i] = arrived[i]
      /\ arrived'[Len(arrived) + 1] = f
  BY <1>1, <1>2, <1>6, AppendFields
<1> DEFINE a == incoming \o <<h>>
<1>8. /\ a \in Seq(Unit) /\ Len(a) = Len(incoming) + 1
      /\ \A i \in 1..Len(incoming) : a[i] = incoming[i]
      /\ a[Len(incoming) + 1] = h
  <2>1. <<h>> \in Seq(Unit) /\ Len(<<h>>) = 1 /\ <<h>>[1] = h /\ 1 \in 1..1
    BY <1>5
  <2>2. /\ a \in Seq(Unit) /\ Len(a) = Len(incoming) + Len(<<h>>)
        /\ \A i \in 1..Len(incoming) : a[i] = incoming[i]
        /\ \A i \in 1..Len(<<h>>) : a[Len(incoming) + i] = <<h>>[i]
    BY <1>2, <2>1, JoinFields
  <2> QED
    BY <2>1, <2>2
<1>9. incoming' = a \o units
  BY <1>1
<1> HIDE DEF a
<1>10. /\ incoming' \in Seq(Unit) /\ Len(incoming') = Len(a) + Len(units)
       /\ \A i \in 1..Len(a) : incoming'[i] = a[i]
       /\ \A i \in 1..Len(units) : incoming'[Len(a) + i] = units[i]
  <2>1. /\ a \o units \in Seq(Unit) /\ Len(a \o units) = Len(a) + Len(units)
        /\ \A i \in 1..Len(a) : (a \o units)[i] = a[i]
        /\ \A i \in 1..Len(units) : (a \o units)[Len(a) + i] = units[i]
    <3>1. a \in Seq(Unit) /\ units \in Seq(Unit)
      BY <1>4, <1>8
    <3> QED
      BY <3>1, JoinFields
  <2> QED
    BY <1>9, <2>1
<1>11. /\ Len(incoming') = Len(incoming) + 1 + cut
       /\ \A i \in 1..Len(incoming) : incoming'[i] = incoming[i]
       /\ incoming'[Len(incoming) + 1] = h
       /\ \A k \in 1..cut : incoming'[Len(incoming) + 1 + k] = DataUnit(number, k)
  <2>1. /\ Len(incoming) \in Nat /\ Len(a) = Len(incoming) + 1 /\ Len(units) = cut
        /\ Len(incoming) + 1 \in 1..Len(a)
    BY ONLY <1>2, <1>4, <1>8
  <2>2. Len(incoming') = Len(incoming) + 1 + cut
    BY ONLY <1>10, <2>1
  <2>3. ASSUME NEW i \in 1..Len(incoming) PROVE incoming'[i] = incoming[i]
    <3>1. i \in 1..Len(a)
      BY ONLY <2>1, i \in 1..Len(incoming)
    <3> QED BY ONLY <1>8, <1>10, <3>1, i \in 1..Len(incoming)
  <2>4. incoming'[Len(incoming) + 1] = h
    BY ONLY <1>8, <1>10, <2>1
  <2>5. ASSUME NEW k \in 1..cut
        PROVE  incoming'[Len(incoming) + 1 + k] = DataUnit(number, k)
    <3>1. incoming'[Len(a) + k] = units[k]
      BY ONLY <1>10, <2>1, k \in 1..cut
    <3>2. units[k] = DataUnit(number, k)
      BY ONLY <1>4, k \in 1..cut
    <3> QED BY ONLY <2>1, <3>1, <3>2
  <2> QED BY ONLY <2>2, <2>3, <2>4, <2>5
<1>12. /\ Len(arrived') = number /\ arrived'[number].op = op /\ arrived'[number].units = units
  BY <1>2, <1>6, <1>7
<1>13. Sent(op, n, cut, number)
  BY <1>4, <1>5, <1>7, <1>11, <1>12 DEF Sent
<1> QED
  BY <1>7, <1>10, <1>13 DEF Frame

\* What was sent before is as it was; the frame comes after it.
LEMMA SentKeeps ==
    ASSUME Typed, StreamOK, ArrivedOK, incoming' \in Seq(Unit), ~peerDone,
           arrived' \in Seq([op : OpCodes, units : Seq(Unit)]),
           NEW op, NEW n \in Nat, NEW cut \in 0..n, NEW number, number = Len(arrived) + 1,
           Sent(op, n, cut, number), peerDone' <=> cut < n
    PROVE  StreamOK' /\ ArrivedOK' /\ Moves
<1> DEFINE L == Len(incoming)
<1>0. /\ L \in Nat /\ Len(arrived) \in Nat /\ number \in Nat /\ cut \in Nat /\ cut <= n
      /\ incoming \in Seq(Unit) /\ Len(incoming') \in Nat
      /\ Len(incoming') = L + 1 + cut /\ Len(arrived') = number
  BY Lengths DEF Typed, Sent
<1>1. \A f \in 1..Len(arrived) : arrived'[f] = arrived[f] /\ f \in 1..number /\ f < number
  BY <1>0 DEF Sent
<1>2. \A i \in 1..L : incoming'[i] = incoming[i]
  BY DEF Sent
<1>3. \A k \in 1..cut : incoming'[L + 1 + k] = DataUnit(number, k)
  BY DEF Sent
<1>4. /\ IsHead(incoming'[L + 1]) /\ incoming'[L + 1].op = op /\ incoming'[L + 1].len = n
      /\ incoming'[L + 1].number = number /\ incoming'[L + 1].payload = 0
  BY DEF Sent
<1>5. /\ arrived'[number].op = op /\ Len(arrived'[number].units) = cut
      /\ \A k \in 1..cut : arrived'[number].units[k] = DataUnit(number, k)
      /\ DOMAIN arrived'[number].units = 1..cut
  BY DEF Sent
<1> HIDE DEF L
\* Where a unit is.
<1>6. ASSUME NEW i \in DOMAIN incoming'
      PROVE  \/ i \in 1..L /\ incoming'[i] = incoming[i]
             \/ i = L + 1
             \/ \E k \in 1..cut : i = L + 1 + k
  <2>1. i \in 1..(L + 1 + cut)
    BY <1>0
  <2>2. CASE i \in 1..L
    BY <1>2, <2>2
  <2>3. CASE i = L + 1
    BY <2>3
  <2>4. CASE i > L + 1
    <3>1. i - (L + 1) \in 1..cut /\ i = L + 1 + (i - (L + 1))
      BY <1>0, <2>1, <2>4
    <3> QED
      BY <3>1
  <2> QED
    BY <1>0, <2>1, <2>2, <2>3, <2>4
<1>7. ASSUME NEW i \in 1..L
      PROVE  /\ incoming[i] \in Unit /\ incoming[i].number \in 1..Len(arrived)
             /\ arrived'[incoming[i].number] = arrived[incoming[i].number]
             /\ Len(UnitsOf(incoming[i])) \in Nat /\ incoming[i].payload \in Nat
             /\ incoming[i].payload <= Len(UnitsOf(incoming[i]))
             /\ UnitOK(incoming[i]) /\ GoesOn(i) /\ i \in DOMAIN incoming
  <2>1. UnitOK(incoming[i]) /\ GoesOn(i) /\ incoming[i] \in Unit /\ i \in DOMAIN incoming
    BY <1>0 DEF StreamOK, L
  <2>2. incoming[i].number \in 1..Len(arrived) /\ incoming[i].payload <= Len(UnitsOf(incoming[i]))
    BY <2>1 DEF UnitOK
  <2> QED
    BY <1>1, <2>1, <2>2, UnitFields, FrameFields DEF UnitsOf
<1>8. ASSUME NEW k \in 1..cut
      PROVE  /\ incoming'[L + 1 + k].op = "payload" /\ incoming'[L + 1 + k].number = number
             /\ incoming'[L + 1 + k].payload = k /\ ~IsHead(incoming'[L + 1 + k])
  <2>1. incoming'[L + 1 + k] = DataUnit(number, k)
    BY <1>3
  <2> QED
    BY <2>1 DEF DataUnit, IsHead
<1>9. ASSUME NEW i \in DOMAIN incoming' PROVE UnitOK(incoming[i])'
  <2>1. CASE i \in 1..L /\ incoming'[i] = incoming[i]
    <3>1. UnitOK(incoming[i])
      BY <1>7, <2>1
    <3>2. IsHead(incoming[i]) =>
             LET m == Len(arrived[incoming[i].number].units)
             IN incoming[i].len >= m /\ ~(incoming[i].len > m)
      BY <3>1 DEF UnitOK, Gives, UnitsOf
    <3>3. /\ incoming[i].number \in 1..number
          /\ incoming[i].payload <= Len(arrived[incoming[i].number].units)
          /\ IsHead(incoming[i]) => /\ incoming[i].payload = 0
                                    /\ incoming[i].op = arrived[incoming[i].number].op
          /\ ~IsHead(incoming[i]) => /\ incoming[i].payload > 0
                                     /\ incoming[i] = DataUnit(incoming[i].number, incoming[i].payload)
      BY <1>1, <1>7, <2>1, <3>1 DEF UnitOK, UnitsOf, FrameOf
    <3> QED
      BY <1>0, <1>7, <2>1, <3>2, <3>3 DEF UnitOK, Gives, UnitsOf, FrameOf, IsHead
  <2>2. CASE i = L + 1
    <3>1. /\ IsHead(incoming'[i]) /\ incoming'[i].op = op /\ incoming'[i].len = n
          /\ incoming'[i].number = number /\ incoming'[i].payload = 0
      BY ONLY <1>4, <2>2
    <3>2. number \in 1..Len(arrived') /\ 0 <= cut /\ Gives(n, cut)'
      BY <1>0 DEF Gives
    <3>3. FrameOf(incoming[i])' = arrived'[number] /\ UnitsOf(incoming[i])' = arrived'[number].units
      BY ONLY <3>1 DEF FrameOf, UnitsOf
    <3> QED
      BY ONLY <1>5, <3>1, <3>2, <3>3 DEF UnitOK, Gives, IsHead
  <2>3. CASE \E k \in 1..cut : i = L + 1 + k
    <3> PICK k \in 1..cut : i = L + 1 + k
      BY <2>3
    <3>1. k <= cut /\ k > 0 /\ number \in 1..number
      BY <1>0
    <3> QED
      <4>1. /\ FrameOf(incoming[i])' = arrived'[number] /\ ~IsHead(incoming[i])'
            /\ incoming'[i].number = number /\ incoming'[i].payload = k
        BY ONLY <1>8, i = L + 1 + k, k \in 1..cut DEF FrameOf, IsHead
      <4>2. UnitsOf(incoming[i])' = arrived'[number].units
        BY ONLY <4>1 DEF UnitsOf, FrameOf
      <4>3. number \in 1..Len(arrived') /\ incoming'[i] = DataUnit(number, k)
        BY <1>0, <1>3
      <4> QED
        BY ONLY <1>5, <3>1, <4>1, <4>2, <4>3 DEF UnitOK, IsHead
  <2> QED
    BY <1>6, <2>1, <2>2, <2>3
<1>10. ASSUME NEW i \in DOMAIN incoming' PROVE GoesOn(i)'
  <2>1. CASE i \in 1..L /\ incoming'[i] = incoming[i]
    <3> DEFINE u == incoming[i]
               rest == Len(arrived[u.number].units) - u.payload
    <3>1. rest \in Nat /\ GoesOn(i) /\ arrived'[u.number] = arrived[u.number]
      <4>1. /\ arrived'[u.number] = arrived[u.number] /\ GoesOn(i)
            /\ Len(UnitsOf(u)) \in Nat /\ u.payload \in Nat /\ u.payload <= Len(UnitsOf(u))
        BY ONLY <1>7, <2>1
      <4>2. UnitsOf(u) = arrived[u.number].units
        BY ONLY DEF UnitsOf, FrameOf
      <4> HIDE DEF u
      <4> QED BY ONLY <4>1, <4>2
    <3>2. /\ i + rest <= L
          /\ \A m \in 1..rest : incoming[i + m] = DataUnit(u.number, u.payload + m)
          /\ i + rest < L => IsHead(incoming[i + rest + 1])
      BY <3>1 DEF GoesOn, UnitsOf, L
    <3>3. rest = Len(arrived'[incoming'[i].number].units) - incoming'[i].payload /\ u = incoming'[i]
      BY <2>1, <3>1
    <3> HIDE DEF rest, u
    <3>7. i \in Nat /\ i >= 1 /\ rest \in Nat /\ L \in Nat /\ i + rest <= L
      BY <1>0, <2>1, <3>1, <3>2
    <3>4. i + rest < Len(incoming') /\ i + rest <= Len(incoming')
      BY <1>0, <3>7
    <3>5. ASSUME NEW m \in 1..rest PROVE incoming'[i + m] = DataUnit(u.number, u.payload + m)
      <4>1. i + m \in 1..L
        BY <3>7
      <4> QED
        BY <1>2, <3>2, <4>1
    <3>6. IsHead(incoming'[i + rest + 1])
      <4> PICK s \in Nat : s = i + rest
        BY <3>7
      <4>1. CASE s < L
        <5>1. s + 1 \in 1..L
          BY <3>7, <4>1
        <5> QED
          BY <1>2, <3>2, <4>1, <5>1
      <4>2. CASE ~(s < L)
        <5>1. s = L
          BY <3>7, <4>2
        <5> QED
          BY <1>4, <5>1
      <4> QED
        BY <4>1, <4>2
    <3> QED
      BY <3>3, <3>4, <3>5, <3>6 DEF GoesOn, UnitsOf, IsHead
  <2>2. CASE i = L + 1
    <3>1. Len(arrived'[incoming'[i].number].units) - incoming'[i].payload = cut
      BY <1>0, <1>4, <1>5, <2>2
    <3>2. i + cut = Len(incoming') /\ ~(i + cut < Len(incoming')) /\ i + cut <= Len(incoming')
      BY <1>0, <2>2
    <3>3. \A m \in 1..cut : incoming'[i + m] = DataUnit(incoming'[i].number, incoming'[i].payload + m)
      <4>1. \A m \in 1..cut : 0 + m = m
        BY <1>0
      <4> QED
        BY <1>3, <1>4, <2>2, <4>1
    <3> QED
      BY <3>1, <3>2, <3>3 DEF GoesOn, UnitsOf
  <2>3. CASE \E k \in 1..cut : i = L + 1 + k
    <3> PICK k \in 1..cut : i = L + 1 + k
      BY <2>3
    <3>1. Len(arrived'[incoming'[i].number].units) - incoming'[i].payload = cut - k
      BY <1>5, <1>8
    <3>2. /\ i + (cut - k) = Len(incoming') /\ ~(i + (cut - k) < Len(incoming'))
          /\ i + (cut - k) <= Len(incoming')
      BY <1>0
    <3>3. ASSUME NEW m \in 1..(cut - k)
          PROVE  incoming'[i + m] = DataUnit(incoming'[i].number, incoming'[i].payload + m)
      <4>1. k + m \in 1..cut /\ i + m = L + 1 + (k + m)
        BY <1>0
      <4> QED
        BY <1>3, <1>8, <4>1
    <3> QED
      BY <3>1, <3>2, <3>3 DEF GoesOn, UnitsOf
  <2> QED
    BY <1>6, <2>1, <2>2, <2>3
<1>11. ASSUME NEW i \in DOMAIN incoming', i > L
       PROVE  /\ incoming'[i].number = number /\ incoming'[i].payload = i - (L + 1)
  <2>1. CASE i = L + 1
    BY <1>0, <1>4, <2>1
  <2>2. CASE \E k \in 1..cut : i = L + 1 + k
    <3> PICK k \in 1..cut : i = L + 1 + k
      BY <2>2
    <3>1. i - (L + 1) = k
      BY <1>0
    <3> QED
      BY <1>8, <3>1
  <2>3. i \notin 1..L
    BY <1>0, <1>11
  <2> QED
    BY <1>6, <2>1, <2>2, <2>3
<1>12. Ordered'
  <2> SUFFICES ASSUME NEW i \in DOMAIN incoming', NEW j \in DOMAIN incoming', i < j
               PROVE  Before(incoming'[i], incoming'[j])
    BY DEF Ordered, Before
  <2>0. i \in Nat /\ j \in Nat /\ i > 0 /\ j > 0
    BY <1>0
  <2>1. CASE j <= L
    <3>1. i \in 1..L /\ j \in 1..L
      BY <1>0, <2>0, <2>1
    <3>2. Before(incoming[i], incoming[j])
      BY <1>7, <3>1 DEF StreamOK, Ordered
    <3> QED
      BY <1>2, <3>1, <3>2
  <2>2. CASE i <= L /\ j > L
    <3>1. i \in 1..L
      BY <1>0, <2>0, <2>2
    <3>2. incoming'[i].number < number /\ incoming'[j].number = number
      BY <1>1, <1>2, <1>7, <1>11, <2>2, <3>1
    <3> QED
      BY <3>2 DEF Before
  <2>3. CASE i > L
    <3>1. j > L
      BY <1>0, <2>0, <2>3
    <3>2. /\ incoming'[i].number = number /\ incoming'[j].number = number
          /\ incoming'[i].payload = i - (L + 1) /\ incoming'[j].payload = j - (L + 1)
      BY <1>11, <2>3, <3>1
    <3>3. i - (L + 1) < j - (L + 1)
      BY <1>0, <2>0
    <3> QED
      BY <3>2, <3>3 DEF Before
  <2> QED
    BY <1>0, <2>0, <2>1, <2>2, <2>3
<1>13. ArrivedOK'
  <2> SUFFICES ASSUME NEW f \in DOMAIN arrived', NEW k \in DOMAIN arrived'[f].units
               PROVE  arrived'[f].units[k] = DataUnit(f, k)
    BY DEF ArrivedOK
  <2>1. CASE f \in 1..Len(arrived)
    <3>1. arrived'[f] = arrived[f] /\ f \in DOMAIN arrived
      <4>1. DOMAIN arrived = 1..Len(arrived)
        BY ONLY Typed DEF Typed
      <4> QED
        BY ONLY <1>1, <2>1, <4>1
    <3> QED
      BY <3>1 DEF ArrivedOK
  <2>2. CASE f = number
    BY <1>5, <2>2
  <2>3. f \in 1..number
    <3> DEFINE Frame == [op : OpCodes, units : Seq(Unit)]
    <3>1. arrived' \in Seq(Frame)
      OBVIOUS
    <3> HIDE DEF Frame
    <3> QED
      BY <1>0, <3>1
  <2> QED
    BY <1>0, <2>1, <2>2, <2>3
<1>14. Moves
  <2>1. ASSUME NEW x \in 1..Len(arrived), IsPast(x) PROVE IsPast(x)'
    <3> SUFFICES ASSUME NEW i \in DOMAIN incoming' PROVE x < incoming'[i].number
      BY DEF IsPast
    <3>1. CASE i \in 1..L
      BY <1>2, <1>7, <2>1, <3>1 DEF IsPast
    <3>2. CASE i > L
      BY <1>1, <1>11, <3>2
    <3> QED
      BY <1>0, <3>1, <3>2
  <2>2. ASSUME NEW u \in Unit, u.number \in 1..Len(arrived),
               \A j \in DOMAIN incoming : Before(u, incoming[j]), NEW i \in DOMAIN incoming'
        PROVE  Before(u, incoming'[i])
    <3>1. CASE i \in 1..L
      BY <1>2, <1>7, <2>2, <3>1
    <3>2. CASE i > L
      BY <1>1, <1>11, <2>2, <3>2 DEF Before
    <3> QED
      BY <1>0, <3>1, <3>2
  <2>3. \A u \in Unit : u.number \in 1..Len(arrived) =>
           ((\A j \in DOMAIN incoming : Before(u, incoming[j]))
               => (\A j \in DOMAIN incoming' : Before(u, incoming'[j])))
    BY <2>2
  <2>4. Len(arrived') \in Nat /\ Len(arrived) <= Len(arrived')
    BY <1>0
  <2>5. \A x \in 1..Len(arrived) : arrived'[x] = arrived[x] /\ (IsPast(x) => IsPast(x)')
    BY <1>1, <2>1
  <2> QED
    BY <2>3, <2>4, <2>5 DEF Moves
<1> QED
  BY <1>9, <1>10, <1>12, <1>13, <1>14 DEF StreamOK

LEMMA PeerSendsStep ==
    ASSUME ConnInv, NEW op \in OpCodes, NEW right \in BOOLEAN, NEW n \in Nat, NEW cut \in 0..n,
           PeerSends(op, right, n, cut)
    PROVE  ConnInv'
<1>1. /\ Typed /\ StreamOK /\ ArrivedOK /\ ~peerDone /\ (peerDone' <=> cut < n) /\ peerDone' \in BOOLEAN
      /\ UNCHANGED <<frame, rio, got, failed, garbled, writeVars, closed, user>>
  <2>1. /\ ~peerDone /\ peerDone' = (cut < n)
        /\ UNCHANGED <<frame, rio, got, failed, garbled, writeVars, closed, user>>
    BY DEF PeerSends
  <2>2. (cut < n) \in BOOLEAN
    OBVIOUS
  <2>3. peerDone' \in BOOLEAN /\ (peerDone' <=> cut < n)
    BY <2>1, <2>2
  <2> QED
    BY <2>1, <2>3 DEF ConnInv
<1> PICK number : number = Len(arrived) + 1
  OBVIOUS
<1>2. /\ incoming' \in Seq(Unit) /\ arrived' \in Seq([op : OpCodes, units : Seq(Unit)])
      /\ Sent(op, n, cut, number)
  BY <1>1, SendFields
<1>3. StreamOK' /\ ArrivedOK' /\ Moves
  BY <1>1, <1>2, SentKeeps
<1>4. Typed'
  BY <1>1, <1>2 DEF Typed, writeVars
<1>5. Len(incoming) \in Nat /\ incoming \in Seq(Unit) /\ Len(incoming') = Len(incoming) + 1 + cut
  BY <1>1, <1>2, Lengths DEF Typed, Sent
<1>6. Aligned => Aligned'
  <2>1. CASE incoming = <<>>
    <3>1. IsHead(incoming'[0 + 1]) /\ 0 + 1 = 1
      BY <1>2, <2>1 DEF Sent
    <3> QED
      BY <3>1 DEF Aligned, IsHead
  <2>2. CASE incoming # <<>>
    <3>1. incoming'[1] = incoming[1]
      BY <1>2, <1>5, <2>2 DEF Sent
    <3> QED
      BY <2>2, <3>1 DEF Aligned, IsHead
  <2> QED
    BY <2>1, <2>2
<1>7. ASSUME ~Aligned
      PROVE  /\ ~Aligned' /\ incoming'[1] = incoming[1] /\ Left' = Left
             /\ FrameOf(incoming[1])' = FrameOf(incoming[1])
  <2>1. incoming'[1] = incoming[1] /\ incoming' # <<>> /\ ~IsHead(incoming[1])
    <3>1. 1 \in 1..Len(incoming) /\ ~IsHead(incoming[1])
      BY <1>5, <1>7 DEF Aligned
    <3>2. incoming'[1] = incoming[1]
      BY <1>2, <3>1 DEF Sent
    <3> QED
      BY <1>2, <1>5, <3>1, <3>2
  <2>2. arrived'[incoming[1].number] = arrived[incoming[1].number]
    BY <1>1, <1>2, <1>7, LeftFields DEF Sent
  <2> QED
    BY <2>1, <2>2 DEF Aligned, Left, UnitsOf, FrameOf, IsHead
<1>8. ASSUME NEW o, NEW m, PayloadNext(o, m) PROVE PayloadNext(o, m)'
  <2>1. CASE Aligned
    BY <1>1, <1>6, <1>8, <2>1 DEF PayloadNext
  <2>2. CASE ~Aligned
    <3>1. FrameOf(incoming[1]).op = o /\ m >= Left /\ ~(m > Left)
      BY <1>1, <1>8, <2>2 DEF PayloadNext, Gives
    <3> QED
      BY <1>7, <2>2, <3>1 DEF PayloadNext, Gives
  <2> QED
    BY <2>1, <2>2
<1>9. ASSUME NEW o, NEW m, FrameNext(o, m) PROVE FrameNext(o, m)'
  BY <1>6, <1>7, <1>8, <1>9 DEF FrameNext
<1> QED
  BY <1>1, <1>3, <1>4, <1>6, <1>8, <1>9, PeerKeeps

-----------------------------------------------------------------------------
(* The invariant and what follows from it. *)

LEMMA ConnInit ==
    WebSocketInit => ConnInv
<1> SUFFICES ASSUME WebSocketInit PROVE ConnInv
  OBVIOUS
<1>1. /\ incoming = <<>> /\ arrived = <<>> /\ outgoing = <<>> /\ bufw = <<>> /\ got = <<>> /\ sends = 0
      /\ peerDone = FALSE /\ closed = FALSE /\ broken = FALSE /\ failed = FALSE /\ garbled = FALSE
      /\ frame = NoFrame /\ rio = NoOne /\ wio = NoOne
  BY DEF WebSocketInit
<1>2. user \in [Users -> Work]
      /\ \A u \in Users : user[u].pc = "idle" /\ user[u].call = "none"
  BY NoWorkFields DEF WebSocketInit
<1>3. NoOne \notin Users
  BY DEF Users
<1>4. Typed
  <2>1. \A S : <<>> \in Seq(S)
    OBVIOUS
  <2>2. /\ incoming \in Seq(Unit) /\ bufw \in Seq(Unit) /\ outgoing \in Seq(Seq(Unit))
        /\ arrived \in Seq([op : OpCodes, units : Seq(Unit)])
        /\ got \in Seq([call : ReadCalls, units : Seq(Unit)])
    BY <1>1, <2>1
  <2>3. /\ peerDone \in BOOLEAN /\ closed \in BOOLEAN /\ broken \in BOOLEAN
        /\ failed \in BOOLEAN /\ garbled \in BOOLEAN
        /\ frame \in {NoFrame} \cup Nat /\ sends \in Nat
        /\ rio \in {NoOne} \cup Readers /\ wio \in {NoOne} \cup Users
    BY <1>1
  <2> QED
    BY <1>2, <2>2, <2>3 DEF Typed
<1>5. \A u \in Users : CallOK(u) /\ MessageOK(u) /\ ~Holds(u) /\ ReaderOK(u) /\ ~AtHead(u) /\ ~Pending(u)
  BY <1>2 DEF CallOK, MessageOK, Holds, ReaderOK, AtHead, Pending, ReadCalls, Writing, Holding
<1>6. MutexesOK
  BY <1>1, <1>2, <1>3, <1>5 DEF MutexesOK
<1>7. BufferOK /\ FramesAreWhole /\ ClosingOK
  BY <1>1, <1>2, <1>3 DEF BufferOK, FramesAreWhole, ClosingOK
<1>8. ArrivedOK /\ StreamOK /\ BoundaryOK
  BY <1>1, <1>5 DEF ArrivedOK, StreamOK, Ordered, BoundaryOK, Aligned
<1>9. PongsOK /\ GotOK
  BY <1>1, <1>5 DEF PongsOK, Pongs, GotOK, DataInOrder
<1> QED
  BY <1>4, <1>5, <1>6, <1>7, <1>8, <1>9 DEF ConnInv

LEMMA ConnStutters ==
    ASSUME ConnInv, UNCHANGED webSocketVars
    PROVE  ConnInv'
<1>1. /\ Typed /\ StreamOK /\ ArrivedOK /\ UNCHANGED <<incoming, arrived, peerDone>>
      /\ UNCHANGED <<frame, rio, got, failed, garbled, writeVars, closed, user>>
  BY DEF ConnInv, webSocketVars, readVars, peerVars
<1>2. Typed' /\ Shifted(0)
  BY <1>1, SameStream DEF Typed, writeVars
<1>3. Moves /\ StreamOK' /\ ArrivedOK'
  BY <1>1, <1>2, ShiftMoves, ShiftKeeps DEF ArrivedOK
<1>4. /\ Aligned => Aligned'
      /\ \A op, n : PayloadNext(op, n) => PayloadNext(op, n)'
      /\ \A op, n : FrameNext(op, n) => FrameNext(op, n)'
  BY <1>1, StillNext
<1> QED
  BY <1>1, <1>2, <1>3, <1>4, PeerKeeps

LEMMA ConnNext ==
    ConnInv /\ [WebSocketNext]_webSocketVars => ConnInv'
<1> SUFFICES ASSUME ConnInv, [WebSocketNext]_webSocketVars PROVE ConnInv'
  OBVIOUS
<1>1. ASSUME NEW u \in Readers, NEW call \in {"read", "receive"}, Reads(u, call) PROVE ConnInv'
  BY <1>1, ReadsStep DEF ReadCalls
<1>2. ASSUME NEW u \in Readers, ReaderStep(u) PROVE ConnInv'
  <2>1. u \in Users
    BY DEF Users
  <2> QED
    BY <1>2, <2>1, LocksRioStep, TakesHeadStep, HandlesFrameStep, ReadsBodyStep,
       ReceivesBodyStep, StreamFailsStep, ReturnsErrorStep DEF ReaderStep
<1>3. ASSUME NEW u \in Writers, Write(u) \/ CloseConn(u) PROVE ConnInv'
  BY <1>3, WriteStep, CloseConnStep
<1>4. ASSUME NEW u \in Users, FrameStep(u) PROVE ConnInv'
  BY <1>4, BeginsFrameStep, EndsFrameStep, ClosesRwcStep, WriterReturnsStep DEF FrameStep
<1>5. CASE Peer
  <2>1. ASSUME NEW op \in OpCodes, NEW n \in 0..2, NEW cut \in 0..n, PeerSends(op, TRUE, n, cut)
        PROVE  ConnInv'
    <3>1. n \in Nat /\ TRUE \in BOOLEAN
      OBVIOUS
    <3> QED
      BY <2>1, <3>1, PeerSendsStep
  <2>2. CASE PeerSends("data", FALSE, 1, 1)
    <3>1. "data" \in OpCodes /\ FALSE \in BOOLEAN /\ 1 \in Nat /\ 1 \in 0..1
      BY DEF OpCodes
    <3> QED
      BY <2>2, <3>1, PeerSendsStep
  <2> QED
    BY <1>5, <2>1, <2>2, PeerEndsStep DEF Peer
<1>6. CASE UNCHANGED webSocketVars
  BY <1>6, ConnStutters
<1> QED
  BY <1>1, <1>2, <1>3, <1>4, <1>5, <1>6 DEF WebSocketNext

\* The state of a connection is sound in itself and between its goroutines: who
\* holds the mutexes, what is in the buffer and what comes next in the stream.
THEOREM ConnInvariant == WebSocketSpec => []ConnInv
<1> QED
  BY ConnInit, ConnNext, PTL DEF WebSocketSpec

\* Every value of a connection stays of its type.
THEOREM ConnTypeCorrect == WebSocketSpec => []WebSocketTypeOK
<1>1. ConnInv => WebSocketTypeOK
  <2> SUFFICES ASSUME ConnInv PROVE WebSocketTypeOK
    OBVIOUS
  <2>1. Typed
    BY DEF ConnInv
  <2> QED
    BY <2>1, WorkFields DEF Typed, WebSocketTypeOK
<1> QED
  BY <1>1, ConnInvariant, PTL

\* HandleFrame, Write, Send and Close, in any interleaving, put whole frames of
\* this end's mask on the wire, and the pongs among them echo the pings in order.
THEOREM WireStaysSound == WebSocketSpec => []WireIsSound
<1>1. ConnInv => WireIsSound
  <2> SUFFICES ASSUME ConnInv PROVE PongsEchoPings
    BY DEF ConnInv, WireIsSound
  <2>1. Typed /\ ArrivedOK /\ PongsOK
    BY DEF ConnInv
  <2> SUFFICES ASSUME NEW i \in Pongs
               PROVE  /\ Echo(i) # <<>> /\ FrameOf(Echo(i)[1]).op = "ping"
                      /\ IsPrefix(Echo(i), FrameOf(Echo(i)[1]).units)
                      /\ \A j \in Pongs : i < j => Echo(i)[1].number < Echo(j)[1].number
    BY DEF PongsEchoPings, Pongs, Echo
  <2>2. EchoOK(Echo(i)) /\ \A j \in Pongs : i < j => EchoOf(i) < EchoOf(j)
    BY <2>1 DEF PongsOK
  <2> DEFINE s == Echo(i)
             t == FrameOf(s[1]).units
  <2>3. /\ s \in Seq(Unit) /\ s # <<>> /\ s[1].number \in 1..Len(arrived) /\ FrameOf(s[1]).op = "ping"
        /\ Len(s) <= Len(t) /\ \A k \in 1..Len(s) : s[k] = DataUnit(s[1].number, k)
    BY <2>2 DEF EchoOK, UnitsOf, FrameOf
  <2>4. t \in Seq(Unit) /\ \A k \in 1..Len(t) : t[k] = DataUnit(s[1].number, k)
    <3>1. t \in Seq(Unit) /\ s[1].number \in DOMAIN arrived /\ DOMAIN t = 1..Len(t)
      BY <2>1, <2>3, FrameFields DEF FrameOf, Typed
    <3> QED
      BY <2>1, <3>1 DEF ArrivedOK, FrameOf
  <2>6. IsPrefix(s, t)
    <3> HIDE DEF s, t
    <3>1. \A k \in 1..Len(s) : s[k] = t[k]
      BY <2>3, <2>4
    <3> QED
      BY <2>3, <2>4, <3>1 DEF IsPrefix
  <2> QED
    BY <2>2, <2>3, <2>6 DEF EchoOf
<1> QED
  BY <1>1, ConnInvariant, PTL

\* Read and Receive give the payload of the data frames in order, each part
\* once; the frame boundaries are lost only after a call that failed.
THEOREM DataStaysSound == WebSocketSpec => []DataIsSound
<1>1. ConnInv => DataIsSound
  BY DEF ConnInv, GotOK, BoundaryOK, DataIsSound, BoundariesAreKept
<1> QED
  BY <1>1, ConnInvariant, PTL

\* Conn.Close closes the connection only after its close frame is on the wire,
\* and nothing follows on a closed connection.
THEOREM CloseStaysAnnounced == WebSocketSpec => CloseIsAnnounced
<1>1. ConnInv /\ [WebSocketNext]_webSocketVars
      => [(closed' => CloseFrameSent) /\ (closed => outgoing' = outgoing)]_webSocketVars
  <2> SUFFICES ASSUME ConnInv, WebSocketNext
               PROVE  (closed' => CloseFrameSent) /\ (closed => outgoing' = outgoing)
    OBVIOUS
  <2>1. ASSUME NEW u \in Readers, NEW call \in {"read", "receive"}, Reads(u, call)
        PROVE  closed' = closed /\ outgoing' = outgoing
    BY ONLY <2>1 DEF Reads, writeVars
  <2>2. ASSUME NEW u \in Readers, ReaderStep(u) PROVE closed' = closed /\ outgoing' = outgoing
    <3>1. CASE LocksRio(u)
      BY ONLY <3>1 DEF LocksRio, writeVars
    <3>2. CASE TakesHead(u)
      BY ONLY <3>2 DEF TakesHead, writeVars
    <3>3. CASE HandlesFrame(u)
      BY ONLY <3>3 DEF HandlesFrame, writeVars
    <3>4. CASE ReadsBody(u) \/ ReceivesBody(u)
      BY ONLY <3>4 DEF ReadsBody, ReceivesBody, writeVars
    <3>5. CASE StreamFails(u) \/ ReturnsError(u)
      BY ONLY <3>5 DEF StreamFails, ReturnsError, writeVars
    <3> QED
      BY ONLY <2>2, <3>1, <3>2, <3>3, <3>4, <3>5, Zenon DEF ReaderStep
  <2>3. ASSUME NEW u \in Writers, Write(u) \/ CloseConn(u)
        PROVE  closed' = closed /\ outgoing' = outgoing
    BY ONLY <2>3 DEF Write, CloseConn
  <2>4. ASSUME NEW u \in Users, FrameStep(u)
        PROVE  /\ closed' = closed \/ ClosesRwc(u)
               /\ outgoing' = outgoing \/ ~closed
    <3>1. CASE BeginsFrame(u)
      BY ONLY <3>1 DEF BeginsFrame
    <3>2. CASE EndsFrame(u)
      BY ONLY <3>2 DEF EndsFrame
    <3>3. CASE ClosesRwc(u) \/ WriterReturns(u)
      BY ONLY <3>3 DEF ClosesRwc, WriterReturns, writeVars
    <3> QED
      BY ONLY <2>4, <3>1, <3>2, <3>3, Zenon DEF FrameStep
  <2>5. ASSUME Peer PROVE closed' = closed /\ outgoing' = outgoing
    BY ONLY <2>5 DEF Peer, PeerSends, PeerEnds, writeVars
  <2>6. closed => CloseFrameSent
    BY DEF ConnInv, ClosingOK
  <2>7. ASSUME NEW u \in Users, ClosesRwc(u) PROVE CloseFrameSent
    BY <2>7 DEF ConnInv, ClosingOK, ClosesRwc, Does
  <2>8. /\ closed' = closed \/ \E u \in Users : ClosesRwc(u)
        /\ outgoing' = outgoing \/ ~closed
    <3>1. CASE \E u \in Readers, call \in {"read", "receive"} : Reads(u, call)
      BY ONLY <2>1, <3>1
    <3>2. CASE \E u \in Readers : ReaderStep(u)
      BY ONLY <2>2, <3>2
    <3>3. CASE \E u \in Writers : Write(u) \/ CloseConn(u)
      BY ONLY <2>3, <3>3
    <3>4. CASE \E u \in Users : FrameStep(u)
      BY ONLY <2>4, <3>4
    <3>5. CASE Peer
      BY ONLY <2>5, <3>5
    <3> QED
      BY ONLY WebSocketNext, <3>1, <3>2, <3>3, <3>4, <3>5, Zenon DEF WebSocketNext
  <2> QED
    BY ONLY <2>6, <2>7, <2>8
<1> QED
  BY <1>1, ConnInvariant, PTL DEF WebSocketSpec, CloseIsAnnounced

-----------------------------------------------------------------------------
(* The HTML tokenizer: what is true of z wherever it is.  A span of bytes   *)
(* is written as what is before it, a, and its last byte, b.                *)

\* What NewTokenizerFragment and a Reader can be given.
TokenizerAssumed ==
    \A p \in Pages :
        p \in [start : Seq(STRING), chars : SUBSET STRING, left : Nat, chunk : Nat,
               rawTag : RawNames \cup {"none"}, cdata : BOOLEAN]

InTag == {"name", "white", "key", "equals", "value", "quoted", "unquoted"}
Plain == {"text", "lessThan", "endTag"}
Closing == {"rawName", "rawAfterName"}
Declared ==
    {"declaration", "doctype", "cdataWord", "doctypeWhite", "angle", "comment", "bang", "cdata"}
Places ==
    {"returned", "raw", "rawLess", "plaintext"} \cup Plain \cup InTag \cup Declared \cup Closing
    \cup ScriptStates
Kinds == {"none", "error", "text", "start", "selfClosing", "end", "comment", "doctype"}
Begins == Letter \cup {"/", "!", "?"}
KeyEnd == TagEnd \cup {"="}
BeforeKey == KeyEnd \cup Quotes

(* Of the bytes after the a-th, up to the b-th. *)
NoneOf(buf, a, b, S) == \A k \in a + 1..b : buf[k] \notin S
NoTags(buf, a, b) == \A k \in a + 1..b - 1 : ~(buf[k] = "<" /\ buf[k + 1] \in Begins)
NoEndTag(buf, a, b, tag, lenient) ==
    \A k \in a + 1..b - 3 :
        buf[k] = "<" /\ buf[k + 1] = "/" /\ buf[k + 2] = tag /\ buf[k + 3] \in TagEnd =>
            lenient /\ k > a + 1 /\ buf[k - 1] = "<"
NoArrow(buf, a, b) ==
    \A k \in a + 1..b - 2 :
        buf[k] = "-" /\ buf[k + 1] = "-" /\ buf[k + 2] = ">" => k > a + 1 /\ buf[k - 1] = "!"
NoBrackets(buf, a, b) ==
    \A k \in a + 1..b - 2 : ~(buf[k] = "]" /\ buf[k + 1] = "]" /\ buf[k + 2] = ">")
Escaped(buf, a, b) ==
    \E k \in a + 1..b - 3 :
        buf[k] = "<" /\ buf[k + 1] = "!" /\ buf[k + 2] = "-" /\ buf[k + 3] = "-"

Peeks(t, S) == t.raw[2] < Len(t.buf) /\ t.buf[t.raw[2] + 1] \in S
Latest(t) == t.buf[t.raw[2]]

TypeFits(t) ==
    t \in [pc : Places, tt : Kinds, buf : Seq(STRING), raw : Int \X Int, data : Int \X Int,
           key : Int \X Int, val : Int \X Int, attr : Seq((Int \X Int) \X (Int \X Int)),
           start : BOOLEAN, quote : Quotes, n : 0..2, else : Places,
           rawTag : RawNames \cup {"none"},
           markup : BOOLEAN, cdata : BOOLEAN, eof : BOOLEAN, err : BOOLEAN]
RawFits(t) == 0 <= t.raw[1] /\ t.raw[1] <= t.raw[2] /\ t.raw[2] <= Len(t.buf)

\* Text, raw text and what may be an end tag begin where the token does.
Outside(t) == t.rawTag = "none" /\ t.n = 0
FromStart(t) == t.data = <<t.raw[1], t.raw[1]>>
AtText(t) ==
    /\ Outside(t) /\ FromStart(t) /\ NoTags(t.buf, t.raw[1], t.raw[2])
    /\ t.raw[1] < t.raw[2] /\ Latest(t) = "<" => t.raw[2] < Len(t.buf) /\ ~Peeks(t, Begins)
AtLessThan(t) ==
    /\ Outside(t) /\ FromStart(t) /\ NoTags(t.buf, t.raw[1], t.raw[2])
    /\ t.raw[1] < t.raw[2] /\ Latest(t) = "<"
AtEndTag(t) ==
    Outside(t) /\ FromStart(t) /\ t.raw[2] = t.raw[1] + 2 /\ Latest(t) = "/"

NameFits(t) ==
    /\ t.raw[1] < t.data[1] /\ t.data[1] < t.data[2]
    /\ t.data[2] <= t.raw[2] /\ NoneOf(t.buf, t.data[1], t.data[2], TagEnd)
    /\ t.buf[t.data[1]] = IF t.start THEN "<" ELSE "/"
    /\ t.data[2] < Len(t.buf) /\ t.buf[t.data[2] + 1] \in TagEnd
KeyFits(buf, lo, hi, k) ==
    /\ lo < k[1] /\ k[1] <= k[2] /\ k[2] <= hi /\ k[2] < Len(buf)
    /\ NoneOf(buf, k[1], k[2], KeyEnd)
    /\ buf[k[2] + 1] \in KeyEnd
    /\ k[1] # k[2] => buf[k[1]] \in BeforeKey
ValFits(buf, lo, hi, v) ==
    /\ lo < v[1] /\ v[1] <= v[2] /\ v[2] <= hi
    /\ \/ v[1] = v[2]
       \/ /\ buf[v[1]] \in Quotes /\ v[2] < Len(buf) /\ buf[v[2] + 1] = buf[v[1]]
          /\ NoneOf(buf, v[1], v[2], {buf[v[1]]})
       \/ /\ buf[v[1]] \in Space \cup {"="} /\ v[2] < Len(buf) /\ buf[v[2] + 1] \in TagEnd
          /\ NoneOf(buf, v[1], v[2], {">"})
AttrsFit(t) ==
    \A i \in DOMAIN t.attr :
        /\ KeyFits(t.buf, t.raw[1], t.raw[2], t.attr[i][1]) /\ t.attr[i][1][1] # t.attr[i][1][2]
        /\ ValFits(t.buf, t.raw[1], t.raw[2], t.attr[i][2])

InName(t) ==
    /\ t.raw[1] < t.data[1] /\ t.data[1] < t.raw[2] /\ NoneOf(t.buf, t.data[1], t.raw[2], TagEnd)
    /\ t.buf[t.data[1]] = IF t.start THEN "<" ELSE "/"
Named(t) == Outside(t) /\ NameFits(t) /\ AttrsFit(t)
AtName(t) == Outside(t) /\ t.attr = <<>> /\ InName(t)
AtWhite(t) == Named(t) /\ (Latest(t) \in BeforeKey \/ Peeks(t, {"/", ">"}))
InKey(t) ==
    /\ t.raw[1] < t.key[1] /\ t.key[1] <= t.raw[2] /\ NoneOf(t.buf, t.key[1], t.raw[2], KeyEnd)
    /\ t.buf[t.key[1]] \in BeforeKey \/ (t.key[1] = t.raw[2] /\ Peeks(t, {"/"}))
AtKey(t) == Named(t) /\ InKey(t)
Keyed(t) == Named(t) /\ KeyFits(t.buf, t.raw[1], t.raw[2], t.key)
NoValue(t) == t.raw[1] < t.val[1] /\ t.val[1] = t.val[2] /\ t.val[2] <= t.raw[2]
AtEquals(t) ==
    Keyed(t) /\ NoValue(t) /\ (Latest(t) \in Space \cup {"/"} \/ Peeks(t, {"=", ">"}))
AtValue(t) == Keyed(t) /\ NoValue(t) /\ Latest(t) \in Space \cup {"="}
AtQuoted(t) ==
    /\ Keyed(t) /\ t.raw[1] < t.val[1] /\ t.val[1] <= t.raw[2] /\ t.buf[t.val[1]] = t.quote
    /\ NoneOf(t.buf, t.val[1], t.raw[2], {t.quote})
AtUnquoted(t) ==
    /\ Keyed(t) /\ t.raw[1] < t.val[1] /\ t.val[1] < t.raw[2]
    /\ t.buf[t.val[1]] \in Space \cup {"="}
    /\ NoneOf(t.buf, t.val[1], t.raw[2], Space \cup {">"})

InMarkup(t) == t.rawTag = "none" /\ t.raw[1] < t.data[1] /\ t.data[1] <= t.raw[2]
InWord(t) == InMarkup(t) /\ t.n <= 1 /\ t.raw[2] = t.data[1] + t.n
AtAngle(t) == InMarkup(t) /\ t.n = 0 /\ t.tt \in {"comment", "doctype"}
AtComment(t) ==
    /\ InMarkup(t) /\ NoArrow(t.buf, t.data[1], t.raw[2])
    /\ Latest(t) = "-" /\ t.data[1] < t.raw[2] =>
           t.n > 0 \/ (t.data[1] < t.raw[2] - 1 /\ t.buf[t.raw[2] - 1] = "!")
    /\ t.data[1] < t.raw[2] - 1 /\ Latest(t) = "-" /\ t.buf[t.raw[2] - 1] = "-" =>
           t.n = 2 \/ (t.data[1] < t.raw[2] - 2 /\ t.buf[t.raw[2] - 2] = "!")
AtBang(t) ==
    /\ InMarkup(t) /\ NoArrow(t.buf, t.data[1], t.raw[2])
    /\ t.data[1] < t.raw[2] /\ Latest(t) = "!"
AtCdata(t) ==
    /\ InMarkup(t) /\ NoBrackets(t.buf, t.data[1], t.raw[2]) /\ t.data[1] + t.n <= t.raw[2]
    /\ Latest(t) = "]" /\ t.data[1] < t.raw[2] => t.n > 0
    /\ t.data[1] < t.raw[2] - 1 /\ Latest(t) = "]" /\ t.buf[t.raw[2] - 1] = "]" => t.n = 2

\* The last bytes are the beginning of an end tag only if what follows is no part of it.
NoneBegun(t, lenient) ==
    LET e == t.raw[2]
        excused(k) == lenient /\ k > t.raw[1] + 1 /\ t.buf[k - 1] = "<"
        other(S) == e < Len(t.buf) /\ ~Peeks(t, S)
    IN /\ t.raw[1] < e /\ t.buf[e] = "<" => excused(e) \/ other({"/"})
       /\ t.raw[1] < e - 1 /\ t.buf[e - 1] = "<" /\ t.buf[e] = "/" =>
              excused(e - 1) \/ other({t.rawTag})
       /\ t.raw[1] < e - 2 /\ t.buf[e - 2] = "<" /\ t.buf[e - 1] = "/" /\ t.buf[e] = t.rawTag =>
              excused(e - 2) \/ other(TagEnd)
InRaw(t, tag) == t.rawTag = tag /\ t.n = 0 /\ FromStart(t)
SoFar(t) == NoEndTag(t.buf, t.raw[1], t.raw[2], t.rawTag, t.rawTag = "t")
HasLess(t) == t.raw[1] < t.raw[2] /\ Latest(t) = "<"
HasTwo(t, c) == t.raw[1] < t.raw[2] - 1 /\ Latest(t) = c /\ t.buf[t.raw[2] - 1] = "<"
HasThree(t, c, d) ==
    /\ t.raw[1] < t.raw[2] - 2 /\ Latest(t) = d /\ t.buf[t.raw[2] - 1] = c
    /\ t.buf[t.raw[2] - 2] = "<"
AtRaw(t) == InRaw(t, "t") /\ SoFar(t) /\ NoneBegun(t, TRUE)
AtRawLess(t) == InRaw(t, "t") /\ SoFar(t) /\ HasLess(t)

IsEscaped(t) == Escaped(t.buf, t.raw[1], t.raw[2])
AtScriptData(t) == InRaw(t, "s") /\ (IsEscaped(t) \/ (SoFar(t) /\ NoneBegun(t, FALSE)))
AtLess(t) == InRaw(t, "s") /\ HasLess(t) /\ (IsEscaped(t) \/ SoFar(t))
AtEscapeStart(t) ==
    InRaw(t, "s") /\ HasTwo(t, "!") /\ (IsEscaped(t) \/ SoFar(t))
AtEscapeStartDash(t) ==
    InRaw(t, "s") /\ HasThree(t, "!", "-") /\ (IsEscaped(t) \/ SoFar(t))
InEscaped(t) == InRaw(t, "s") /\ IsEscaped(t)
AtEscapedLess(t) == InEscaped(t) /\ HasLess(t)

\* In an end tag, t.else is where it leads to when it is none.
IsClosing(t) ==
    \/ InRaw(t, "t") /\ t.else = "raw" /\ SoFar(t)
    \/ InRaw(t, "s") /\ t.else = "scriptData" /\ SoFar(t)
    \/ InRaw(t, "s") /\ t.else \in {"scriptData", "escaped", "doubleEscaped"} /\ IsEscaped(t)
AtRawName(t) == IsClosing(t) /\ HasTwo(t, "/")
AtRawAfterName(t) == IsClosing(t) /\ HasThree(t, "/", t.rawTag)

\* What was returned.
AtReturn(t) ==
    t.tt \notin {"none", "error"} =>
        /\ t.raw[1] < t.raw[2] /\ Inside(t.data, t.raw)
        /\ t.tt \in {"start", "selfClosing", "end"} =>
               /\ NameFits(t) /\ AttrsFit(t) /\ Latest(t) = ">" /\ t.start = (t.tt # "end")
        /\ t.tt = "text" /\ t.markup /\ ~t.err => NoTags(t.buf, t.data[1], t.data[2])

PlaceFits(t) ==
    /\ t.pc = "returned" => AtReturn(t)
    /\ t.pc = "text" => AtText(t)
    /\ t.pc = "lessThan" => AtLessThan(t)
    /\ t.pc = "endTag" => AtEndTag(t)
    /\ t.pc = "name" => AtName(t)
    /\ t.pc = "white" => AtWhite(t)
    /\ t.pc = "key" => AtKey(t)
    /\ t.pc = "equals" => AtEquals(t)
    /\ t.pc = "value" => AtValue(t)
    /\ t.pc = "quoted" => AtQuoted(t)
    /\ t.pc = "unquoted" => AtUnquoted(t)
    /\ t.pc \in {"declaration", "doctype", "cdataWord"} => InWord(t)
    /\ t.pc = "doctypeWhite" => InMarkup(t) /\ t.n = 0
    /\ t.pc = "angle" => AtAngle(t)
    /\ t.pc = "comment" => AtComment(t)
    /\ t.pc = "bang" => AtBang(t)
    /\ t.pc = "cdata" => AtCdata(t)
    /\ t.pc = "plaintext" => InRaw(t, "p")
    /\ t.pc = "raw" => AtRaw(t)
    /\ t.pc = "rawLess" => AtRawLess(t)
    /\ t.pc = "rawName" => AtRawName(t)
    /\ t.pc = "rawAfterName" => AtRawAfterName(t)
    /\ t.pc = "scriptData" => AtScriptData(t)
    /\ t.pc = "less" => AtLess(t)
    /\ t.pc = "escapeStart" => AtEscapeStart(t)
    /\ t.pc = "escapeStartDash" => AtEscapeStartDash(t)
    /\ t.pc \in {"escapedLess", "doubleLess"} => AtEscapedLess(t)
    /\ t.pc \in {"escaped", "escapedDash", "escapedDashDash", "doubleStart", "doubleStartEnd",
                 "doubleEscaped", "doubleDash", "doubleDashDash"} => InEscaped(t)

TokenFits(t) == TypeFits(t) /\ RawFits(t) /\ PlaceFits(t)
TokenInv == TokenFits(z)

-----------------------------------------------------------------------------
(* The tokenizer after a step that sets some of its fields. *)

LEMMA Pairs ==
    ASSUME NEW p \in Int \X Int, NEW x
    PROVE  [p EXCEPT ![1] = x] = <<x, p[2]>> /\ [p EXCEPT ![2] = x] = <<p[1], x>>
OBVIOUS

\* The numbers in a tokenizer.
Numbers(t) ==
    /\ t.raw[1] \in Int /\ t.raw[2] \in Int /\ t.data[1] \in Int /\ t.data[2] \in Int
    /\ t.key[1] \in Int /\ t.key[2] \in Int /\ t.val[1] \in Int /\ t.val[2] \in Int
    /\ Len(t.buf) \in Nat /\ t.n \in 0..2
LEMMA HasNumbers == ASSUME NEW t, TypeFits(t) PROVE Numbers(t)
<1>1. /\ t.raw \in Int \X Int /\ t.data \in Int \X Int /\ t.key \in Int \X Int
      /\ t.val \in Int \X Int /\ t.buf \in Seq(STRING) /\ t.n \in 0..2
  BY DEF TypeFits
<1> QED BY <1>1 DEF Numbers

\* The fields that most steps leave alone.
Keeps(u, t) ==
    /\ u.buf = t.buf /\ u.key = t.key /\ u.val = t.val /\ u.attr = t.attr
    /\ u.start = t.start /\ u.quote = t.quote /\ u.else = t.else /\ u.rawTag = t.rawTag
    /\ u.markup = t.markup /\ u.cdata = t.cdata /\ u.eof = t.eof /\ u.err = t.err
Becomes(u, t, pc, raw, data, n, tt) ==
    /\ TypeFits(u) /\ Keeps(u, t)
    /\ u.pc = pc /\ u.raw = raw /\ u.data = data /\ u.n = n /\ u.tt = tt

LEMMA Sets ==
    ASSUME NEW t, TypeFits(t), NEW pc \in Places, NEW raw \in Int \X Int, NEW data \in Int \X Int,
           NEW n \in 0..2, NEW tt \in Kinds
    PROVE  Becomes([t EXCEPT !.pc = pc, !.raw = raw, !.data = data, !.n = n, !.tt = tt],
                   t, pc, raw, data, n, tt)
BY DEF TypeFits, Becomes, Keeps

\* One span is set.
LEMMA SetsRaw ==
    ASSUME NEW t, TypeFits(t), NEW raw \in Int \X Int
    PROVE  Becomes([t EXCEPT !.raw = raw], t, t.pc, raw, t.data, t.n, t.tt)
BY DEF TypeFits, Becomes, Keeps
LEMMA SetsData ==
    ASSUME NEW t, TypeFits(t), NEW data \in Int \X Int
    PROVE  Becomes([t EXCEPT !.data = data], t, t.pc, t.raw, data, t.n, t.tt)
BY DEF TypeFits, Becomes, Keeps

\* The byte that is taken.
LEMMA Taking ==
    ASSUME NEW t, TypeFits(t)
    PROVE  /\ [t EXCEPT !.raw[2] = @ + 1] = [t EXCEPT !.raw = <<t.raw[1], t.raw[2] + 1>>]
           /\ Becomes([t EXCEPT !.raw[2] = @ + 1], t, t.pc, <<t.raw[1], t.raw[2] + 1>>, t.data,
                      t.n, t.tt)
<1> DEFINE raw == <<t.raw[1], t.raw[2] + 1>>
           u == [t EXCEPT !.raw[2] = @ + 1]
<1>1. [t.raw EXCEPT ![2] = t.raw[2] + 1] = raw
  BY Pairs DEF TypeFits
<1>2. u = [t EXCEPT !.raw = [t.raw EXCEPT ![2] = t.raw[2] + 1]]
  BY DEF TypeFits
<1>3. u = [t EXCEPT !.raw = raw]
  BY <1>1, <1>2
<1>4. raw \in Int \X Int
  BY HasNumbers DEF Numbers
<1>5. Becomes([t EXCEPT !.raw = raw], t, t.pc, raw, t.data, t.n, t.tt)
  <2> HIDE DEF raw
  <2> QED BY ONLY TypeFits(t), <1>4, SetsRaw
<1> QED BY ONLY <1>3, <1>5

LEMMA Backs ==
    ASSUME NEW t, TypeFits(t), NEW k \in Int
    PROVE  /\ Back(t, k) = [t EXCEPT !.raw = <<t.raw[1], t.raw[2] - k>>]
           /\ Becomes(Back(t, k), t, t.pc, <<t.raw[1], t.raw[2] - k>>, t.data, t.n, t.tt)
<1> DEFINE raw == <<t.raw[1], t.raw[2] - k>>
           u == Back(t, k)
<1>1. [t.raw EXCEPT ![2] = t.raw[2] - k] = raw
  BY Pairs DEF TypeFits
<1>2. u = [t EXCEPT !.raw = [t.raw EXCEPT ![2] = t.raw[2] - k]]
  BY DEF TypeFits, Back
<1>3. u = [t EXCEPT !.raw = raw]
  BY <1>1, <1>2
<1>4. raw \in Int \X Int
  BY HasNumbers DEF Numbers
<1>5. Becomes([t EXCEPT !.raw = raw], t, t.pc, raw, t.data, t.n, t.tt)
  <2> HIDE DEF raw
  <2> QED BY ONLY TypeFits(t), <1>4, SetsRaw
<1> QED BY ONLY <1>3, <1>5

\* The same for one byte and for two.
LEMMA BacksOne ==
    ASSUME NEW t, TypeFits(t)
    PROVE  /\ Unread(t) = [t EXCEPT !.raw = <<t.raw[1], t.raw[2] - 1>>]
           /\ Becomes(Unread(t), t, t.pc, <<t.raw[1], t.raw[2] - 1>>, t.data, t.n, t.tt)
<1>1. PICK k \in Int : k = 1
  OBVIOUS
<1>2. /\ Back(t, k) = [t EXCEPT !.raw = <<t.raw[1], t.raw[2] - k>>]
      /\ Becomes(Back(t, k), t, t.pc, <<t.raw[1], t.raw[2] - k>>, t.data, t.n, t.tt)
  BY ONLY TypeFits(t), k \in Int, Backs
<1> QED BY ONLY <1>1, <1>2 DEF Unread
LEMMA BacksTwo ==
    ASSUME NEW t, TypeFits(t)
    PROVE  Becomes(Back(t, 2), t, t.pc, <<t.raw[1], t.raw[2] - 2>>, t.data, t.n, t.tt)
<1>1. PICK k \in Int : k = 2
  OBVIOUS
<1>2. Becomes(Back(t, k), t, t.pc, <<t.raw[1], t.raw[2] - k>>, t.data, t.n, t.tt)
  BY ONLY TypeFits(t), k \in Int, Backs
<1> QED BY ONLY <1>1, <1>2
LEMMA PairIs == ASSUME NEW p \in Int \X Int PROVE <<p[1], p[2]>> = p
OBVIOUS

LEMMA GoesTo ==
    ASSUME NEW t, TypeFits(t), NEW pc \in Places
    PROVE  Becomes(Goto(t, pc), t, pc, t.raw, t.data, t.n, t.tt)
BY DEF TypeFits, Goto, Becomes, Keeps
LEMMA IsReturned ==
    ASSUME NEW t, TypeFits(t), NEW tt \in Kinds
    PROVE  Becomes(Returns(t, tt), t, "returned", t.raw, t.data, t.n, tt)
<1>1. Returns(t, tt) = [t EXCEPT !.pc = "returned", !.tt = tt]
  BY ONLY DEF Returns
<1>2. "returned" \in Places
  BY DEF Places
<1>3. TypeFits(Returns(t, tt))
  BY ONLY <1>1, <1>2, TypeFits(t), tt \in Kinds DEF TypeFits
<1>4. /\ Returns(t, tt).pc = "returned" /\ Returns(t, tt).tt = tt /\ Keeps(Returns(t, tt), t)
      /\ Returns(t, tt).raw = t.raw /\ Returns(t, tt).data = t.data /\ Returns(t, tt).n = t.n
  BY ONLY <1>1, TypeFits(t) DEF TypeFits, Keeps
<1> QED BY ONLY <1>3, <1>4 DEF Becomes
LEMMA DataBegins ==
    ASSUME NEW t, TypeFits(t)
    PROVE  Becomes(DataStarts(t), t, t.pc, t.raw, <<t.raw[2], t.data[2]>>, t.n, t.tt)
<1> DEFINE data == <<t.raw[2], t.data[2]>>
           u == DataStarts(t)
<1>1. [t.data EXCEPT ![1] = t.raw[2]] = data
  BY Pairs DEF TypeFits
<1>2. u = [t EXCEPT !.data = [t.data EXCEPT ![1] = t.raw[2]]]
  BY DEF TypeFits, DataStarts
<1>3. u = [t EXCEPT !.data = data]
  BY <1>1, <1>2
<1>4. data \in Int \X Int
  BY HasNumbers DEF Numbers
<1>5. Becomes([t EXCEPT !.data = data], t, t.pc, t.raw, data, t.n, t.tt)
  <2> HIDE DEF data
  <2> QED BY ONLY TypeFits(t), <1>4, SetsData
<1> QED BY ONLY <1>3, <1>5
LEMMA DataIsOver ==
    ASSUME NEW t, TypeFits(t), NEW k \in Int
    PROVE  Becomes(DataEnds(t, k), t, t.pc, t.raw, <<t.data[1], t.raw[2] - k>>, t.n, t.tt)
<1> DEFINE data == <<t.data[1], t.raw[2] - k>>
           u == DataEnds(t, k)
<1>1. [t.data EXCEPT ![2] = t.raw[2] - k] = data
  BY Pairs DEF TypeFits
<1>2. u = [t EXCEPT !.data = [t.data EXCEPT ![2] = t.raw[2] - k]]
  BY DEF TypeFits, DataEnds
<1>3. u = [t EXCEPT !.data = data]
  BY <1>1, <1>2
<1>4. data \in Int \X Int
  BY HasNumbers DEF Numbers
<1>5. Becomes([t EXCEPT !.data = data], t, t.pc, t.raw, data, t.n, t.tt)
  <2> HIDE DEF data
  <2> QED BY ONLY TypeFits(t), <1>4, SetsData
<1> QED BY ONLY <1>3, <1>5

\* A byte is taken.
Byte(t) == t.buf[t.raw[2] + 1]
Took(t, u) == TokenFits(t) /\ t.raw[2] < Len(t.buf) /\ u = [t EXCEPT !.raw[2] = @ + 1]

LEMMA TookIs ==
    ASSUME NEW t, NEW u, Took(t, u)
    PROVE  /\ Becomes(u, t, t.pc, <<t.raw[1], t.raw[2] + 1>>, t.data, t.n, t.tt)
           /\ TypeFits(t) /\ TypeFits(u) /\ Numbers(t) /\ RawFits(t) /\ RawFits(u) /\ Numbers(u)
           /\ PlaceFits(t) /\ t.raw[2] < Len(t.buf)
           /\ u.raw[1] = t.raw[1] /\ u.raw[2] = t.raw[2] + 1
<1>1. TypeFits(t) /\ RawFits(t) /\ PlaceFits(t) /\ Numbers(t) /\ t.raw[2] < Len(t.buf)
  BY HasNumbers DEF Took, TokenFits
<1>2. Becomes(u, t, t.pc, <<t.raw[1], t.raw[2] + 1>>, t.data, t.n, t.tt)
  BY <1>1, Taking DEF Took
<1>3. TypeFits(u) /\ u.raw = <<t.raw[1], t.raw[2] + 1>> /\ u.buf = t.buf
  BY <1>2 DEF Becomes, Keeps
<1>4. Numbers(u)
  BY <1>3, HasNumbers
<1>5. RawFits(u)
  BY ONLY <1>1, <1>3 DEF RawFits, Numbers
<1>6. u.raw[1] = t.raw[1] /\ u.raw[2] = t.raw[2] + 1
  BY ONLY <1>3
<1> QED BY <1>1, <1>2, <1>3, <1>4, <1>5, <1>6

LEMMA Follows ==
    ASSUME NEW t, NEW u, NEW v, Keeps(u, t), NEW pc, NEW raw, NEW data, NEW n, NEW tt,
           Becomes(v, u, pc, raw, data, n, tt)
    PROVE  Becomes(v, t, pc, raw, data, n, tt)
BY DEF Becomes, Keeps

\* The byte that was taken is unread.
LEMMA Unreads ==
    ASSUME NEW t, NEW u, Took(t, u)
    PROVE  Becomes(Unread(u), t, t.pc, t.raw, t.data, t.n, t.tt)
<1>1. /\ Becomes(u, t, t.pc, <<t.raw[1], t.raw[2] + 1>>, t.data, t.n, t.tt) /\ Numbers(t)
      /\ TypeFits(u) /\ u.raw[1] = t.raw[1] /\ u.raw[2] = t.raw[2] + 1 /\ TypeFits(t)
  BY TookIs
<1>2. Becomes(Unread(u), u, u.pc, <<u.raw[1], u.raw[2] - 1>>, u.data, u.n, u.tt)
  BY <1>1, BacksOne
<1>3. <<u.raw[1], u.raw[2] - 1>> = t.raw
  <2>1. t.raw \in Int \X Int
    BY <1>1 DEF TypeFits
  <2>2. u.raw[1] = t.raw[1] /\ u.raw[2] - 1 = t.raw[2]
    <3>1. u.raw[2] = t.raw[2] + 1 /\ t.raw[2] \in Int /\ u.raw[1] = t.raw[1]
      BY ONLY <1>1 DEF Numbers
    <3> QED BY ONLY <3>1
  <2> QED BY ONLY <2>1, <2>2, PairIs
<1>4. u.pc = t.pc /\ u.data = t.data /\ u.n = t.n /\ u.tt = t.tt /\ Keeps(u, t)
  BY <1>1 DEF Becomes
<1> QED BY <1>2, <1>3, <1>4, Follows

-----------------------------------------------------------------------------
(* A byte of text, and the byte after it, is taken. *)

\* Text.
LEMMA TagsStayOut ==
    ASSUME NEW buf, NEW a \in Int, NEW b \in Int, NoTags(buf, a, b),
           a < b /\ buf[b] = "<" => buf[b + 1] \notin Begins
    PROVE  NoTags(buf, a, b + 1)
<1> SUFFICES ASSUME NEW k \in a + 1..b, buf[k] = "<", buf[k + 1] \in Begins PROVE FALSE
  BY DEF NoTags
<1>1. k = b
  BY DEF NoTags
<1> QED BY <1>1

LEMMA TextTakes ==
    ASSUME NEW t, NEW u, Took(t, u), t.pc = "text"
    PROVE  TokenFits(IF Byte(t) = "<" THEN Goto(u, "lessThan") ELSE u)
<1> DEFINE lo == t.raw[1]
           e == t.raw[2]
<1>1. /\ Becomes(u, t, "text", <<lo, e + 1>>, t.data, t.n, t.tt) /\ Numbers(t) /\ AtText(t)
      /\ RawFits(t) /\ RawFits(u) /\ TypeFits(u) /\ u.raw[1] = lo /\ u.raw[2] = e + 1
      /\ u.buf = t.buf
  BY TookIs DEF PlaceFits, Becomes, Keeps
<1>2. lo < e /\ t.buf[e] = "<" => t.buf[e + 1] \notin Begins
  BY ONLY <1>1 DEF AtText, Peeks, Latest
<1>3. NoTags(t.buf, lo, e + 1)
  BY ONLY <1>1, <1>2, TagsStayOut DEF AtText, Numbers
<1>4. ASSUME NEW v, Becomes(v, t, v.pc, <<lo, e + 1>>, t.data, t.n, t.tt)
      PROVE  /\ RawFits(v) /\ TypeFits(v) /\ Outside(v) /\ FromStart(v) /\ v.raw[1] < v.raw[2]
             /\ NoTags(v.buf, v.raw[1], v.raw[2]) /\ Latest(v) = Byte(t)
  <2>1. v.raw[1] = lo /\ v.raw[2] = e + 1 /\ v.buf = t.buf /\ v.data = t.data /\ v.n = t.n
        /\ v.rawTag = t.rawTag /\ TypeFits(v)
    BY ONLY <1>4 DEF Becomes, Keeps
  <2>2. lo < e + 1
    BY ONLY <1>1 DEF RawFits, Numbers
  <2>3. RawFits(v)
    BY ONLY <1>1, <2>1 DEF RawFits
  <2> QED BY ONLY <2>1, <2>2, <2>3, <1>1, <1>3 DEF AtText, Outside, FromStart, Latest, Byte
<1>5. CASE Byte(t) = "<"
  <2> DEFINE v == Goto(u, "lessThan")
  <2>1. Becomes(v, t, "lessThan", <<lo, e + 1>>, t.data, t.n, t.tt)
    <3>1. Becomes(v, u, "lessThan", u.raw, u.data, u.n, u.tt)
      BY <1>1, GoesTo DEF Places, Plain
    <3> QED BY <3>1, <1>1, Follows DEF Becomes
  <2>2. v.pc = "lessThan"
    BY <2>1 DEF Becomes
  <2> QED BY <1>4, <1>5, <2>1, <2>2 DEF TokenFits, PlaceFits, AtLessThan
<1>6. CASE Byte(t) # "<"
  <2>1. u.pc = "text"
    BY <1>1 DEF Becomes
  <2> QED BY <1>4, <1>6, <1>1, <2>1 DEF TokenFits, PlaceFits, AtText
<1> QED BY <1>5, <1>6

\* A tag is begun.
BeginsTag(u, start) ==
    [u EXCEPT !.pc = "name", !.data[1] = u.raw[2] - 1, !.attr = <<>>, !.start = start]
LEMMA TagBegins ==
    ASSUME NEW u, TypeFits(u), NEW start \in BOOLEAN, NEW v, v = BeginsTag(u, start)
    PROVE  /\ TypeFits(v) /\ v.pc = "name" /\ v.raw = u.raw /\ v.buf = u.buf /\ v.attr = <<>>
           /\ v.data = <<u.raw[2] - 1, u.data[2]>> /\ v.n = u.n /\ v.rawTag = u.rawTag
           /\ v.start = start
<1> DEFINE data == <<u.raw[2] - 1, u.data[2]>>
<1>1. [u.data EXCEPT ![1] = u.raw[2] - 1] = data
  BY Pairs DEF TypeFits
<1>2. v = [u EXCEPT !.pc = "name", !.data = [u.data EXCEPT ![1] = u.raw[2] - 1], !.attr = <<>>,
                    !.start = start]
  BY DEF TypeFits, BeginsTag
<1>3. v = [u EXCEPT !.pc = "name", !.data = data, !.attr = <<>>, !.start = start]
  BY <1>1, <1>2
<1>4. data \in Int \X Int
  BY HasNumbers DEF Numbers
<1>5. "name" \in Places /\ <<>> \in Seq((Int \X Int) \X (Int \X Int))
  BY DEF Places, InTag
<1>6. v \in [pc : Places, tt : Kinds, buf : Seq(STRING), raw : Int \X Int, data : Int \X Int,
             key : Int \X Int, val : Int \X Int, attr : Seq((Int \X Int) \X (Int \X Int)),
             start : BOOLEAN, quote : Quotes, n : 0..2, else : Places,
             rawTag : RawNames \cup {"none"},
             markup : BOOLEAN, cdata : BOOLEAN, eof : BOOLEAN, err : BOOLEAN]
  <2> HIDE DEF data
  <2> QED BY ONLY TypeFits(u), start \in BOOLEAN, <1>3, <1>4, <1>5 DEF TypeFits
<1>7. /\ v.pc = "name" /\ v.raw = u.raw /\ v.buf = u.buf /\ v.attr = <<>> /\ v.data = data
      /\ v.n = u.n /\ v.rawTag = u.rawTag /\ v.start = start
  BY <1>3 DEF TypeFits
<1> QED BY ONLY <1>6, <1>7 DEF TypeFits

\* The name follows the "<" or the "/" that was taken last.
LEMMA NameIsBegun ==
    ASSUME NEW t, NEW u, Took(t, u), Outside(t), Byte(t) \in Letter, NEW start \in BOOLEAN,
           t.raw[1] < t.raw[2], Latest(t) = IF start THEN "<" ELSE "/",
           NEW v, v = BeginsTag(u, start)
    PROVE  TokenFits(v)
<1> DEFINE lo == t.raw[1]
           e == t.raw[2]
<1>1. /\ TypeFits(u) /\ Numbers(t) /\ RawFits(u) /\ u.raw[1] = lo /\ u.raw[2] = e + 1
      /\ u.buf = t.buf /\ u.n = t.n /\ u.rawTag = t.rawTag
  BY TookIs DEF Becomes, Keeps
<1>2. /\ TypeFits(v) /\ v.pc = "name" /\ v.raw = u.raw /\ v.buf = u.buf /\ v.attr = <<>>
      /\ v.data[1] = e /\ v.n = u.n /\ v.rawTag = u.rawTag /\ v.start = start
  <2>1. u.raw[2] - 1 = e
    BY ONLY <1>1 DEF Numbers
  <2>2. /\ TypeFits(v) /\ v.pc = "name" /\ v.raw = u.raw /\ v.buf = u.buf /\ v.attr = <<>>
        /\ v.data = <<u.raw[2] - 1, u.data[2]>> /\ v.n = u.n /\ v.rawTag = u.rawTag
        /\ v.start = start
    <3>1. TypeFits(u)
      BY ONLY <1>1
    <3> QED BY <3>1, TagBegins
  <2> QED BY ONLY <2>1, <2>2
<1>3. NoneOf(t.buf, e, e + 1, TagEnd)
  <2>1. t.buf[e + 1] \notin TagEnd
    BY DEF Byte, Letter, TagEnd, Space
  <2> QED BY <2>1, <1>1 DEF NoneOf, Numbers
<1>4. RawFits(v)
  BY ONLY <1>1, <1>2 DEF RawFits
<1>5. InName(v)
  BY <1>1, <1>2, <1>3 DEF InName, Latest, Numbers
<1>6. AtName(v)
  BY <1>1, <1>2, <1>5 DEF AtName, Outside
<1> QED BY <1>2, <1>4, <1>6 DEF TokenFits, PlaceFits

\* A bogus comment from the byte that is unread.
LEMMA BogusBegins ==
    ASSUME NEW t, NEW u, Took(t, u), Outside(t), t.raw[1] < t.raw[2], NEW v,
           v = [DataStarts(Unread(u)) EXCEPT !.pc = "angle", !.tt = "comment"]
    PROVE  TokenFits(v)
<1> DEFINE w == Unread(u)
           x == DataStarts(w)
<1>1. Numbers(t) /\ RawFits(t) /\ TypeFits(t)
  BY TookIs
<1>2. Becomes(w, t, t.pc, t.raw, t.data, t.n, t.tt)
  BY Unreads
<1>3. Becomes(x, w, w.pc, w.raw, <<w.raw[2], w.data[2]>>, w.n, w.tt)
  BY <1>2, DataBegins DEF Becomes
<1>4. /\ TypeFits(x) /\ x.raw = t.raw /\ x.data[1] = t.raw[2] /\ x.n = t.n /\ x.rawTag = t.rawTag
      /\ x.buf = t.buf
  BY ONLY <1>2, <1>3 DEF Becomes, Keeps
<1>5. "angle" \in Places /\ "comment" \in Kinds
  BY DEF Places, Declared, Kinds
<1>6. /\ TypeFits(v) /\ v.raw = x.raw /\ v.data = x.data /\ v.n = x.n /\ v.rawTag = x.rawTag
      /\ v.buf = x.buf /\ v.pc = "angle" /\ v.tt = "comment"
  BY ONLY <1>4, <1>5, v = [x EXCEPT !.pc = "angle", !.tt = "comment"] DEF TypeFits
<1>7. RawFits(v)
  BY ONLY <1>1, <1>4, <1>6 DEF RawFits
<1>8. AtAngle(v)
  <2>1. v.raw = t.raw /\ v.data[1] = t.raw[2] /\ v.n = t.n /\ v.rawTag = t.rawTag
    BY ONLY <1>4, <1>6
  <2>2. t.raw[1] \in Int /\ t.raw[2] \in Int /\ t.rawTag = "none" /\ t.n = 0
    BY <1>1 DEF Numbers, Outside
  <2> QED BY ONLY <1>6, <2>1, <2>2, t.raw[1] < t.raw[2] DEF AtAngle, InMarkup
<1> QED BY ONLY <1>6, <1>7, <1>8 DEF TokenFits, PlaceFits

LEMMA LessThanTakes ==
    ASSUME NEW t, NEW u, Took(t, u), t.pc = "lessThan", NEW v, v = AfterLess(u, Byte(t))
    PROVE  TokenFits(v)
<1> DEFINE lo == t.raw[1]
           e == t.raw[2]
           c == Byte(t)
<1>v. v = AfterLess(u, c)
  OBVIOUS
<1>1. /\ Becomes(u, t, "lessThan", <<lo, e + 1>>, t.data, t.n, t.tt) /\ Numbers(t) /\ AtLessThan(t)
      /\ RawFits(t) /\ RawFits(u) /\ TypeFits(u) /\ u.raw[1] = lo /\ u.raw[2] = e + 1
      /\ u.buf = t.buf /\ TypeFits(t) /\ e < Len(t.buf) /\ Keeps(u, t) /\ u.tt = t.tt
      /\ u.data = t.data /\ u.n = t.n /\ u.pc = t.pc
  BY TookIs DEF PlaceFits, Becomes, Keeps
<1>2. /\ Outside(t) /\ t.data[1] = lo /\ t.data[2] = lo /\ NoTags(t.buf, lo, e) /\ lo < e
      /\ t.buf[e] = "<" /\ FromStart(t)
  BY ONLY <1>1 DEF AtLessThan, FromStart, Latest
<1>3. CASE c \notin Letter \cup {"/", "!", "?"}
  <2>1. v = Goto(Unread(u), "text")
    BY ONLY <1>v, <1>3 DEF AfterLess
  <2>2. Becomes(Unread(u), t, t.pc, t.raw, t.data, t.n, t.tt)
    BY Unreads
  <2>3. Becomes(v, t, "text", t.raw, t.data, t.n, t.tt)
    <3>1. TypeFits(Unread(u)) /\ "text" \in Places
      BY <2>2 DEF Becomes, Places, Plain
    <3>2. Becomes(v, Unread(u), "text", Unread(u).raw, Unread(u).data, Unread(u).n, Unread(u).tt)
      BY ONLY <3>1, <2>1, GoesTo
    <3> QED BY ONLY <2>2, <3>2, Follows DEF Becomes
  <2>4. ~Peeks(v, Begins) /\ e < Len(v.buf)
    BY ONLY <1>1, <1>3, <2>3 DEF Becomes, Keeps, Peeks, Begins, Byte
  <2>5. AtText(v)
    BY ONLY <1>1, <1>2, <2>3, <2>4 DEF AtText, Becomes, Keeps, Outside, FromStart
  <2>6. RawFits(v) /\ TypeFits(v) /\ v.pc = "text"
    BY ONLY <1>1, <2>3 DEF RawFits, Becomes, Keeps
  <2> QED BY ONLY <2>5, <2>6 DEF TokenFits, PlaceFits
<1>4. CASE c \in Letter \cup {"/", "!", "?"} /\ lo < e - 1
  <2>1. v = Returns(DataEnds(Back(u, 2), 0), "text")
    <3>1. u.raw[1] < u.raw[2] - 2
      BY ONLY <1>1, <1>4 DEF Numbers
    <3> QED BY ONLY <1>v, <1>4, <3>1 DEF AfterLess
  <2> DEFINE w == Back(u, 2)
             x == DataEnds(w, 0)
  <2>2. Becomes(w, t, t.pc, <<lo, e - 1>>, t.data, t.n, t.tt)
    <3>1. Becomes(w, u, u.pc, <<u.raw[1], u.raw[2] - 2>>, u.data, u.n, u.tt)
      <4>1. TypeFits(u)
        BY ONLY <1>1
      <4> QED BY <4>1, BacksTwo
    <3>2. u.raw[1] = lo /\ u.raw[2] - 2 = e - 1
      BY ONLY <1>1 DEF Numbers
    <3> QED BY <3>1, <3>2, <1>1, Follows
  <2>3. Becomes(x, t, t.pc, <<lo, e - 1>>, <<lo, e - 1>>, t.n, t.tt)
    <3>1. /\ TypeFits(w) /\ w.raw = <<lo, e - 1>> /\ w.data[1] = lo /\ w.pc = t.pc /\ w.n = t.n
          /\ w.tt = t.tt /\ Keeps(w, t)
      BY ONLY <2>2, <1>2 DEF Becomes
    <3>2. Becomes(x, w, w.pc, w.raw, <<w.data[1], w.raw[2] - 0>>, w.n, w.tt)
      BY <3>1, DataIsOver
    <3>3. w.raw[2] - 0 = e - 1
      BY ONLY <3>1, <1>1 DEF Numbers
    <3> QED BY <3>1, <3>2, <3>3, Follows
  <2>4. Becomes(v, t, "returned", <<lo, e - 1>>, <<lo, e - 1>>, t.n, "text")
    <3>1. TypeFits(x) /\ "text" \in Kinds /\ Keeps(x, t) /\ x.raw = <<lo, e - 1>>
          /\ x.data = <<lo, e - 1>> /\ x.n = t.n
      BY <2>3 DEF Becomes, Kinds
    <3>2. Becomes(v, x, "returned", x.raw, x.data, x.n, "text")
      BY ONLY <3>1, <2>1, IsReturned
    <3> QED BY ONLY <3>1, <3>2, Follows
  <2>5. NoTags(t.buf, lo, e - 1)
    <3>1. lo \in Int /\ e \in Int
      BY ONLY <1>1 DEF Numbers
    <3> QED BY ONLY <1>2, <3>1 DEF NoTags
  <2>6. /\ v.raw[1] = lo /\ v.raw[2] = e - 1 /\ v.data[1] = lo /\ v.data[2] = e - 1
        /\ v.buf = t.buf /\ v.tt = "text" /\ v.pc = "returned" /\ TypeFits(v)
    BY ONLY <2>4 DEF Becomes, Keeps
  <2>7. AtReturn(v)
    BY ONLY <1>1, <1>4, <2>5, <2>6 DEF AtReturn, Inside, Numbers
  <2>8. RawFits(v)
    BY ONLY <1>1, <1>4, <2>6 DEF RawFits, Numbers
  <2> QED BY ONLY <2>6, <2>7, <2>8 DEF TokenFits, PlaceFits
<1>5. CASE c \in Letter \cup {"/", "!", "?"} /\ ~(lo < e - 1)
  <2>1. e = lo + 1 /\ ~(u.raw[1] < u.raw[2] - 2)
    BY ONLY <1>1, <1>2, <1>5 DEF Numbers
  <2>2. CASE c \in Letter
    <3>1. v = BeginsTag(u, TRUE)
      BY ONLY <1>v, <1>5, <2>1, <2>2 DEF AfterLess, BeginsTag, Letter
    <3> QED BY <3>1, <1>2, <2>2, NameIsBegun DEF Latest
  <2>3. CASE c = "/"
    <3>1. v = Goto(u, "endTag")
      BY ONLY <1>v, <1>5, <2>1, <2>3 DEF AfterLess, Letter
    <3>2. Becomes(v, t, "endTag", <<lo, e + 1>>, t.data, t.n, t.tt)
      <4>1. Becomes(v, u, "endTag", u.raw, u.data, u.n, u.tt)
        BY <1>1, <3>1, GoesTo DEF Places, Plain
      <4> QED BY <4>1, <1>1, Follows DEF Becomes
    <3>3. /\ v.raw[1] = lo /\ v.raw[2] = e + 1 /\ v.data = t.data /\ v.buf = t.buf /\ v.n = t.n
          /\ v.rawTag = t.rawTag /\ v.pc = "endTag" /\ TypeFits(v)
      BY ONLY <3>2 DEF Becomes, Keeps
    <3>4. RawFits(v)
      BY ONLY <1>1, <3>3 DEF RawFits
    <3>5. AtEndTag(v)
      <4>1. v.raw[2] = v.raw[1] + 2
        BY ONLY <1>1, <2>1, <3>3 DEF Numbers
      <4>2. Latest(v) = "/"
        BY ONLY <2>3, <3>3 DEF Latest, Byte
      <4> QED BY ONLY <1>2, <3>3, <4>1, <4>2 DEF AtEndTag, Outside, FromStart
    <3> QED BY ONLY <3>3, <3>4, <3>5 DEF TokenFits, PlaceFits
  <2>4. CASE c = "!"
    <3>1. v = Goto(DataStarts(u), "declaration")
      BY ONLY <1>v, <1>5, <2>1, <2>4 DEF AfterLess, Letter
    <3> DEFINE w == DataStarts(u)
    <3>2. Becomes(w, u, u.pc, u.raw, <<u.raw[2], u.data[2]>>, u.n, u.tt)
      BY <1>1, DataBegins
    <3>3. Becomes(v, w, "declaration", w.raw, w.data, w.n, w.tt)
      BY <3>1, <3>2, GoesTo DEF Places, Declared, Becomes
    <3>4. /\ v.raw[1] = lo /\ v.raw[2] = e + 1 /\ v.data[1] = e + 1 /\ v.buf = t.buf /\ v.n = t.n
          /\ v.rawTag = t.rawTag /\ v.pc = "declaration" /\ TypeFits(v)
      BY ONLY <1>1, <3>2, <3>3 DEF Becomes, Keeps
    <3>5. RawFits(v)
      BY ONLY <1>1, <3>4 DEF RawFits
    <3>6. InWord(v)
      <4>1. lo \in Int /\ e \in Int
        BY ONLY <1>1 DEF Numbers
      <4>2. v.rawTag = "none" /\ v.n = 0
        BY ONLY <1>2, <3>4 DEF Outside
      <4>3. lo < e /\ v.raw[1] = lo /\ v.raw[2] = e + 1 /\ v.data[1] = e + 1
        BY ONLY <1>2, <3>4
      <4> HIDE DEF lo, e
      <4> QED BY ONLY <4>1, <4>2, <4>3 DEF InWord, InMarkup
    <3> QED BY ONLY <3>4, <3>5, <3>6 DEF TokenFits, PlaceFits
  <2>5. CASE c = "?"
    <3>1. v = [DataStarts(Unread(u)) EXCEPT !.pc = "angle", !.tt = "comment"]
      BY ONLY <1>v, <1>5, <2>1, <2>5 DEF AfterLess, Letter
    <3> QED BY <3>1, <1>2, BogusBegins
  <2> QED BY <1>5, <2>2, <2>3, <2>4, <2>5
<1> QED BY <1>3, <1>4, <1>5

\* What is left alone when a byte is taken or unread.
Stays(v, t) == Keeps(v, t) /\ v.data = t.data /\ v.n = t.n /\ v.tt = t.tt
At(v, pc, lo, e) ==
    TypeFits(v) /\ RawFits(v) /\ Numbers(v) /\ v.pc = pc /\ v.raw[1] = lo /\ v.raw[2] = e

LEMMA UnreadIs == ASSUME NEW t, NEW u, Took(t, u) PROVE Unread(u) = t
<1>1. TypeFits(t) /\ TypeFits(u) /\ Numbers(t)
  BY TookIs
<1>2. u = [t EXCEPT !.raw = <<t.raw[1], t.raw[2] + 1>>]
  BY <1>1, Taking DEF Took
<1>3. u.raw[1] = t.raw[1] /\ u.raw[2] = t.raw[2] + 1
  BY TookIs
<1>4. Unread(u) = [u EXCEPT !.raw = <<u.raw[1], u.raw[2] - 1>>]
  BY <1>1, BacksOne
<1>5. <<u.raw[1], u.raw[2] - 1>> = <<t.raw[1], t.raw[2]>>
  BY ONLY <1>1, <1>3 DEF Numbers
<1>6. <<t.raw[1], t.raw[2]>> = t.raw
  <2>1. t.raw \in Int \X Int
    BY <1>1 DEF TypeFits
  <2> QED BY ONLY <2>1, PairIs
<1>7. Unread(u) = [t EXCEPT !.raw = t.raw]
  BY ONLY <1>1, <1>2, <1>4, <1>5, <1>6 DEF TypeFits
<1> QED BY ONLY <1>1, <1>7 DEF TypeFits

LEMMA ReadsOn ==
    ASSUME NEW t, NEW u, Took(t, u), NEW pc \in Places, NEW v, v = Goto(u, pc)
    PROVE  /\ At(v, pc, t.raw[1], t.raw[2] + 1) /\ Stays(v, t) /\ Latest(v) = Byte(t)
           /\ Numbers(t)
<1>1. /\ Becomes(u, t, t.pc, <<t.raw[1], t.raw[2] + 1>>, t.data, t.n, t.tt) /\ TypeFits(u)
      /\ RawFits(u) /\ u.raw[1] = t.raw[1] /\ u.raw[2] = t.raw[2] + 1 /\ Numbers(t)
  BY TookIs
<1>2. Becomes(v, u, pc, u.raw, u.data, u.n, u.tt)
  BY <1>1, GoesTo
<1>3. TypeFits(v) /\ v.pc = pc /\ v.raw = u.raw /\ Stays(v, t) /\ v.buf = u.buf /\ v.buf = t.buf
  BY ONLY <1>1, <1>2 DEF Becomes, Keeps, Stays
<1>4. Numbers(v)
  BY <1>3, HasNumbers
<1>5. RawFits(v)
  BY ONLY <1>1, <1>3 DEF RawFits
<1>6. v.raw[1] = t.raw[1] /\ v.raw[2] = t.raw[2] + 1
  BY ONLY <1>1, <1>3
<1>7. Latest(v) = Byte(t)
  BY ONLY <1>3, <1>6 DEF Latest, Byte
<1> QED BY ONLY <1>1, <1>3, <1>4, <1>5, <1>6, <1>7 DEF At

LEMMA StaysThere ==
    ASSUME NEW t, NEW u, Took(t, u)
    PROVE  /\ At(u, t.pc, t.raw[1], t.raw[2] + 1) /\ Stays(u, t) /\ Latest(u) = Byte(t)
           /\ Numbers(t)
<1>1. /\ Becomes(u, t, t.pc, <<t.raw[1], t.raw[2] + 1>>, t.data, t.n, t.tt) /\ TypeFits(u)
      /\ RawFits(u) /\ u.raw[1] = t.raw[1] /\ u.raw[2] = t.raw[2] + 1 /\ Numbers(t) /\ Numbers(u)
  BY TookIs
<1>2. u.pc = t.pc /\ Stays(u, t)
  BY ONLY <1>1 DEF Becomes, Stays
<1>7. Latest(u) = Byte(t)
  BY ONLY <1>1, <1>2 DEF Latest, Byte, Stays, Keeps
<1> QED BY ONLY <1>1, <1>2, <1>7 DEF At

LEMMA GoesBack ==
    ASSUME NEW t, NEW u, Took(t, u), NEW pc \in Places, NEW v, v = Goto(Unread(u), pc)
    PROVE  At(v, pc, t.raw[1], t.raw[2]) /\ Stays(v, t) /\ v.raw[2] < Len(v.buf) /\ Numbers(t)
<1>1. TypeFits(t) /\ RawFits(t) /\ t.raw[2] < Len(t.buf) /\ Numbers(t)
  BY TookIs
<1>2. v = Goto(t, pc)
  BY UnreadIs
<1>3. Becomes(v, t, pc, t.raw, t.data, t.n, t.tt)
  BY <1>1, <1>2, GoesTo
<1>4. TypeFits(v) /\ v.pc = pc /\ v.raw = t.raw /\ Stays(v, t) /\ v.buf = t.buf
  BY ONLY <1>3 DEF Becomes, Keeps, Stays
<1>5. Numbers(v) /\ RawFits(v) /\ v.raw[2] < Len(v.buf)
  BY ONLY <1>1, <1>4, HasNumbers DEF RawFits
<1>6. v.raw[1] = t.raw[1] /\ v.raw[2] = t.raw[2]
  BY ONLY <1>4
<1> QED BY ONLY <1>1, <1>4, <1>5, <1>6 DEF At

LEMMA ReturnsNow ==
    ASSUME NEW t, NEW u, Took(t, u), NEW tt \in Kinds, NEW v, v = Returns(u, tt)
    PROVE  /\ At(v, "returned", t.raw[1], t.raw[2] + 1) /\ Keeps(v, t) /\ v.data = t.data
           /\ v.tt = tt /\ Latest(v) = Byte(t) /\ Numbers(t)
<1>1. /\ Becomes(u, t, t.pc, <<t.raw[1], t.raw[2] + 1>>, t.data, t.n, t.tt) /\ TypeFits(u)
      /\ RawFits(u) /\ u.raw[1] = t.raw[1] /\ u.raw[2] = t.raw[2] + 1 /\ Numbers(t)
  BY TookIs
<1>2. Becomes(v, u, "returned", u.raw, u.data, u.n, tt)
  BY <1>1, IsReturned
<1>3. /\ TypeFits(v) /\ v.pc = "returned" /\ v.raw = u.raw /\ Keeps(v, t) /\ v.buf = u.buf
      /\ v.buf = t.buf /\ v.tt = tt /\ v.data = t.data
  BY ONLY <1>1, <1>2 DEF Becomes, Keeps
<1>4. Numbers(v)
  BY <1>3, HasNumbers
<1>5. RawFits(v)
  BY ONLY <1>1, <1>3 DEF RawFits
<1>6. v.raw[1] = t.raw[1] /\ v.raw[2] = t.raw[2] + 1
  BY ONLY <1>1, <1>3
<1>7. Latest(v) = Byte(t)
  BY ONLY <1>3, <1>6 DEF Latest, Byte
<1> QED BY ONLY <1>1, <1>3, <1>4, <1>5, <1>6, <1>7 DEF At

LEMMA EndTagTakes ==
    ASSUME NEW t, NEW u, Took(t, u), t.pc = "endTag", NEW v, v = AfterEndTagOpen(u, Byte(t))
    PROVE  TokenFits(v)
<1>1. AtEndTag(t)
  BY TookIs DEF PlaceFits
<1>2. Numbers(t)
  BY TookIs
<1>3. Outside(t) /\ t.data[1] = t.raw[1] /\ t.data[2] = t.raw[1] /\ t.raw[2] = t.raw[1] + 2
      /\ Latest(t) = "/"
  BY ONLY <1>1, <1>2 DEF AtEndTag, FromStart, Numbers
<1>4. t.raw[1] < t.raw[2]
  BY ONLY <1>2, <1>3 DEF Numbers
<1>5. CASE Byte(t) = ">"
  <2>1. v = Returns(u, "comment")
    BY <1>5 DEF AfterEndTagOpen, Letter
  <2>2. /\ At(v, "returned", t.raw[1], t.raw[2] + 1) /\ Keeps(v, t) /\ v.data = t.data
        /\ v.tt = "comment"
    BY <2>1, ReturnsNow DEF Kinds
  <2>3. AtReturn(v)
    <3>1. v.raw[1] < v.raw[2] /\ Inside(v.data, v.raw)
      <4>1. t.raw[1] \in Int /\ t.raw[2] \in Int
        BY ONLY <1>2 DEF Numbers
      <4>2. /\ v.raw[1] = t.raw[1] /\ v.raw[2] = t.raw[2] + 1
            /\ v.data[1] = t.raw[1] /\ v.data[2] = t.raw[1]
        BY ONLY <1>3, <2>2 DEF At
      <4> QED BY ONLY <1>3, <4>1, <4>2 DEF Inside
    <3> QED BY ONLY <2>2, <3>1 DEF AtReturn
  <2> QED BY ONLY <2>2, <2>3 DEF TokenFits, PlaceFits, At
<1>6. CASE Byte(t) \in Letter
  <2>1. v = BeginsTag(u, FALSE)
    BY <1>6 DEF AfterEndTagOpen, Letter, BeginsTag
  <2> QED BY <1>3, <1>4, <1>6, <2>1, NameIsBegun
<1>7. CASE Byte(t) \notin Letter \cup {">"}
  <2>1. v = [DataStarts(Unread(u)) EXCEPT !.pc = "angle", !.tt = "comment"]
    BY <1>7 DEF AfterEndTagOpen
  <2> QED BY <1>3, <1>4, <2>1, BogusBegins
<1> QED BY <1>5, <1>6, <1>7

-----------------------------------------------------------------------------
(* A byte of a tag is taken. *)

\* The tag so far stays as it is.
SameTag(v, t) ==
    /\ v.buf = t.buf /\ v.data = t.data /\ v.attr = t.attr /\ v.start = t.start
    /\ v.rawTag = t.rawTag /\ v.n = t.n
Sound(t) == TypeFits(t) /\ RawFits(t) /\ Numbers(t)
Reaches(v, t) == v.raw[1] = t.raw[1] /\ t.raw[2] <= v.raw[2] /\ v.raw[2] <= Len(v.buf)

LEMMA SpansAre ==
    ASSUME NEW t, TypeFits(t), NEW i \in DOMAIN t.attr
    PROVE  t.attr[i][1] \in Int \X Int /\ t.attr[i][2] \in Int \X Int
<1>1. t.attr \in Seq((Int \X Int) \X (Int \X Int))
  BY DEF TypeFits
<1>2. t.attr[i] \in (Int \X Int) \X (Int \X Int)
  BY ONLY <1>1, i \in DOMAIN t.attr
<1> QED BY ONLY <1>2

LEMMA StaysNamed ==
    ASSUME NEW t, NEW v, Sound(t), Numbers(v), Named(t), SameTag(v, t), Reaches(v, t)
    PROVE  Named(v)
<1>1. Outside(v)
  BY DEF Outside, Named, SameTag
<1>2. NameFits(v)
  <2>1. NameFits(t) /\ SameTag(v, t) /\ v.raw[1] = t.raw[1]
    BY DEF Named, Reaches
  <2>2. t.data[2] <= v.raw[2]
    <3>1. /\ t.data[2] \in Int /\ t.raw[2] \in Int /\ v.raw[2] \in Int
          /\ t.data[2] <= t.raw[2] /\ t.raw[2] <= v.raw[2]
      BY DEF NameFits, Named, Reaches, Sound, Numbers
    <3> QED BY ONLY <3>1
  <2> QED BY ONLY <2>1, <2>2 DEF NameFits, SameTag
<1>3. AttrsFit(v)
  <2> SUFFICES ASSUME NEW i \in DOMAIN t.attr
               PROVE  /\ KeyFits(t.buf, t.raw[1], v.raw[2], t.attr[i][1])
                      /\ t.attr[i][1][1] # t.attr[i][1][2]
                      /\ ValFits(t.buf, t.raw[1], v.raw[2], t.attr[i][2])
    BY DEF AttrsFit, SameTag, Reaches
  <2> DEFINE k == t.attr[i][1]
             w == t.attr[i][2]
  <2>1. k \in Int \X Int /\ w \in Int \X Int
    BY SpansAre DEF Sound
  <2>2. /\ KeyFits(t.buf, t.raw[1], t.raw[2], k) /\ k[1] # k[2]
        /\ ValFits(t.buf, t.raw[1], t.raw[2], w)
    BY DEF Named, AttrsFit
  <2>3. k[2] \in Int /\ w[2] \in Int /\ t.raw[2] \in Int /\ v.raw[2] \in Int /\ t.raw[2] <= v.raw[2]
    BY <2>1 DEF Sound, Numbers, Reaches
  <2>4. KeyFits(t.buf, t.raw[1], v.raw[2], k)
    BY ONLY <2>2, <2>3 DEF KeyFits
  <2>5. ValFits(t.buf, t.raw[1], v.raw[2], w)
    <3> HIDE DEF w
    <3>1. w[2] <= v.raw[2]
      <4>1. w[2] <= t.raw[2]
        BY ONLY <2>2 DEF ValFits
      <4> QED BY ONLY <2>3, <4>1
    <3> QED BY ONLY <2>2, <3>1 DEF ValFits
  <2> QED BY <2>2, <2>4, <2>5
<1> QED BY <1>1, <1>2, <1>3 DEF Named

LEMMA StaysKeyed ==
    ASSUME NEW t, NEW v, Sound(t), Numbers(v), Keyed(t), SameTag(v, t), Reaches(v, t), v.key = t.key
    PROVE  Keyed(v)
<1>1. Named(v)
  BY StaysNamed DEF Keyed
<1>2. KeyFits(v.buf, v.raw[1], v.raw[2], v.key)
  BY DEF Keyed, SameTag, Reaches, Sound, Numbers, KeyFits
<1> QED BY <1>1, <1>2 DEF Keyed

LEMMA FreeGrows ==
    ASSUME NEW buf, NEW a \in Int, NEW b \in Int, NEW S, NoneOf(buf, a, b, S), buf[b + 1] \notin S
    PROVE  NoneOf(buf, a, b + 1, S)
<1> SUFFICES ASSUME NEW k \in a + 1..b + 1 PROVE buf[k] \notin S
  BY DEF NoneOf
<1>1. k = b + 1 \/ k \in a + 1..b
  OBVIOUS
<1> QED BY <1>1 DEF NoneOf

LEMMA Same == ASSUME NEW v, NEW t, Stays(v, t) PROVE SameTag(v, t) /\ v.key = t.key /\ v.val = t.val
BY DEF Stays, Keeps, SameTag

\* The byte that is taken, and the tag that stays.
LEMMA TookTag ==
    ASSUME NEW t, NEW u, Took(t, u)
    PROVE  /\ Sound(t) /\ Sound(u) /\ Stays(u, t) /\ SameTag(u, t) /\ Reaches(u, t)
           /\ u.pc = t.pc /\ u.raw[2] = t.raw[2] + 1 /\ u.raw[1] = t.raw[1] /\ u.key = t.key
           /\ u.val = t.val /\ u.quote = t.quote /\ Latest(u) = Byte(t) /\ t.raw[2] < Len(t.buf)
           /\ u.raw[2] - 1 = t.raw[2] /\ PlaceFits(t)
<1>1. /\ At(u, t.pc, t.raw[1], t.raw[2] + 1) /\ Stays(u, t) /\ Latest(u) = Byte(t) /\ Numbers(t)
  BY StaysThere
<1>2. Sound(t) /\ t.raw[2] < Len(t.buf) /\ PlaceFits(t)
  BY TookIs DEF Sound
<1>3. SameTag(u, t) /\ u.key = t.key /\ u.val = t.val
  BY <1>1, Same
<1>4. Reaches(u, t) /\ u.raw[2] - 1 = t.raw[2]
  <2>1. t.raw[2] \in Int /\ u.raw[2] = t.raw[2] + 1 /\ u.raw[1] = t.raw[1]
    BY ONLY <1>1 DEF At, Numbers
  <2>2. u.raw[2] <= Len(u.buf)
    BY ONLY <1>1 DEF At, RawFits
  <2> QED BY ONLY <2>1, <2>2 DEF Reaches
<1> QED BY ONLY <1>1, <1>2, <1>3, <1>4 DEF At, Sound, Stays, Keeps

LEMMA NameTakes ==
    ASSUME NEW t, NEW u, Took(t, u), t.pc = "name", NEW v, v = NameEnds(u, Byte(t))
    PROVE  TokenFits(v)
<1> DEFINE d == t.data[1]
           e == t.raw[2]
           c == Byte(t)
<1>1. Sound(t) /\ AtName(t) /\ e < Len(t.buf)
  BY TookTag DEF PlaceFits
<1>2. d \in Int /\ e \in Int /\ t.raw[1] \in Int /\ Len(t.buf) \in Nat
  BY ONLY <1>1 DEF Sound, Numbers
<1>3. CASE c \in TagEnd
  <2>1. \E w : /\ TypeFits(w) /\ w.buf = t.buf /\ w.attr = <<>> /\ w.start = t.start
               /\ Outside(w) /\ w.data = <<d, e>> /\ w.raw[1] = t.raw[1]
               /\ \/ w.raw[2] = e + 1 /\ c \in Space
                  \/ w.raw[2] = e /\ c \in {"/", ">"}
               /\ v = Goto(w, "white")
    <3>0. Outside(t) /\ t.attr = <<>>
      BY ONLY <1>1 DEF AtName
    <3>1. CASE c \in Space
      <4>1. v = Goto(DataEnds(u, 1), "white")
        BY <3>1 DEF NameEnds, Space
      <4>2. Sound(u) /\ Stays(u, t) /\ u.raw[2] - 1 = e /\ u.raw[2] = e + 1 /\ u.raw[1] = t.raw[1]
        BY TookTag
      <4>3. Becomes(DataEnds(u, 1), u, u.pc, u.raw, <<u.data[1], u.raw[2] - 1>>, u.n, u.tt)
        BY <4>2, DataIsOver DEF Sound
      <4> DEFINE w == DataEnds(u, 1)
      <4>4. u.data[1] = d /\ u.buf = t.buf /\ u.attr = <<>> /\ u.start = t.start /\ Outside(u)
        BY ONLY <3>0, <4>2 DEF Stays, Keeps, Outside
      <4>5. /\ TypeFits(w) /\ w.buf = t.buf /\ w.attr = <<>> /\ w.start = t.start
            /\ Outside(w) /\ w.data = <<d, e>> /\ w.raw[1] = t.raw[1] /\ w.raw[2] = e + 1
        BY ONLY <4>2, <4>3, <4>4 DEF Becomes, Keeps, Outside
      <4>6. v = Goto(w, "white")
        BY ONLY <4>1
      <4> HIDE DEF w
      <4> QED BY ONLY <3>1, <4>6, <4>5
    <3>2. CASE c \in {"/", ">"}
      <4>1. v = Goto(DataEnds(t, 0), "white")
        BY <3>2, UnreadIs DEF NameEnds, Space
      <4>2. Becomes(DataEnds(t, 0), t, t.pc, t.raw, <<d, e - 0>>, t.n, t.tt)
        BY <1>1, DataIsOver DEF Sound
      <4>3. e - 0 = e
        BY ONLY <1>2
      <4> DEFINE w == DataEnds(t, 0)
      <4>5. /\ TypeFits(w) /\ w.buf = t.buf /\ w.attr = <<>> /\ w.start = t.start
            /\ Outside(w) /\ w.data = <<d, e>> /\ w.raw[1] = t.raw[1] /\ w.raw[2] = e
        BY ONLY <3>0, <4>2, <4>3 DEF Becomes, Keeps, Outside
      <4>6. v = Goto(w, "white")
        BY ONLY <4>1
      <4> HIDE DEF w
      <4> QED BY ONLY <3>2, <4>6, <4>5
    <3> QED BY <1>3, <3>1, <3>2 DEF TagEnd
  <2>2. PICK w :
               /\ TypeFits(w) /\ w.buf = t.buf /\ w.attr = <<>> /\ w.start = t.start
               /\ Outside(w) /\ w.data = <<d, e>> /\ w.raw[1] = t.raw[1]
               /\ \/ w.raw[2] = e + 1 /\ c \in Space
                  \/ w.raw[2] = e /\ c \in {"/", ">"}
               /\ v = Goto(w, "white")
    BY ONLY <2>1
  <2>3. Becomes(v, w, "white", w.raw, w.data, w.n, w.tt)
    BY <2>2, GoesTo DEF Places, InTag
  <2>4. /\ TypeFits(v) /\ v.pc = "white" /\ v.buf = t.buf /\ v.attr = <<>> /\ v.start = t.start
        /\ v.raw[1] = t.raw[1] /\ v.data[1] = d /\ v.data[2] = e /\ Outside(v)
        /\ \/ v.raw[2] = e + 1 /\ c \in Space
           \/ v.raw[2] = e /\ c \in {"/", ">"}
    BY ONLY <2>2, <2>3 DEF Becomes, Keeps, Outside
  <2>5. RawFits(v)
    BY ONLY <1>1, <1>2, <2>4 DEF RawFits, Sound
  <2>6. NameFits(v)
    BY ONLY <1>1, <1>2, <1>3, <2>4 DEF NameFits, AtName, InName, Byte
  <2>7. Named(v)
    BY ONLY <2>4, <2>6 DEF Named, AttrsFit
  <2>8. Latest(v) \in BeforeKey \/ Peeks(v, {"/", ">"})
    BY ONLY <1>1, <2>4 DEF Latest, Peeks, Byte, BeforeKey, KeyEnd, TagEnd
  <2> QED BY ONLY <2>4, <2>5, <2>7, <2>8 DEF TokenFits, PlaceFits, AtWhite
<1>4. CASE c \notin TagEnd
  <2>1. v = u
    BY <1>4 DEF NameEnds, TagEnd
  <2>2. Sound(u) /\ SameTag(u, t) /\ u.pc = "name" /\ u.raw[1] = t.raw[1] /\ u.raw[2] = e + 1
    BY TookTag
  <2>3. NoneOf(t.buf, d, e + 1, TagEnd)
    BY <1>1, <1>2, <1>4, FreeGrows DEF AtName, InName, Byte
  <2>4. AtName(u)
    BY ONLY <1>1, <1>2, <2>2, <2>3 DEF AtName, InName, SameTag, Outside
  <2> QED BY ONLY <2>1, <2>2, <2>4 DEF TokenFits, PlaceFits, Sound
<1> QED BY <1>3, <1>4

LEMMA TagIsDone ==
    ASSUME NEW u, Sound(u), Named(u), Latest(u) = ">", NEW v, v = TagDone(u)
    PROVE  TokenFits(v)
<1> DEFINE name == SubSeq(u.buf, u.data[1] + 1, u.data[2])
           tag == IF Len(name) = 1 /\ name[1] \in RawNames THEN name[1] ELSE "none"
           w == IF ~u.start THEN u ELSE [u EXCEPT !.rawTag = tag]
           tt == IF ~u.start THEN "end"
                 ELSE IF u.buf[u.raw[2] - 1] = "/" THEN "selfClosing" ELSE "start"
<1>2. v = Returns(w, tt)
  BY DEF TagDone
<1>3. tt \in Kinds /\ tt \in {"start", "selfClosing", "end"} /\ u.start \in BOOLEAN
      /\ u.start = (tt # "end")
  BY DEF Kinds, Sound, TypeFits
<1>4. /\ TypeFits(w) /\ w.raw = u.raw /\ w.data = u.data /\ w.buf = u.buf /\ w.attr = u.attr
      /\ w.start = u.start
  <2>1. tag \in RawNames \cup {"none"}
    OBVIOUS
  <2> HIDE DEF tag
  <2>2. CASE u.start
    <3>1. w = [u EXCEPT !.rawTag = tag]
      BY ONLY <2>2
    <3> QED BY ONLY <2>1, <3>1, Sound(u) DEF Sound, TypeFits
  <2>3. CASE ~u.start
    <3>1. w = u
      BY ONLY <2>3
    <3> QED BY ONLY <3>1, Sound(u) DEF Sound
  <2> QED BY ONLY <2>2, <2>3
<1> HIDE DEF w, tt
<1>5. Becomes(v, w, "returned", w.raw, w.data, w.n, tt)
  BY ONLY <1>2, <1>3, <1>4, IsReturned
<1>6. /\ TypeFits(v) /\ v.pc = "returned" /\ v.tt = tt /\ v.raw = u.raw /\ v.data = u.data
      /\ v.buf = u.buf /\ v.attr = u.attr /\ v.start = u.start
  BY ONLY <1>4, <1>5 DEF Becomes, Keeps
<1>7. RawFits(v) /\ NameFits(v) /\ AttrsFit(v) /\ Latest(v) = ">"
  <2>1. RawFits(u) /\ NameFits(u) /\ AttrsFit(u) /\ Latest(u) = ">"
    BY DEF Sound, Named
  <2>2. RawFits(v)
    BY ONLY <1>6, <2>1 DEF RawFits
  <2>3. NameFits(v)
    BY ONLY <1>6, <2>1 DEF NameFits
  <2>4. AttrsFit(v)
    BY ONLY <1>6, <2>1 DEF AttrsFit
  <2>5. Latest(v) = ">"
    BY ONLY <1>6, <2>1 DEF Latest
  <2> QED BY ONLY <2>2, <2>3, <2>4, <2>5
<1>8. v.raw[1] < v.raw[2] /\ Inside(v.data, v.raw)
  <2>1. v.raw[1] \in Int /\ v.raw[2] \in Int /\ v.data[1] \in Int /\ v.data[2] \in Int
    BY <1>6, HasNumbers DEF Numbers
  <2> QED BY ONLY <1>7, <2>1 DEF NameFits, Inside
<1>9. AtReturn(v)
  BY ONLY <1>3, <1>6, <1>7, <1>8 DEF AtReturn
<1> QED BY ONLY <1>6, <1>7, <1>9 DEF TokenFits, PlaceFits

\* A key begins at a byte, or at an offset in it.
BeginsKey(u, k) == [u EXCEPT !.pc = "key", !.key[1] = k]
LEMMA KeyBegins ==
    ASSUME NEW u, TypeFits(u), NEW k \in Int, NEW v, v = BeginsKey(u, k)
    PROVE  /\ TypeFits(v) /\ v.pc = "key" /\ v.raw = u.raw /\ SameTag(v, u)
           /\ v.key = <<k, u.key[2]>>
<1>1. [u.key EXCEPT ![1] = k] = <<k, u.key[2]>>
  BY Pairs DEF TypeFits
<1>2. v = [u EXCEPT !.pc = "key", !.key = [u.key EXCEPT ![1] = k]]
  BY DEF TypeFits, BeginsKey
<1>3. v = [u EXCEPT !.pc = "key", !.key = <<k, u.key[2]>>]
  BY ONLY <1>1, <1>2
<1>4. <<k, u.key[2]>> \in Int \X Int /\ "key" \in Places
  BY HasNumbers DEF Numbers, Places, InTag
<1> QED BY ONLY <1>3, <1>4, TypeFits(u) DEF TypeFits, SameTag

LEMMA WhiteTakes ==
    ASSUME NEW t, NEW u, Took(t, u), t.pc = "white", NEW v, v = White(u, Byte(t))
    PROVE  TokenFits(v)
<1> DEFINE e == t.raw[2]
           c == Byte(t)
<1>1. /\ Sound(t) /\ AtWhite(t) /\ e < Len(t.buf) /\ Sound(u) /\ SameTag(u, t) /\ u.pc = "white"
      /\ Latest(u) = c /\ u.raw[2] - 1 = e /\ Reaches(u, t) /\ Named(t)
  BY TookTag DEF PlaceFits, AtWhite
<1>2. Named(u)
  BY ONLY <1>1, StaysNamed DEF Sound
<1>3. CASE c \in Space
  <2>1. v = u
    BY <1>3 DEF White, Space
  <2>2. AtWhite(u)
    BY ONLY <1>1, <1>2, <1>3 DEF AtWhite, BeforeKey, KeyEnd, TagEnd
  <2> QED BY ONLY <1>1, <2>1, <2>2 DEF TokenFits, PlaceFits, Sound
<1>4. CASE c = ">"
  <2>1. v = TagDone(u)
    BY <1>4 DEF White, Space
  <2> QED BY ONLY <1>1, <1>2, <1>4, <2>1, TagIsDone
<1>5. CASE c \notin Space \cup {">"}
  <2>1. v = BeginsKey(t, e)
    BY <1>1, <1>5, UnreadIs DEF White, Space, BeginsKey
  <2>2. /\ TypeFits(v) /\ v.pc = "key" /\ v.raw = t.raw /\ SameTag(v, t)
        /\ v.key = <<e, t.key[2]>>
    <3>1. TypeFits(t) /\ e \in Int
      BY ONLY <1>1 DEF Sound, Numbers
    <3> QED BY ONLY <3>1, <2>1, KeyBegins
  <2>3. Numbers(v) /\ RawFits(v) /\ Reaches(v, t) /\ v.key[1] = e /\ v.buf = t.buf
        /\ v.raw[1] = t.raw[1] /\ v.raw[2] = e
    BY ONLY <1>1, <2>2, HasNumbers DEF Sound, RawFits, Reaches, SameTag, Numbers
  <2>4. Named(v)
    BY ONLY <1>1, <2>2, <2>3, StaysNamed
  <2>5. InKey(v)
    <3>1. e \in Int /\ t.raw[1] \in Int /\ t.raw[1] < e
      <4>1. Numbers(t) /\ NameFits(t)
        BY ONLY <1>1 DEF Sound, Named
      <4> QED BY ONLY <4>1 DEF Numbers, NameFits
    <3>2. NoneOf(t.buf, e, e, KeyEnd)
      BY ONLY <3>1 DEF NoneOf
    <3>3. t.buf[e] \in BeforeKey \/ Peeks(v, {"/"})
      BY ONLY <1>1, <1>5, <2>3 DEF AtWhite, Latest, Peeks, Byte
    <3> QED BY ONLY <2>3, <3>1, <3>2, <3>3 DEF InKey
  <2> QED BY ONLY <2>2, <2>3, <2>4, <2>5 DEF TokenFits, PlaceFits, AtKey
<1> QED BY <1>3, <1>4, <1>5

\* A key ends, and the value after it is empty so far.
LEMMA KeyIsOver ==
    ASSUME NEW u, TypeFits(u), NEW n \in Int, NEW v, v = KeyEnds(u, n)
    PROVE  /\ TypeFits(v) /\ v.pc = "equals" /\ v.raw = u.raw /\ SameTag(v, u)
           /\ v.key = <<u.key[1], u.raw[2] - n>> /\ v.val = <<u.raw[2], u.raw[2]>>
<1> DEFINE key == <<u.key[1], u.raw[2] - n>>
           val == <<u.raw[2], u.raw[2]>>
<1>1. [u.key EXCEPT ![2] = u.raw[2] - n] = key
  BY Pairs DEF TypeFits
<1>2. v = [u EXCEPT !.pc = "equals", !.key = [u.key EXCEPT ![2] = u.raw[2] - n], !.val = val]
  BY DEF TypeFits, KeyEnds
<1>3. v = [u EXCEPT !.pc = "equals", !.key = key, !.val = val]
  BY ONLY <1>1, <1>2
<1>4. key \in Int \X Int /\ val \in Int \X Int /\ "equals" \in Places
  BY HasNumbers DEF Numbers, Places, InTag
<1> QED BY ONLY <1>3, <1>4, TypeFits(u) DEF TypeFits, SameTag

LEMMA KeyTakes ==
    ASSUME NEW t, NEW u, Took(t, u), t.pc = "key", NEW v, v = Key(u, Byte(t))
    PROVE  TokenFits(v)
<1> DEFINE e == t.raw[2]
           c == Byte(t)
<1>1. /\ Sound(t) /\ AtKey(t) /\ e < Len(t.buf) /\ Sound(u) /\ SameTag(u, t) /\ u.pc = "key"
      /\ Latest(u) = c /\ u.raw[2] - 1 = e /\ Reaches(u, t) /\ Named(t) /\ u.key = t.key
      /\ u.raw[1] = t.raw[1] /\ u.raw[2] = e + 1
  BY TookTag DEF PlaceFits, AtKey
<1>2. Named(u)
  BY ONLY <1>1, StaysNamed DEF Sound
<1>3. CASE c \in KeyEnd
  <2>1. \E w : /\ TypeFits(v) /\ v.pc = "equals" /\ v.raw = w.raw /\ SameTag(v, t)
               /\ v.key = <<t.key[1], e>> /\ v.val = <<w.raw[2], w.raw[2]>> /\ Sound(w)
               /\ \/ w = u /\ c \in Space \cup {"/"}
                  \/ w = t /\ c \in {"=", ">"}
    <3>1. CASE c \in Space \cup {"/"}
      <4>1. v = KeyEnds(u, 1)
        BY <3>1 DEF Key, Space
      <4>2. /\ TypeFits(v) /\ v.pc = "equals" /\ v.raw = u.raw /\ SameTag(v, u)
            /\ v.key = <<u.key[1], u.raw[2] - 1>> /\ v.val = <<u.raw[2], u.raw[2]>>
        <5>1. TypeFits(u)
          BY ONLY <1>1 DEF Sound
        <5>2. PICK k \in Int : k = 1
          OBVIOUS
        <5>3. v = KeyEnds(u, k)
          BY ONLY <4>1, <5>2
        <5>4. /\ TypeFits(v) /\ v.pc = "equals" /\ v.raw = u.raw /\ SameTag(v, u)
              /\ v.key = <<u.key[1], u.raw[2] - k>> /\ v.val = <<u.raw[2], u.raw[2]>>
          BY ONLY <5>1, <5>3, k \in Int, KeyIsOver
        <5> QED BY ONLY <5>2, <5>4
      <4>3. SameTag(v, t) /\ v.key = <<t.key[1], e>>
        BY ONLY <1>1, <4>2 DEF SameTag
      <4> QED BY ONLY <1>1, <3>1, <4>2, <4>3
    <3>2. CASE c \in {"=", ">"}
      <4>1. v = KeyEnds(t, 0)
        BY <3>2, UnreadIs DEF Key, Space
      <4>2. /\ TypeFits(v) /\ v.pc = "equals" /\ v.raw = t.raw /\ SameTag(v, t)
            /\ v.key = <<t.key[1], t.raw[2] - 0>> /\ v.val = <<t.raw[2], t.raw[2]>>
        <5>1. TypeFits(t)
          BY ONLY <1>1 DEF Sound
        <5>2. PICK k \in Int : k = 0
          OBVIOUS
        <5>3. v = KeyEnds(t, k)
          BY ONLY <4>1, <5>2
        <5>4. /\ TypeFits(v) /\ v.pc = "equals" /\ v.raw = t.raw /\ SameTag(v, t)
              /\ v.key = <<t.key[1], t.raw[2] - k>> /\ v.val = <<t.raw[2], t.raw[2]>>
          BY ONLY <5>1, <5>3, k \in Int, KeyIsOver
        <5> QED BY ONLY <5>2, <5>4
      <4>3. e - 0 = e
        BY ONLY <1>1 DEF Sound, Numbers
      <4> QED BY ONLY <1>1, <3>2, <4>2, <4>3
    <3> QED BY ONLY <1>3, <3>1, <3>2 DEF KeyEnd, TagEnd
  <2>2. PICK w :
               /\ TypeFits(v) /\ v.pc = "equals" /\ v.raw = w.raw /\ SameTag(v, t)
               /\ v.key = <<t.key[1], e>> /\ v.val = <<w.raw[2], w.raw[2]>> /\ Sound(w)
               /\ \/ w = u /\ c \in Space \cup {"/"}
                  \/ w = t /\ c \in {"=", ">"}
    BY ONLY <2>1
  <2>3. /\ Numbers(v) /\ v.buf = t.buf /\ v.key[1] = t.key[1] /\ v.key[2] = e
        /\ v.raw[1] = t.raw[1] /\ v.val[1] = v.raw[2] /\ v.val[2] = v.raw[2]
        /\ \/ v.raw[2] = e + 1 /\ c \in Space \cup {"/"}
           \/ v.raw[2] = e /\ c \in {"=", ">"}
    <3>1. Numbers(v)
      BY ONLY <2>2, HasNumbers
    <3>2. v.raw[1] = w.raw[1] /\ v.raw[2] = w.raw[2] /\ v.key[1] = t.key[1] /\ v.key[2] = e
          /\ v.val[1] = w.raw[2] /\ v.val[2] = w.raw[2] /\ v.buf = t.buf
      BY ONLY <2>2 DEF SameTag
    <3>3. w.raw[1] = t.raw[1]
      BY ONLY <1>1, <2>2
    <3>4. (w.raw[2] = e + 1 /\ c \in Space \cup {"/"}) \/ (w.raw[2] = e /\ c \in {"=", ">"})
      BY ONLY <1>1, <2>2
    <3> QED BY ONLY <3>1, <3>2, <3>3, <3>4
  <2>4. /\ e \in Int /\ t.raw[1] \in Int /\ Len(t.buf) \in Int /\ t.key[1] \in Int
    BY ONLY <1>1 DEF Sound, Numbers
  <2>5. RawFits(v) /\ Reaches(v, t)
    BY ONLY <1>1, <2>3, <2>4 DEF RawFits, Reaches, Sound
  <2>6. Named(v)
    BY ONLY <1>1, <2>2, <2>3, <2>5, StaysNamed
  <2>7. KeyFits(v.buf, v.raw[1], v.raw[2], v.key)
    BY ONLY <1>1, <1>3, <2>3, <2>4 DEF KeyFits, AtKey, InKey, Byte
  <2>8. NoValue(v)
    BY ONLY <1>1, <2>3, <2>4 DEF NoValue, AtKey, InKey
  <2>9. Latest(v) \in Space \cup {"/"} \/ Peeks(v, {"=", ">"})
    BY ONLY <1>1, <2>3 DEF Latest, Peeks, Byte
  <2> QED BY ONLY <2>2, <2>5, <2>6, <2>7, <2>8, <2>9 DEF TokenFits, PlaceFits, AtEquals, Keyed
<1>4. CASE c \notin KeyEnd
  <2>1. v = u
    BY <1>4 DEF Key, KeyEnd, TagEnd
  <2>2. e \in Int /\ t.raw[1] \in Int /\ t.key[1] \in Int /\ u.buf = t.buf
    BY ONLY <1>1 DEF Sound, Numbers, SameTag
  <2>3. NoneOf(t.buf, t.key[1], e + 1, KeyEnd)
    BY <1>1, <1>4, <2>2, FreeGrows DEF AtKey, InKey, Byte
  <2>4. t.buf[t.key[1]] \in BeforeKey
    BY ONLY <1>1, <1>4 DEF AtKey, InKey, Peeks, Byte, KeyEnd, TagEnd
  <2>5. InKey(u)
    BY ONLY <1>1, <2>2, <2>3, <2>4 DEF AtKey, InKey
  <2> QED BY ONLY <1>1, <1>2, <2>1, <2>5 DEF TokenFits, PlaceFits, Sound, AtKey
<1> QED BY <1>3, <1>4

LEMMA SavesIt ==
    ASSUME NEW w, Sound(w), Keyed(w), ValFits(w.buf, w.raw[1], w.raw[2], w.val),
           Latest(w) \in BeforeKey \/ Peeks(w, {"/", ">"}), NEW v, v = SavesAttr(w)
    PROVE  TokenFits(v)
<1> DEFINE pair == <<w.key, w.val>>
           attr == IF w.start /\ w.key[1] # w.key[2] THEN Append(w.attr, pair) ELSE w.attr
<1>1. w.attr \in Seq((Int \X Int) \X (Int \X Int)) /\ pair \in (Int \X Int) \X (Int \X Int)
  BY DEF Sound, TypeFits
<1>2. attr \in Seq((Int \X Int) \X (Int \X Int))
  <2> HIDE DEF pair
  <2> QED BY ONLY <1>1
<1>3. \A i \in DOMAIN attr : \/ i \in DOMAIN w.attr /\ attr[i] = w.attr[i]
                             \/ w.key[1] # w.key[2] /\ attr[i] = pair
  <2>1. CASE w.start /\ w.key[1] # w.key[2]
    <3>1. attr = Append(w.attr, pair)
      BY ONLY <2>1
    <3> HIDE DEF pair, attr
    <3> SUFFICES ASSUME NEW i \in DOMAIN attr
                 PROVE  (i \in DOMAIN w.attr /\ attr[i] = w.attr[i]) \/ attr[i] = pair
      BY <2>1
    <3>2. Len(attr) = Len(w.attr) + 1 /\ Len(w.attr) \in Nat /\ DOMAIN attr = 1..Len(attr)
          /\ DOMAIN w.attr = 1..Len(w.attr)
      BY ONLY <1>1, <3>1
    <3>3. CASE i = Len(w.attr) + 1
      BY ONLY <1>1, <3>1, <3>3
    <3>4. CASE i # Len(w.attr) + 1
      <4>1. i \in 1..Len(w.attr)
        BY ONLY <3>2, <3>4, i \in DOMAIN attr
      <4> QED BY ONLY <1>1, <3>1, <3>2, <4>1
    <3> QED BY ONLY <3>3, <3>4
  <2>2. CASE ~(w.start /\ w.key[1] # w.key[2])
    <3>1. attr = w.attr
      BY ONLY <2>2
    <3> HIDE DEF pair, attr
    <3> QED BY ONLY <1>1, <3>1
  <2> QED BY ONLY <2>1, <2>2
<1>4. v = [w EXCEPT !.pc = "white", !.attr = attr]
  BY DEF SavesAttr, Sound, TypeFits
<1> HIDE DEF attr
<1>5. /\ TypeFits(v) /\ v.pc = "white" /\ v.raw = w.raw /\ v.data = w.data /\ v.buf = w.buf
      /\ v.start = w.start /\ v.attr = attr /\ v.rawTag = w.rawTag /\ v.n = w.n
  <2>1. TypeFits(w) /\ "white" \in Places
    BY DEF Sound, Places, InTag
  <2> QED BY ONLY <1>2, <1>4, <2>1 DEF TypeFits
<1>6. RawFits(v) /\ Outside(v) /\ NameFits(v)
  <2>1. RawFits(w) /\ Outside(w) /\ NameFits(w)
    BY DEF Sound, Keyed, Named
  <2>2. RawFits(v)
    BY ONLY <1>5, <2>1 DEF RawFits
  <2>3. Outside(v)
    BY ONLY <1>5, <2>1 DEF Outside
  <2>4. NameFits(v)
    BY ONLY <1>5, <2>1 DEF NameFits
  <2> QED BY ONLY <2>2, <2>3, <2>4
<1>7. AttrsFit(v)
  <2> SUFFICES ASSUME NEW i \in DOMAIN v.attr
               PROVE  /\ KeyFits(v.buf, v.raw[1], v.raw[2], v.attr[i][1])
                      /\ v.attr[i][1][1] # v.attr[i][1][2]
                      /\ ValFits(v.buf, v.raw[1], v.raw[2], v.attr[i][2])
    BY DEF AttrsFit
  <2> SUFFICES /\ KeyFits(w.buf, w.raw[1], w.raw[2], attr[i][1])
               /\ attr[i][1][1] # attr[i][1][2]
               /\ ValFits(w.buf, w.raw[1], w.raw[2], attr[i][2])
    BY <1>5
  <2>1. CASE i \in DOMAIN w.attr /\ attr[i] = w.attr[i]
    BY <2>1 DEF Keyed, Named, AttrsFit
  <2>2. CASE w.key[1] # w.key[2] /\ attr[i] = pair
    <3>1. attr[i][1] = w.key /\ attr[i][2] = w.val
      BY ONLY <2>2
    <3> QED BY ONLY <2>2, <3>1, Keyed(w), ValFits(w.buf, w.raw[1], w.raw[2], w.val) DEF Keyed
  <2> QED BY <1>3, <1>5, <2>1, <2>2
<1>8. Latest(v) \in BeforeKey \/ Peeks(v, {"/", ">"})
  BY ONLY <1>5, Latest(w) \in BeforeKey \/ Peeks(w, {"/", ">"}) DEF Latest, Peeks
<1> QED BY ONLY <1>5, <1>6, <1>7, <1>8 DEF TokenFits, PlaceFits, AtWhite, Named

\* A longer token has still no value.
LEMMA NoValueStays ==
    ASSUME NEW t, NEW v, Sound(t), Numbers(v), NoValue(t), v.val = t.val, Reaches(v, t)
    PROVE  NoValue(v)
<1>1. t.val[2] \in Int /\ t.raw[2] \in Int /\ v.raw[2] \in Int
  BY DEF Sound, Numbers
<1>2. t.val[2] <= t.raw[2] /\ t.raw[2] <= v.raw[2]
  BY ONLY NoValue(t), Reaches(v, t) DEF NoValue, Reaches
<1>3. t.val[2] <= v.raw[2]
  BY ONLY <1>1, <1>2
<1> QED BY ONLY NoValue(t), Reaches(v, t), v.val = t.val, <1>3 DEF NoValue, Reaches

LEMMA EmptyFits ==
    ASSUME NEW t, Sound(t), NoValue(t)
    PROVE  ValFits(t.buf, t.raw[1], t.raw[2], t.val)
BY DEF Sound, Numbers, NoValue, ValFits

LEMMA EqualsTakes ==
    ASSUME NEW t, NEW u, Took(t, u), t.pc = "equals", NEW v, v = Equals(u, Byte(t))
    PROVE  TokenFits(v)
<1> DEFINE e == t.raw[2]
           c == Byte(t)
<1>1. /\ Sound(t) /\ AtEquals(t) /\ e < Len(t.buf) /\ Sound(u) /\ SameTag(u, t) /\ u.pc = "equals"
      /\ Latest(u) = c /\ Reaches(u, t) /\ Keyed(t) /\ NoValue(t) /\ u.key = t.key
      /\ u.val = t.val
  BY TookTag DEF PlaceFits, AtEquals
<1>2. CASE c \in Space
  <2>1. v = u
    BY <1>2 DEF Equals, Space
  <2>2. Keyed(u)
    BY ONLY <1>1, StaysKeyed DEF Sound
  <2>3. NoValue(u)
    BY ONLY <1>1, NoValueStays DEF Sound
  <2> QED BY ONLY <1>1, <1>2, <2>1, <2>2, <2>3 DEF TokenFits, PlaceFits, AtEquals, Sound
<1>3. CASE c = "="
  <2>1. v = Goto(u, "value")
    BY <1>3 DEF Equals, Space
  <2>2. /\ At(v, "value", t.raw[1], e + 1) /\ Stays(v, t) /\ Latest(v) = c /\ Numbers(t)
    BY <2>1, ReadsOn DEF Places, InTag
  <2>3. SameTag(v, t) /\ v.key = t.key /\ v.val = t.val
    BY <2>2, Same
  <2>4. Reaches(v, t) /\ Numbers(v) /\ RawFits(v)
    BY ONLY <2>2 DEF At, Reaches, Numbers, RawFits
  <2>5. Keyed(v)
    BY ONLY <1>1, <2>3, <2>4, StaysKeyed
  <2>6. NoValue(v)
    BY ONLY <1>1, <2>3, <2>4, NoValueStays
  <2> QED BY ONLY <1>3, <2>2, <2>5, <2>6 DEF TokenFits, PlaceFits, AtValue, At
<1>4. CASE c \notin Space \cup {"="}
  <2>1. v = SavesAttr(t)
    BY <1>4, UnreadIs DEF Equals
  <2>2. Latest(t) \in BeforeKey \/ Peeks(t, {"/", ">"})
    BY ONLY <1>1, <1>4 DEF AtEquals, Peeks, Byte, BeforeKey, KeyEnd, TagEnd
  <2> QED BY ONLY <1>1, <2>1, <2>2, SavesIt, EmptyFits
<1> QED BY <1>2, <1>3, <1>4

\* A value begins at an offset.
BeginsValue(u, pc, k, q) == [u EXCEPT !.pc = pc, !.val[1] = k, !.quote = q]
LEMMA ValueBegins ==
    ASSUME NEW u, TypeFits(u), NEW pc \in Places, NEW k \in Int, NEW q \in Quotes,
           NEW v, v = BeginsValue(u, pc, k, q)
    PROVE  /\ TypeFits(v) /\ v.pc = pc /\ v.raw = u.raw /\ SameTag(v, u) /\ v.key = u.key
           /\ v.val = <<k, u.val[2]>> /\ v.quote = q
<1>1. [u.val EXCEPT ![1] = k] = <<k, u.val[2]>>
  BY Pairs DEF TypeFits
<1>2. v = [u EXCEPT !.pc = pc, !.val = [u.val EXCEPT ![1] = k], !.quote = q]
  BY DEF TypeFits, BeginsValue
<1>3. v = [u EXCEPT !.pc = pc, !.val = <<k, u.val[2]>>, !.quote = q]
  BY ONLY <1>1, <1>2
<1>4. <<k, u.val[2]>> \in Int \X Int
  BY HasNumbers DEF Numbers
<1> QED BY ONLY <1>3, <1>4, TypeFits(u), pc \in Places, q \in Quotes DEF TypeFits, SameTag

LEMMA ValueTakes ==
    ASSUME NEW t, NEW u, Took(t, u), t.pc = "value", NEW v, v = Value(u, Byte(t))
    PROVE  TokenFits(v)
<1> DEFINE e == t.raw[2]
           c == Byte(t)
<1>1. /\ Sound(t) /\ AtValue(t) /\ e < Len(t.buf) /\ Sound(u) /\ SameTag(u, t) /\ u.pc = "value"
      /\ Latest(u) = c /\ Reaches(u, t) /\ Keyed(t) /\ NoValue(t) /\ u.key = t.key
      /\ u.val = t.val /\ u.raw[2] = e + 1 /\ u.raw[1] = t.raw[1] /\ u.raw[2] - 1 = e
      /\ Latest(t) \in Space \cup {"="}
  BY TookTag DEF PlaceFits, AtValue
<1>2. Keyed(u)
  BY ONLY <1>1, StaysKeyed DEF Sound
<1>3. CASE c \in Space
  <2>1. v = u
    BY <1>3 DEF Value, Space, Quotes
  <2>3. NoValue(u)
    BY ONLY <1>1, NoValueStays DEF Sound
  <2> QED BY ONLY <1>1, <1>2, <1>3, <2>1, <2>3 DEF TokenFits, PlaceFits, AtValue, Sound
<1>4. CASE c = ">"
  <2>1. v = SavesAttr(t)
    BY <1>4, UnreadIs DEF Value, Space, Quotes
  <2>2. Latest(t) \in BeforeKey
    BY ONLY <1>1 DEF BeforeKey, KeyEnd, TagEnd
  <2> QED BY ONLY <1>1, <2>1, <2>2, SavesIt, EmptyFits
<1>5. TypeFits(u) /\ e \in Int /\ e + 1 \in Int /\ t.raw[1] \in Int /\ t.raw[1] < e
  <2>1. TypeFits(u) /\ e \in Int /\ t.raw[1] \in Int /\ t.data[1] \in Int /\ t.data[2] \in Int
    BY ONLY <1>1 DEF Sound, Numbers
  <2>2. t.raw[1] < t.data[1] /\ t.data[1] < t.data[2] /\ t.data[2] <= e
    BY ONLY <1>1 DEF Keyed, Named, NameFits
  <2> HIDE DEF e
  <2> QED BY ONLY <2>1, <2>2
<1>6. CASE c \in Quotes
  <2>1. v = BeginsValue(u, "quoted", e + 1, c)
    BY <1>1, <1>6 DEF Value, Space, Quotes, BeginsValue
  <2>2. /\ TypeFits(v) /\ v.pc = "quoted" /\ v.raw = u.raw /\ SameTag(v, u) /\ v.key = u.key
        /\ v.val = <<e + 1, u.val[2]>> /\ v.quote = c
    <3>1. "quoted" \in Places
      BY DEF Places, InTag
    <3> QED BY ONLY <1>5, <1>6, <2>1, <3>1, ValueBegins
  <2>3. /\ Numbers(v) /\ v.raw[1] = t.raw[1] /\ v.raw[2] = e + 1 /\ v.val[1] = e + 1
        /\ v.buf = t.buf
    BY ONLY <1>1, <2>2, HasNumbers DEF SameTag
  <2>4. RawFits(v) /\ Reaches(v, u)
    BY ONLY <1>1, <2>2, <2>3, <1>5 DEF RawFits, Reaches, Sound, SameTag
  <2>5. Keyed(v)
    BY ONLY <1>1, <1>2, <2>2, <2>3, <2>4, StaysKeyed
  <2>6. NoneOf(t.buf, e + 1, e + 1, {c})
    BY ONLY <1>5 DEF NoneOf
  <2>7. AtQuoted(v)
    BY ONLY <1>5, <2>2, <2>3, <2>5, <2>6 DEF AtQuoted, Byte
  <2> QED BY ONLY <2>2, <2>4, <2>7 DEF TokenFits, PlaceFits
<1>7. CASE c \notin Space \cup {">"} \cup Quotes
  <2>0. u.quote \in Quotes
    BY ONLY <1>5 DEF TypeFits
  <2>1. v = BeginsValue(u, "unquoted", e, u.quote)
    BY <1>1, <1>7 DEF Value, BeginsValue, Sound, TypeFits
  <2>2. /\ TypeFits(v) /\ v.pc = "unquoted" /\ v.raw = u.raw /\ SameTag(v, u) /\ v.key = u.key
        /\ v.val = <<e, u.val[2]>>
    <3>1. "unquoted" \in Places
      BY DEF Places, InTag
    <3> QED BY ONLY <1>5, <2>0, <2>1, <3>1, ValueBegins
  <2>3. /\ Numbers(v) /\ v.raw[1] = t.raw[1] /\ v.raw[2] = e + 1 /\ v.val[1] = e
        /\ v.buf = t.buf
    BY ONLY <1>1, <2>2, HasNumbers DEF SameTag
  <2>4. RawFits(v) /\ Reaches(v, u)
    BY ONLY <1>1, <2>2, <2>3, <1>5 DEF RawFits, Reaches, Sound, SameTag
  <2>5. Keyed(v)
    BY ONLY <1>1, <1>2, <2>2, <2>3, <2>4, StaysKeyed
  <2>6. NoneOf(t.buf, e, e + 1, Space \cup {">"})
    BY <1>5, <1>7 DEF NoneOf, Byte
  <2>7. AtUnquoted(v)
    BY ONLY <1>1, <1>5, <2>2, <2>3, <2>5, <2>6 DEF AtUnquoted, Latest
  <2> QED BY ONLY <2>2, <2>4, <2>7 DEF TokenFits, PlaceFits
<1> QED BY <1>3, <1>4, <1>6, <1>7

EndsValue(u, k) == [u EXCEPT !.val[2] = k]
LEMMA ValueIsOver ==
    ASSUME NEW u, TypeFits(u), NEW k \in Int, NEW v, v = EndsValue(u, k)
    PROVE  /\ TypeFits(v) /\ v.raw = u.raw /\ SameTag(v, u) /\ v.key = u.key
           /\ v.val = <<u.val[1], k>>
<1>1. [u.val EXCEPT ![2] = k] = <<u.val[1], k>>
  BY Pairs DEF TypeFits
<1>2. v = [u EXCEPT !.val = [u.val EXCEPT ![2] = k]]
  BY DEF TypeFits, EndsValue
<1>3. v = [u EXCEPT !.val = <<u.val[1], k>>]
  BY ONLY <1>1, <1>2
<1>4. <<u.val[1], k>> \in Int \X Int
  BY HasNumbers DEF Numbers
<1> QED BY ONLY <1>3, <1>4, TypeFits(u) DEF TypeFits, SameTag

\* The value ends before the byte that is taken or unread.
LEMMA ValueSaves ==
    ASSUME NEW t, Sound(t), Keyed(t), NEW w, Sound(w), SameTag(w, t), Reaches(w, t), w.key = t.key,
           w.val = t.val, NEW k \in Int, t.raw[1] < t.val[1], t.val[1] <= k, k <= w.raw[2],
           k < Len(t.buf),
           \/ /\ t.buf[t.val[1]] \in Quotes /\ t.buf[k + 1] = t.buf[t.val[1]]
              /\ NoneOf(t.buf, t.val[1], k, {t.buf[t.val[1]]})
           \/ /\ t.buf[t.val[1]] \in Space \cup {"="} /\ t.buf[k + 1] \in TagEnd
              /\ NoneOf(t.buf, t.val[1], k, {">"}),
           Latest(w) \in BeforeKey \/ Peeks(w, {"/", ">"}),
           NEW v, v = SavesAttr(EndsValue(w, k))
    PROVE  TokenFits(v)
<1> DEFINE x == EndsValue(w, k)
<1>1. /\ TypeFits(x) /\ x.raw = w.raw /\ SameTag(x, w) /\ x.key = w.key
      /\ x.val = <<w.val[1], k>>
  BY ValueIsOver DEF Sound
<1>2. /\ SameTag(x, t) /\ x.key = t.key /\ x.val[1] = t.val[1] /\ x.val[2] = k /\ x.buf = t.buf
      /\ x.buf = w.buf /\ x.raw[1] = w.raw[1] /\ x.raw[2] = w.raw[2] /\ w.raw[1] = t.raw[1]
  BY <1>1 DEF SameTag, Reaches
<1> HIDE DEF x
<1>3. Sound(x) /\ Reaches(x, t)
  BY <1>1, <1>2, HasNumbers DEF Sound, RawFits, Reaches
<1>4. Keyed(x)
  BY <1>2, <1>3, StaysKeyed DEF Sound
<1>5. ValFits(x.buf, x.raw[1], x.raw[2], x.val)
  BY <1>2 DEF ValFits
<1>6. Latest(x) \in BeforeKey \/ Peeks(x, {"/", ">"})
  BY <1>2 DEF Latest, Peeks
<1> QED BY <1>3, <1>4, <1>5, <1>6, SavesIt DEF x

LEMMA QuotedTakes ==
    ASSUME NEW t, NEW u, Took(t, u), t.pc = "quoted", NEW v, v = Quoted(u, Byte(t))
    PROVE  TokenFits(v)
<1> DEFINE e == t.raw[2]
           c == Byte(t)
<1>1. /\ Sound(t) /\ AtQuoted(t) /\ e < Len(t.buf) /\ Sound(u) /\ SameTag(u, t) /\ u.pc = "quoted"
      /\ Latest(u) = c /\ Reaches(u, t) /\ Keyed(t) /\ u.key = t.key /\ u.quote = t.quote
      /\ u.val = t.val /\ u.raw[2] = e + 1 /\ u.raw[1] = t.raw[1] /\ u.raw[2] - 1 = e
  BY TookTag DEF PlaceFits, AtQuoted
<1>2. /\ t.raw[1] < t.val[1] /\ t.val[1] <= e /\ t.buf[t.val[1]] = t.quote
      /\ NoneOf(t.buf, t.val[1], e, {t.quote})
  BY ONLY <1>1 DEF AtQuoted
<1>3. e \in Int /\ t.val[1] \in Int /\ t.quote \in Quotes /\ t.raw[1] \in Int /\ u.buf = t.buf
  BY ONLY <1>1 DEF Sound, Numbers, TypeFits, SameTag
<1>4. CASE c = t.quote
  <2>1. v = SavesAttr(EndsValue(u, e))
    BY <1>1, <1>4 DEF Quoted, ValueEnds, EndsValue
  <2>2. Latest(u) \in BeforeKey
    BY ONLY <1>1, <1>3, <1>4 DEF BeforeKey
  <2>3. e <= u.raw[2] /\ t.buf[e + 1] = t.buf[t.val[1]]
    BY ONLY <1>1, <1>2, <1>3, <1>4 DEF Byte
  <2> QED BY <1>1, <1>2, <1>3, <2>1, <2>2, <2>3, ValueSaves
<1>5. CASE c # t.quote
  <2>1. v = u
    BY <1>1, <1>5 DEF Quoted
  <2>2. NoneOf(t.buf, t.val[1], e + 1, {t.quote})
    BY <1>2, <1>3, <1>5, FreeGrows DEF Byte
  <2>3. Keyed(u)
    BY ONLY <1>1, StaysKeyed DEF Sound
  <2>4. AtQuoted(u)
    BY ONLY <1>1, <1>2, <1>3, <2>2, <2>3 DEF AtQuoted
  <2> QED BY ONLY <1>1, <2>1, <2>4 DEF TokenFits, PlaceFits, Sound
<1> QED BY <1>4, <1>5

LEMMA UnquotedTakes ==
    ASSUME NEW t, NEW u, Took(t, u), t.pc = "unquoted", NEW v, v = Unquoted(u, Byte(t))
    PROVE  TokenFits(v)
<1> DEFINE e == t.raw[2]
           c == Byte(t)
<1>1. /\ Sound(t) /\ AtUnquoted(t) /\ e < Len(t.buf) /\ Sound(u) /\ SameTag(u, t)
      /\ u.pc = "unquoted" /\ Latest(u) = c /\ Reaches(u, t) /\ Keyed(t) /\ u.key = t.key
      /\ u.val = t.val /\ u.raw[2] = e + 1 /\ u.raw[1] = t.raw[1] /\ u.raw[2] - 1 = e
  BY TookTag DEF PlaceFits, AtUnquoted
<1>2. /\ t.raw[1] < t.val[1] /\ t.val[1] < e /\ t.buf[t.val[1]] \in Space \cup {"="}
      /\ NoneOf(t.buf, t.val[1], e, Space \cup {">"})
  BY ONLY <1>1 DEF AtUnquoted
<1>3. e \in Int /\ t.val[1] \in Int /\ t.raw[1] \in Int /\ u.buf = t.buf
  BY ONLY <1>1 DEF Sound, Numbers, SameTag
<1>4. NoneOf(t.buf, t.val[1], e, {">"}) /\ t.val[1] <= e
  BY ONLY <1>2, <1>3 DEF NoneOf
<1>5. CASE c \in Space
  <2>1. v = SavesAttr(EndsValue(u, e))
    BY <1>1, <1>5 DEF Unquoted, ValueEnds, EndsValue, Space
  <2>2. Latest(u) \in BeforeKey
    BY ONLY <1>1, <1>5 DEF BeforeKey, KeyEnd, TagEnd
  <2>3. e <= u.raw[2] /\ t.buf[e + 1] \in TagEnd
    BY ONLY <1>1, <1>3, <1>5 DEF Byte, TagEnd
  <2> QED BY <1>1, <1>2, <1>3, <1>4, <2>1, <2>2, <2>3, ValueSaves
<1>6. CASE c = ">"
  <2>1. v = SavesAttr(EndsValue(t, e))
    <3>1. e - 0 = e
      BY ONLY <1>3
    <3> QED BY <1>6, <3>1, UnreadIs DEF Unquoted, ValueEnds, EndsValue, Space
  <2>2. Peeks(t, {"/", ">"})
    BY ONLY <1>1, <1>6 DEF Peeks, Byte
  <2>3. e <= e /\ t.buf[e + 1] \in TagEnd
    BY ONLY <1>3, <1>6 DEF Byte, TagEnd
  <2>4. SameTag(t, t) /\ Reaches(t, t)
    BY ONLY <1>1, <1>3 DEF SameTag, Reaches, Sound, RawFits
  <2> QED BY <1>1, <1>2, <1>3, <1>4, <2>1, <2>2, <2>3, <2>4, ValueSaves
<1>7. CASE c \notin Space \cup {">"}
  <2>1. v = u
    BY <1>7 DEF Unquoted
  <2>2. NoneOf(t.buf, t.val[1], e + 1, Space \cup {">"})
    BY <1>2, <1>3, <1>7, FreeGrows DEF Byte
  <2>3. Keyed(u)
    BY ONLY <1>1, StaysKeyed DEF Sound
  <2>4. AtUnquoted(u)
    BY ONLY <1>1, <1>2, <1>3, <2>2, <2>3 DEF AtUnquoted
  <2> QED BY ONLY <1>1, <2>1, <2>4 DEF TokenFits, PlaceFits, Sound
<1> QED BY <1>5, <1>6, <1>7

-----------------------------------------------------------------------------
(* A byte of a comment, a doctype or a CDATA section is taken. *)

LEMMA SetsN ==
    ASSUME NEW t, TypeFits(t), NEW pc \in Places, NEW n \in 0..2
    PROVE  Becomes([t EXCEPT !.pc = pc, !.n = n], t, pc, t.raw, t.data, n, t.tt)
BY DEF TypeFits, Becomes, Keeps
LEMMA SetsOnlyN ==
    ASSUME NEW t, TypeFits(t), NEW n \in 0..2
    PROVE  Becomes([t EXCEPT !.n = n], t, t.pc, t.raw, t.data, n, t.tt)
BY DEF TypeFits, Becomes, Keeps
LEMMA SetsRawN ==
    ASSUME NEW t, TypeFits(t), NEW raw \in Int \X Int, NEW n \in 0..2
    PROVE  Becomes([t EXCEPT !.raw = raw, !.n = n], t, t.pc, raw, t.data, n, t.tt)
BY DEF TypeFits, Becomes, Keeps
LEMMA SetsKind ==
    ASSUME NEW t, TypeFits(t), NEW pc \in Places, NEW tt \in Kinds
    PROVE  Becomes([t EXCEPT !.pc = pc, !.tt = tt], t, pc, t.raw, t.data, t.n, tt)
BY DEF TypeFits, Becomes, Keeps
LEMMA SetsKindN ==
    ASSUME NEW t, TypeFits(t), NEW pc \in Places, NEW tt \in Kinds, NEW n \in 0..2
    PROVE  Becomes([t EXCEPT !.pc = pc, !.tt = tt, !.n = n], t, pc, t.raw, t.data, n, tt)
BY DEF TypeFits, Becomes, Keeps

\* The offsets of what a tokenizer has become.
Settles(v, t, pc, hi, d, d2, n, tt) ==
    /\ Sound(v) /\ Keeps(v, t) /\ v.pc = pc /\ v.raw[1] = t.raw[1] /\ v.raw[2] = hi
    /\ v.data[1] = d /\ v.data[2] = d2 /\ v.n = n /\ v.tt = tt
LEMMA SettlesIn ==
    ASSUME NEW t, Sound(t), NEW v, NEW pc, NEW hi \in Int, NEW d, NEW d2, NEW n, NEW tt,
           Becomes(v, t, pc, <<t.raw[1], hi>>, <<d, d2>>, n, tt), t.raw[1] <= hi, hi <= Len(t.buf)
    PROVE  Settles(v, t, pc, hi, d, d2, n, tt)
<1>1. /\ TypeFits(v) /\ Keeps(v, t) /\ v.buf = t.buf /\ v.pc = pc /\ v.raw[1] = t.raw[1]
      /\ v.raw[2] = hi /\ v.data[1] = d /\ v.data[2] = d2 /\ v.n = n /\ v.tt = tt
  BY DEF Becomes, Keeps
<1>2. RawFits(v)
  BY <1>1 DEF Sound, RawFits
<1> QED BY <1>1, <1>2, HasNumbers DEF Settles, Sound

LEMMA Ranges ==
    ASSUME NEW t, Sound(t)
    PROVE  /\ t.raw[1] \in Int /\ t.raw[2] \in Int /\ t.raw[1] <= t.raw[2] /\ t.raw[2] <= Len(t.buf)
           /\ t.raw = <<t.raw[1], t.raw[2]>> /\ t.data = <<t.data[1], t.data[2]>> /\ TypeFits(t)
           /\ t.data[1] \in Int /\ t.data[2] \in Int /\ Len(t.buf) \in Int /\ t.n \in 0..2
           /\ t.pc \in Places /\ t.tt \in Kinds
<1>1. t.raw \in Int \X Int /\ t.data \in Int \X Int /\ t.pc \in Places /\ t.tt \in Kinds
  BY DEF Sound, TypeFits
<1>2. t.raw = <<t.raw[1], t.raw[2]>> /\ t.data = <<t.data[1], t.data[2]>>
  BY ONLY <1>1
<1>3. /\ t.raw[1] \in Int /\ t.raw[2] \in Int /\ t.raw[1] <= t.raw[2] /\ t.raw[2] <= Len(t.buf)
      /\ TypeFits(t) /\ t.data[1] \in Int /\ t.data[2] \in Int /\ Len(t.buf) \in Int
      /\ t.n \in 0..2
  BY DEF Sound, Numbers, RawFits
<1> QED BY ONLY <1>1, <1>2, <1>3

LEMMA Settled ==
    ASSUME NEW t, Sound(t), NEW v, NEW pc, NEW n, NEW tt, Becomes(v, t, pc, t.raw, t.data, n, tt)
    PROVE  Settles(v, t, pc, t.raw[2], t.data[1], t.data[2], n, tt)
<1>1. Becomes(v, t, pc, <<t.raw[1], t.raw[2]>>, <<t.data[1], t.data[2]>>, n, tt)
  BY Ranges
<1> QED BY <1>1, Ranges, SettlesIn

LEMMA NSettles ==
    ASSUME NEW t, Sound(t), NEW n \in 0..2, NEW v, v = [t EXCEPT !.n = n]
    PROVE  Settles(v, t, t.pc, t.raw[2], t.data[1], t.data[2], n, t.tt)
<1>1. Becomes(v, t, t.pc, t.raw, t.data, n, t.tt)
  BY SetsOnlyN DEF Sound
<1> QED BY <1>1, Settled
LEMMA PlaceSettles ==
    ASSUME NEW t, Sound(t), NEW pc \in Places, NEW n \in 0..2, NEW v,
           v = [t EXCEPT !.pc = pc, !.n = n]
    PROVE  Settles(v, t, pc, t.raw[2], t.data[1], t.data[2], n, t.tt)
<1>1. Becomes(v, t, pc, t.raw, t.data, n, t.tt)
  BY SetsN DEF Sound
<1> QED BY <1>1, Settled
LEMMA KindSettles ==
    ASSUME NEW t, Sound(t), NEW pc \in Places, NEW tt \in Kinds, NEW v,
           v = [t EXCEPT !.pc = pc, !.tt = tt]
    PROVE  Settles(v, t, pc, t.raw[2], t.data[1], t.data[2], t.n, tt)
<1>1. Becomes(v, t, pc, t.raw, t.data, t.n, tt)
  BY SetsKind DEF Sound
<1> QED BY <1>1, Settled
LEMMA KindNSettles ==
    ASSUME NEW t, Sound(t), NEW pc \in Places, NEW tt \in Kinds, NEW n \in 0..2, NEW v,
           v = [t EXCEPT !.pc = pc, !.tt = tt, !.n = n]
    PROVE  Settles(v, t, pc, t.raw[2], t.data[1], t.data[2], n, tt)
<1>1. Becomes(v, t, pc, t.raw, t.data, n, tt)
  BY SetsKindN DEF Sound
<1> QED BY <1>1, Settled
LEMMA GotoSettles ==
    ASSUME NEW t, Sound(t), NEW pc \in Places, NEW v, v = Goto(t, pc)
    PROVE  Settles(v, t, pc, t.raw[2], t.data[1], t.data[2], t.n, t.tt)
<1>1. Becomes(v, t, pc, t.raw, t.data, t.n, t.tt)
  BY GoesTo DEF Sound
<1> QED BY <1>1, Settled
LEMMA ReturnSettles ==
    ASSUME NEW t, Sound(t), NEW tt \in Kinds, NEW v, v = Returns(t, tt)
    PROVE  Settles(v, t, "returned", t.raw[2], t.data[1], t.data[2], t.n, tt)
<1>1. Becomes(v, t, "returned", t.raw, t.data, t.n, tt)
  BY IsReturned DEF Sound
<1> QED BY <1>1, Settled
LEMMA StartSettles ==
    ASSUME NEW t, Sound(t), NEW v, v = DataStarts(t)
    PROVE  Settles(v, t, t.pc, t.raw[2], t.raw[2], t.data[2], t.n, t.tt)
<1>1. Becomes(v, t, t.pc, t.raw, <<t.raw[2], t.data[2]>>, t.n, t.tt)
  BY DataBegins DEF Sound
<1>2. Becomes(v, t, t.pc, <<t.raw[1], t.raw[2]>>, <<t.raw[2], t.data[2]>>, t.n, t.tt)
  BY <1>1, Ranges
<1> QED BY <1>2, Ranges, SettlesIn
LEMMA EndSettles ==
    ASSUME NEW t, Sound(t), NEW k \in Int, NEW v, v = DataEnds(t, k)
    PROVE  Settles(v, t, t.pc, t.raw[2], t.data[1], t.raw[2] - k, t.n, t.tt)
<1>1. Becomes(v, t, t.pc, t.raw, <<t.data[1], t.raw[2] - k>>, t.n, t.tt)
  BY DataIsOver DEF Sound
<1>2. Becomes(v, t, t.pc, <<t.raw[1], t.raw[2]>>, <<t.data[1], t.raw[2] - k>>, t.n, t.tt)
  BY <1>1, Ranges
<1> QED BY <1>2, Ranges, SettlesIn
LEMMA BackSettles ==
    ASSUME NEW t, Sound(t), NEW k \in Nat, t.raw[1] <= t.raw[2] - k, NEW v, v = Back(t, k)
    PROVE  Settles(v, t, t.pc, t.raw[2] - k, t.data[1], t.data[2], t.n, t.tt)
<1>1. Becomes(v, t, t.pc, <<t.raw[1], t.raw[2] - k>>, t.data, t.n, t.tt)
  BY Backs DEF Sound
<1>2. Becomes(v, t, t.pc, <<t.raw[1], t.raw[2] - k>>, <<t.data[1], t.data[2]>>, t.n, t.tt)
  BY <1>1, Ranges
<1>3. t.raw[2] - k \in Int /\ t.raw[2] - k <= Len(t.buf)
  BY Ranges
<1> QED BY <1>2, <1>3, SettlesIn

\* Back to where a word is looked for.
LEMMA WordSettles ==
    ASSUME NEW t, Sound(t), t.raw[1] <= t.data[1], t.data[1] <= t.raw[2], NEW v, v = BackToData(t)
    PROVE  Settles(v, t, t.pc, t.data[1], t.data[1], t.data[2], 0, t.tt)
<1>1. [t.raw EXCEPT ![2] = t.data[1]] = <<t.raw[1], t.data[1]>>
  BY Pairs DEF Sound, TypeFits
<1>2. v = [t EXCEPT !.raw = [t.raw EXCEPT ![2] = t.data[1]], !.n = 0]
  BY DEF Sound, TypeFits, BackToData
<1>3. v = [t EXCEPT !.raw = <<t.raw[1], t.data[1]>>, !.n = 0]
  BY ONLY <1>1, <1>2
<1>4. TypeFits(t) /\ <<t.raw[1], t.data[1]>> \in Int \X Int
  BY Ranges
<1>5. Becomes(v, t, t.pc, <<t.raw[1], t.data[1]>>, t.data, 0, t.tt)
  <2>1. 0 \in 0..2
    OBVIOUS
  <2> QED BY ONLY <1>3, <1>4, <2>1, SetsRawN
<1>6. Becomes(v, t, t.pc, <<t.raw[1], t.data[1]>>, <<t.data[1], t.data[2]>>, 0, t.tt)
  BY <1>5, Ranges
<1>7. t.data[1] \in Int /\ t.data[1] <= Len(t.buf)
  BY Ranges
<1> QED BY <1>6, <1>7, SettlesIn

\* A comment without data.
LEMMA NotBeforeSettles ==
    ASSUME NEW t, Sound(t), NEW v, v = NotBefore(t)
    PROVE  Settles(v, t, t.pc, t.raw[2], t.data[1],
                   IF t.data[2] < t.data[1] THEN t.data[1] ELSE t.data[2], t.n, t.tt)
<1> DEFINE k == IF t.data[2] < t.data[1] THEN t.data[1] ELSE t.data[2]
<1>0. k \in Int
  BY Ranges
<1> HIDE DEF k
<1>1. [t.data EXCEPT ![2] = k] = <<t.data[1], k>>
  BY Pairs DEF Sound, TypeFits
<1>2. v = [t EXCEPT !.data = [t.data EXCEPT ![2] = k]]
  BY DEF Sound, TypeFits, NotBefore, k
<1>3. v = [t EXCEPT !.data = <<t.data[1], k>>]
  BY ONLY <1>1, <1>2
<1>4. TypeFits(t) /\ <<t.data[1], k>> \in Int \X Int
  BY <1>0, Ranges
<1>5. Becomes(v, t, t.pc, t.raw, <<t.data[1], k>>, t.n, t.tt)
  BY ONLY <1>3, <1>4 DEF TypeFits, Becomes, Keeps
<1>6. Becomes(v, t, t.pc, <<t.raw[1], t.raw[2]>>, <<t.data[1], k>>, t.n, t.tt)
  BY <1>5, Ranges
<1>7. Settles(v, t, t.pc, t.raw[2], t.data[1], k, t.n, t.tt)
  BY <1>6, Ranges, SettlesIn
<1> QED BY <1>7 DEF k

\* One thing after another.
LEMMA Then ==
    ASSUME NEW t, NEW w, NEW pc, NEW hi, NEW d, NEW d2, NEW n, NEW tt,
           Settles(w, t, pc, hi, d, d2, n, tt), NEW v, NEW pc1, NEW hi1, NEW e, NEW e2, NEW n1,
           NEW tt1, Settles(v, w, pc1, hi1, e, e2, n1, tt1)
    PROVE  Settles(v, t, pc1, hi1, e, e2, n1, tt1)
BY DEF Settles, Keeps

\* What is known of a byte that is taken between "<!" or "<?" and ">".
Inner(t, u) ==
    /\ Sound(t) /\ Sound(u) /\ InMarkup(t) /\ Keeps(u, t) /\ u.pc = t.pc /\ u.tt = t.tt /\ u.n = t.n
    /\ u.buf = t.buf /\ u.rawTag = "none" /\ t.rawTag = "none"
    /\ u.raw[1] = t.raw[1] /\ u.raw[2] = t.raw[2] + 1 /\ u.data = t.data /\ Latest(u) = Byte(t)
    /\ t.raw[1] \in Int /\ t.raw[2] \in Int /\ t.data[1] \in Int /\ t.raw[1] < t.data[1]
    /\ t.data[1] <= t.raw[2] /\ t.raw[2] < Len(t.buf) /\ Len(t.buf) \in Int /\ t.n \in 0..2
LEMMA InnerIs ==
    ASSUME NEW t, NEW u, Took(t, u), InMarkup(t)
    PROVE  Inner(t, u)
<1>1. /\ Sound(t) /\ Sound(u) /\ Stays(u, t) /\ t.raw[2] < Len(t.buf) /\ u.pc = t.pc
      /\ u.raw[2] = t.raw[2] + 1 /\ u.raw[1] = t.raw[1] /\ Latest(u) = Byte(t)
  BY TookTag
<1>2. Keeps(u, t) /\ u.data = t.data /\ u.n = t.n /\ u.tt = t.tt /\ u.buf = t.buf
      /\ u.rawTag = t.rawTag
  BY ONLY <1>1 DEF Stays, Keeps
<1>3. /\ t.raw[1] \in Int /\ t.raw[2] \in Int /\ t.data[1] \in Int /\ Len(t.buf) \in Int
      /\ t.n \in 0..2
  BY ONLY <1>1 DEF Sound, Numbers
<1> QED BY ONLY <1>1, <1>2, <1>3, InMarkup(t) DEF Inner, InMarkup

\* A bogus comment, or the text of a doctype, begins at the byte that is unread.
LEMMA AngleFits ==
    ASSUME NEW v, Sound(v), v.rawTag = "none", v.raw[1] < v.data[1], v.data[1] <= v.raw[2], v.n = 0,
           v.tt \in {"comment", "doctype"}, v.pc = "angle"
    PROVE  TokenFits(v)
<1>1. AtAngle(v)
  BY DEF AtAngle, InMarkup
<1> QED BY <1>1 DEF TokenFits, PlaceFits, Sound

LEMMA InWordFits ==
    ASSUME NEW v, Sound(v), v.rawTag = "none", v.raw[1] < v.data[1], v.n \in {0, 1},
           v.raw[2] = v.data[1] + v.n, v.pc \in {"declaration", "doctype", "cdataWord"}
    PROVE  TokenFits(v)
<1>1. InWord(v)
  BY DEF InWord, InMarkup, Sound, Numbers
<1> QED BY <1>1 DEF TokenFits, PlaceFits, Sound

\* A comment begins after the byte that is taken.
LEMMA CommentBegins ==
    ASSUME NEW v, Sound(v), v.rawTag = "none", v.raw[1] < v.data[1], v.data[1] = v.raw[2],
           v.pc = "comment"
    PROVE  TokenFits(v)
<1>1. v.raw[2] \in Int
  BY DEF Sound, Numbers
<1>2. NoArrow(v.buf, v.raw[2], v.raw[2]) /\ ~(v.raw[2] < v.raw[2]) /\ ~(v.raw[2] < v.raw[2] - 1)
  BY <1>1 DEF NoArrow
<1>3. AtComment(v)
  BY <1>1, <1>2 DEF AtComment, InMarkup
<1> QED BY <1>3 DEF TokenFits, PlaceFits, Sound

LEMMA CommentIsOver ==
    ASSUME NEW v, Sound(v), v.raw[1] < v.data[1], v.data[1] <= v.data[2],
           v.data[2] <= v.raw[2], v.pc = "returned", v.tt \in {"comment", "doctype"}
    PROVE  TokenFits(v)
<1>1. AtReturn(v)
  BY DEF AtReturn, Inside, Sound, Numbers
<1> QED BY <1>1 DEF TokenFits, PlaceFits, Sound

LEMMA DeclarationTakes ==
    ASSUME NEW t, NEW u, Took(t, u), t.pc = "declaration", NEW v, v = Declaration(u, Byte(t))
    PROVE  TokenFits(v)
<1> DEFINE e == t.raw[2]
           c == Byte(t)
           d == t.data[1]
<1>0. InWord(t)
  BY TookTag DEF PlaceFits
<1>1. Inner(t, u) /\ t.n \in {0, 1} /\ e = d + t.n
  <2>1. Inner(t, u)
    BY <1>0, InnerIs DEF InWord
  <2> QED BY ONLY <1>0, <2>1 DEF InWord, Inner
<1>2. /\ e \in Int /\ d \in Int /\ t.raw[1] \in Int /\ t.raw[1] < d /\ u.raw[2] = e + 1
      /\ Sound(u) /\ u.rawTag = "none" /\ u.raw[1] = t.raw[1] /\ u.data[1] = d /\ u.pc = t.pc
      /\ u.n = t.n /\ t.raw[1] < e + 1
  BY ONLY <1>1 DEF Inner
<1>3. CASE t.n = 0
  <2>1. v = [u EXCEPT !.n = 1]
    BY <1>1, <1>3 DEF Declaration, Inner
  <2>2. Settles(v, u, u.pc, u.raw[2], u.data[1], u.data[2], 1, u.tt)
    BY <1>2, <2>1, NSettles
  <2>4. v.raw[2] = v.data[1] + v.n /\ v.raw[1] < v.data[1] /\ v.n = 1
    BY ONLY <1>1, <1>2, <1>3, <2>2 DEF Settles
  <2> QED BY <1>2, <2>2, <2>4, InWordFits DEF Settles, Keeps
<1>4. CASE t.n = 1
  <2> DEFINE w == [u EXCEPT !.n = 0]
  <2>2. Settles(w, u, u.pc, u.raw[2], u.data[1], u.data[2], 0, u.tt)
    BY <1>2, NSettles
  <2>3. CASE c = "-" /\ u.buf[u.raw[2] - 1] = "-"
    <3> DEFINE x == DataStarts(w)
    <3>1. v = [x EXCEPT !.pc = "comment", !.n = 2]
      BY <1>2, <1>4, <2>3 DEF Declaration
    <3> HIDE DEF w
    <3>2. Settles(x, w, w.pc, w.raw[2], w.raw[2], w.data[2], w.n, w.tt)
      BY <2>2, StartSettles DEF Settles
    <3> HIDE DEF x
    <3>3. Settles(v, x, "comment", x.raw[2], x.data[1], x.data[2], 2, x.tt)
      <4>1. Sound(x) /\ "comment" \in Places /\ 2 \in 0..2
        BY <3>2 DEF Places, Declared, Settles
      <4> QED BY <3>1, <4>1, PlaceSettles
    <3>4. Sound(v) /\ v.raw[1] < v.data[1] /\ v.data[1] = v.raw[2] /\ v.pc = "comment"
          /\ v.rawTag = "none"
      BY ONLY <1>2, <2>2, <3>2, <3>3 DEF Settles, Keeps
    <3> QED BY <3>4, CommentBegins
  <2>4. CASE ~(c = "-" /\ u.buf[u.raw[2] - 1] = "-")
    <3> DEFINE x == Back(w, 2)
    <3>1. v = Goto(x, "doctype")
      BY <1>2, <1>4, <2>4 DEF Declaration
    <3> HIDE DEF w
    <3>0. w.raw[1] = t.raw[1] /\ w.raw[2] - 2 = d /\ Sound(w)
      BY ONLY <1>1, <1>2, <1>4, <2>2 DEF Settles
    <3>2. Settles(x, w, w.pc, w.raw[2] - 2, w.data[1], w.data[2], w.n, w.tt)
      BY <1>2, <3>0, BackSettles
    <3> HIDE DEF x
    <3>3. Settles(v, x, "doctype", x.raw[2], x.data[1], x.data[2], x.n, x.tt)
      <4>1. Sound(x)
        BY ONLY <3>2 DEF Settles
      <4>2. "doctype" \in Places
        BY DEF Places, Declared
      <4> QED BY ONLY <3>1, <4>1, <4>2, GotoSettles
    <3>4. Sound(v) /\ v.raw[1] < v.data[1] /\ v.raw[2] = d /\ v.data[1] = d /\ v.pc = "doctype"
          /\ v.n = 0 /\ v.rawTag = "none"
      BY ONLY <1>2, <2>2, <3>0, <3>2, <3>3 DEF Settles, Keeps
    <3> QED BY <1>2, <3>4, InWordFits
  <2> QED BY <2>3, <2>4
<1> QED BY <1>1, <1>3, <1>4

\* After the byte that is taken in a word.
LEMMA DataBack ==
    ASSUME NEW t, NEW u, Inner(t, u), NEW w, w = BackToData(u)
    PROVE  /\ Settles(w, u, u.pc, u.data[1], u.data[1], u.data[2], 0, u.tt)
           /\ Sound(w) /\ w.rawTag = "none" /\ w.raw[1] < w.data[1] /\ w.data[1] = w.raw[2]
           /\ w.n = 0
<1>1. Sound(u) /\ u.raw[1] <= u.data[1] /\ u.data[1] <= u.raw[2] /\ u.raw[1] < u.data[1]
      /\ u.rawTag = "none"
  BY DEF Inner
<1>2. Settles(w, u, u.pc, u.data[1], u.data[1], u.data[2], 0, u.tt)
  BY <1>1, WordSettles
<1> QED BY ONLY <1>1, <1>2 DEF Settles, Keeps

LEMMA BogusFits ==
    ASSUME NEW w, Sound(w), w.rawTag = "none", w.raw[1] < w.raw[2], NEW v, v = BogusComment(w)
    PROVE  TokenFits(v)
<1> DEFINE x == DataStarts(w)
<1>1. Settles(x, w, w.pc, w.raw[2], w.raw[2], w.data[2], w.n, w.tt)
  BY StartSettles
<1>2. v = [x EXCEPT !.pc = "angle", !.tt = "comment", !.n = 0]
  BY DEF BogusComment
<1> HIDE DEF x
<1>3. Sound(x) /\ "angle" \in Places /\ "comment" \in Kinds /\ 0 \in 0..2
  BY <1>1 DEF Settles, Places, Declared, Kinds
<1>4. Settles(v, x, "angle", x.raw[2], x.data[1], x.data[2], 0, "comment")
  BY ONLY <1>2, <1>3, KindNSettles
<1>5. /\ Sound(v) /\ v.rawTag = "none" /\ v.raw[1] < v.data[1] /\ v.data[1] <= v.raw[2]
      /\ v.n = 0 /\ v.tt = "comment" /\ v.pc = "angle"
  <2>1. w.raw[2] \in Int
    BY Ranges
  <2> QED BY <1>1, <1>4, <2>1 DEF Settles, Keeps
<1> QED BY <1>5, AngleFits

LEMMA WordTakes ==
    ASSUME NEW t, NEW u, Took(t, u), t.pc \in {"doctype", "cdataWord"}
    PROVE  /\ Inner(t, u) /\ t.n \in {0, 1} /\ t.raw[2] = t.data[1] + t.n
           /\ u.n = t.n /\ Sound(u) /\ u.rawTag = "none" /\ u.data[1] = t.data[1]
           /\ u.raw[1] = t.raw[1] /\ u.raw[2] = t.raw[2] + 1 /\ u.pc = t.pc
           /\ t.raw[2] \in Int /\ t.data[1] \in Int /\ t.raw[1] \in Int /\ t.raw[1] < t.data[1]
<1>0. InWord(t)
  BY TookTag DEF PlaceFits
<1>1. Inner(t, u)
  BY <1>0, InnerIs DEF InWord
<1> QED BY ONLY <1>0, <1>1 DEF InWord, Inner

LEMMA DoctypeTakes ==
    ASSUME NEW t, NEW u, Took(t, u), t.pc = "doctype", NEW v, v = DoctypeWord(u, Byte(t))
    PROVE  TokenFits(v)
<1> DEFINE c == Byte(t)
           w == BackToData(u)
<1>1. /\ Inner(t, u) /\ t.n \in {0, 1} /\ t.raw[2] = t.data[1] + t.n
      /\ u.n = t.n /\ Sound(u) /\ u.rawTag = "none" /\ u.data[1] = t.data[1]
      /\ u.raw[1] = t.raw[1] /\ u.raw[2] = t.raw[2] + 1 /\ u.pc = t.pc
      /\ t.raw[2] \in Int /\ t.data[1] \in Int /\ t.raw[1] \in Int /\ t.raw[1] < t.data[1]
  BY WordTakes
<1>2. /\ Settles(w, u, u.pc, u.data[1], u.data[1], u.data[2], 0, u.tt)
      /\ Sound(w) /\ w.rawTag = "none" /\ w.raw[1] < w.data[1] /\ w.data[1] = w.raw[2]
      /\ w.n = 0
  BY ONLY <1>1, DataBack
<1>3. \/ v = Goto(w, "cdataWord")
      \/ v = BogusComment(w)
      \/ v = [u EXCEPT !.pc = "doctypeWhite", !.n = 0]
      \/ u.n = 0 /\ v = [u EXCEPT !.n = u.n + 1]
  <2>1. Len(Doctype) = 2
    BY DEF Doctype
  <2>2. u.n + 1 # 2 => u.n = 0
    BY ONLY <1>1
  <2> QED BY <2>1, <2>2 DEF DoctypeWord, Word
<1> HIDE DEF w
<1>4. CASE v = Goto(w, "cdataWord")
  <2>1. Settles(v, w, "cdataWord", w.raw[2], w.data[1], w.data[2], w.n, w.tt)
    BY <1>2, <1>4, GotoSettles DEF Places, Declared
  <2>2. Sound(v) /\ v.rawTag = "none" /\ v.raw[1] < v.data[1] /\ v.n = 0
        /\ v.raw[2] = v.data[1] + v.n /\ v.pc = "cdataWord"
    <3>1. w.data[1] \in Int
      BY <1>2, Ranges
    <3> QED BY ONLY <1>2, <2>1, <3>1 DEF Settles, Keeps
  <2> QED BY <2>2, InWordFits
<1>5. CASE v = BogusComment(w)
  BY <1>2, <1>5, BogusFits
<1>6. CASE v = [u EXCEPT !.pc = "doctypeWhite", !.n = 0]
  <2>1. Settles(v, u, "doctypeWhite", u.raw[2], u.data[1], u.data[2], 0, u.tt)
    <3>1. "doctypeWhite" \in Places /\ 0 \in 0..2
      BY DEF Places, Declared
    <3> QED BY <1>1, <1>6, <3>1, PlaceSettles
  <2>2. InMarkup(v) /\ v.n = 0 /\ v.pc = "doctypeWhite" /\ Sound(v)
    BY ONLY <1>1, <2>1 DEF Settles, Keeps, InMarkup
  <2> QED BY ONLY <2>2 DEF TokenFits, PlaceFits, Sound
<1>7. CASE u.n = 0 /\ v = [u EXCEPT !.n = u.n + 1]
  <2>0. v = [u EXCEPT !.n = 1]
    <3>1. u.n + 1 = 1
      BY ONLY <1>7
    <3> QED BY ONLY <1>7, <3>1
  <2>1. Settles(v, u, u.pc, u.raw[2], u.data[1], u.data[2], 1, u.tt)
    BY <1>1, <2>0, NSettles
  <2>2. Sound(v) /\ v.rawTag = "none" /\ v.raw[1] < v.data[1] /\ v.n = 1
        /\ v.raw[2] = v.data[1] + v.n /\ v.pc = t.pc
    BY ONLY <1>1, <1>7, <2>1 DEF Settles, Keeps
  <2> QED BY <2>2, InWordFits
<1> QED BY <1>3, <1>4, <1>5, <1>6, <1>7

LEMMA CdataBegins ==
    ASSUME NEW v, Sound(v), v.rawTag = "none", v.raw[1] < v.data[1], v.data[1] = v.raw[2],
           v.pc = "cdata", v.n = 0
    PROVE  TokenFits(v)
<1>1. v.raw[2] \in Int
  BY DEF Sound, Numbers
<1>2. NoBrackets(v.buf, v.raw[2], v.raw[2]) /\ ~(v.raw[2] < v.raw[2]) /\ ~(v.raw[2] < v.raw[2] - 1)
  BY <1>1 DEF NoBrackets
<1>3. AtCdata(v)
  BY <1>1, <1>2 DEF AtCdata, InMarkup
<1> QED BY <1>3 DEF TokenFits, PlaceFits, Sound

LEMMA CdataWordTakes ==
    ASSUME NEW t, NEW u, Took(t, u), t.pc = "cdataWord", NEW v, v = CdataWord(u, Byte(t))
    PROVE  TokenFits(v)
<1> DEFINE c == Byte(t)
           w == BackToData(u)
           x == DataStarts(u)
<1>1. /\ Inner(t, u) /\ t.n \in {0, 1} /\ t.raw[2] = t.data[1] + t.n
      /\ u.n = t.n /\ Sound(u) /\ u.rawTag = "none" /\ u.data[1] = t.data[1]
      /\ u.raw[1] = t.raw[1] /\ u.raw[2] = t.raw[2] + 1 /\ u.pc = t.pc
      /\ t.raw[2] \in Int /\ t.data[1] \in Int /\ t.raw[1] \in Int /\ t.raw[1] < t.data[1]
  BY WordTakes
<1>2. /\ Settles(w, u, u.pc, u.data[1], u.data[1], u.data[2], 0, u.tt)
      /\ Sound(w) /\ w.rawTag = "none" /\ w.raw[1] < w.data[1] /\ w.data[1] = w.raw[2]
      /\ w.n = 0
  BY ONLY <1>1, DataBack
<1>3. \/ v = BogusComment(w)
      \/ v = [x EXCEPT !.pc = "cdata", !.n = 0]
      \/ u.n = 0 /\ v = [u EXCEPT !.n = u.n + 1]
  <2>1. Len(Cdata) = 2
    BY DEF Cdata
  <2>2. u.n + 1 # 2 => u.n = 0
    BY ONLY <1>1
  <2> QED BY <2>1, <2>2 DEF CdataWord, Word
<1> HIDE DEF w
<1>5. CASE v = BogusComment(w)
  BY <1>2, <1>5, BogusFits
<1>6. CASE v = [x EXCEPT !.pc = "cdata", !.n = 0]
  <2>1. Settles(x, u, u.pc, u.raw[2], u.raw[2], u.data[2], u.n, u.tt)
    BY <1>1, StartSettles
  <2> HIDE DEF x
  <2>2. Settles(v, x, "cdata", x.raw[2], x.data[1], x.data[2], 0, x.tt)
    <3>1. "cdata" \in Places /\ 0 \in 0..2 /\ Sound(x)
      BY <2>1 DEF Places, Declared, Settles
    <3> QED BY <1>6, <3>1, PlaceSettles
  <2>3. Sound(v) /\ v.rawTag = "none" /\ v.raw[1] < v.data[1] /\ v.data[1] = v.raw[2]
        /\ v.pc = "cdata" /\ v.n = 0
    BY ONLY <1>1, <2>1, <2>2 DEF Settles, Keeps
  <2> QED BY <2>3, CdataBegins
<1>7. CASE u.n = 0 /\ v = [u EXCEPT !.n = u.n + 1]
  <2>0. v = [u EXCEPT !.n = 1]
    <3>1. u.n + 1 = 1
      BY ONLY <1>7
    <3> QED BY ONLY <1>7, <3>1
  <2>1. Settles(v, u, u.pc, u.raw[2], u.data[1], u.data[2], 1, u.tt)
    BY <1>1, <2>0, NSettles
  <2>2. Sound(v) /\ v.rawTag = "none" /\ v.raw[1] < v.data[1] /\ v.n = 1
        /\ v.raw[2] = v.data[1] + v.n /\ v.pc = t.pc
    BY ONLY <1>1, <1>7, <2>1 DEF Settles, Keeps
  <2> QED BY <2>2, InWordFits
<1> QED BY <1>3, <1>5, <1>6, <1>7

LEMMA DoctypeWhiteTakes ==
    ASSUME NEW t, NEW u, Took(t, u), t.pc = "doctypeWhite", NEW v, v = DoctypeWhite(u, Byte(t))
    PROVE  TokenFits(v)
<1> DEFINE c == Byte(t)
           x == DataStarts(t)
<1>0. InMarkup(t) /\ t.n = 0
  BY TookTag DEF PlaceFits
<1>1. Inner(t, u)
  BY <1>0, InnerIs
<1>2. CASE c \in Space
  <2>1. v = u
    BY <1>2 DEF DoctypeWhite
  <2>2. InMarkup(u) /\ u.n = 0 /\ Sound(u) /\ u.pc = "doctypeWhite"
    BY ONLY <1>0, <1>1, t.pc = "doctypeWhite" DEF Inner, InMarkup
  <2> QED BY ONLY <2>1, <2>2 DEF TokenFits, PlaceFits, Sound
<1>3. CASE c \notin Space
  <2>1. v = [x EXCEPT !.pc = "angle", !.tt = "doctype"]
    BY <1>3, UnreadIs DEF DoctypeWhite
  <2>2. Settles(x, t, t.pc, t.raw[2], t.raw[2], t.data[2], t.n, t.tt)
    BY <1>1, StartSettles DEF Inner
  <2> HIDE DEF x
  <2>3. Settles(v, x, "angle", x.raw[2], x.data[1], x.data[2], x.n, "doctype")
    <3>1. "angle" \in Places /\ "doctype" \in Kinds /\ Sound(x)
      BY <2>2 DEF Places, Declared, Settles, Kinds
    <3> QED BY <2>1, <3>1, KindSettles
  <2>4. /\ Sound(v) /\ v.rawTag = "none" /\ v.raw[1] < v.data[1] /\ v.data[1] <= v.raw[2]
        /\ v.n = 0 /\ v.tt = "doctype" /\ v.pc = "angle"
    BY ONLY <1>0, <1>1, <2>2, <2>3 DEF Settles, Keeps, Inner
  <2> QED BY <2>4, AngleFits
<1> QED BY <1>2, <1>3

LEMMA AngleTakes ==
    ASSUME NEW t, NEW u, Took(t, u), t.pc = "angle", NEW v, v = Angle(u, Byte(t))
    PROVE  TokenFits(v)
<1> DEFINE c == Byte(t)
           x == DataEnds(u, 1)
<1>0. InMarkup(t) /\ t.n = 0 /\ t.tt \in {"comment", "doctype"}
  BY TookTag DEF PlaceFits, AtAngle
<1>1. Inner(t, u)
  BY <1>0, InnerIs
<1>2. CASE c = ">"
  <2>1. v = Returns(x, u.tt)
    BY <1>2 DEF Angle
  <2>2. Settles(x, u, u.pc, u.raw[2], u.data[1], u.raw[2] - 1, u.n, u.tt)
    <3>1. Sound(u)
      BY ONLY <1>1 DEF Inner
    <3> QED BY <3>1, EndSettles
  <2> HIDE DEF x
  <2>3. Settles(v, x, "returned", x.raw[2], x.data[1], x.data[2], x.n, u.tt)
    <3>1. Sound(x) /\ u.tt \in Kinds
      BY <1>0, <1>1, <2>2 DEF Settles, Inner, Kinds
    <3> QED BY <2>1, <3>1, ReturnSettles
  <2>4. Sound(v) /\ v.raw[1] < v.data[1] /\ v.data[1] <= v.data[2] /\ v.data[2] <= v.raw[2]
        /\ v.pc = "returned" /\ v.tt \in {"comment", "doctype"}
    BY ONLY <1>0, <1>1, <2>2, <2>3 DEF Settles, Inner
  <2> QED BY <2>4, CommentIsOver
<1>3. CASE c # ">"
  <2>1. v = u
    BY <1>3 DEF Angle
  <2>2. /\ Sound(u) /\ u.rawTag = "none" /\ u.raw[1] < u.data[1] /\ u.data[1] <= u.raw[2]
        /\ u.n = 0 /\ u.tt \in {"comment", "doctype"} /\ u.pc = "angle"
    BY ONLY <1>0, <1>1, t.pc = "angle" DEF Inner
  <2> QED BY <2>1, <2>2, AngleFits
<1> QED BY <1>2, <1>3

LEMMA ArrowStaysOut ==
    ASSUME NEW buf, NEW a \in Int, NEW b \in Int, NoArrow(buf, a, b),
           buf[b + 1] = ">" /\ a < b - 1 /\ buf[b] = "-" /\ buf[b - 1] = "-" =>
               a < b - 2 /\ buf[b - 2] = "!"
    PROVE  NoArrow(buf, a, b + 1)
<1> SUFFICES ASSUME NEW k \in a + 1..b - 1, buf[k] = "-", buf[k + 1] = "-", buf[k + 2] = ">"
             PROVE  k > a + 1 /\ buf[k - 1] = "!"
  BY DEF NoArrow
<1>1. CASE k = b - 1
  <2>1. k + 1 = b /\ k + 2 = b + 1 /\ k - 1 = b - 2
    BY <1>1
  <2> QED BY <1>1, <2>1
<1>2. CASE k \in a + 1..b - 2
  BY <1>2 DEF NoArrow
<1> QED BY <1>1, <1>2

LEMMA BracketsStayOut ==
    ASSUME NEW buf, NEW a \in Int, NEW b \in Int, NoBrackets(buf, a, b),
           ~(buf[b + 1] = ">" /\ a < b - 1 /\ buf[b] = "]" /\ buf[b - 1] = "]")
    PROVE  NoBrackets(buf, a, b + 1)
<1> SUFFICES ASSUME NEW k \in a + 1..b - 1, buf[k] = "]", buf[k + 1] = "]", buf[k + 2] = ">"
             PROVE  FALSE
  BY DEF NoBrackets
<1>1. CASE k = b - 1
  <2>1. k + 1 = b /\ k + 2 = b + 1
    BY <1>1
  <2> QED BY <1>1, <2>1
<1>2. CASE k \in a + 1..b - 2
  BY <1>2 DEF NoBrackets
<1> QED BY <1>1, <1>2

\* What follows the data of a comment is cut off, as far as there is any.
LEMMA CommentReturns ==
    ASSUME NEW u, Sound(u), NEW k \in Nat, u.raw[1] < u.data[1], u.data[1] <= u.raw[2], NEW v,
           v = Returns(NotBefore(DataEnds(u, k)), "comment")
    PROVE  TokenFits(v)
<1> DEFINE x == DataEnds(u, k)
           y == NotBefore(x)
<1>1. Settles(x, u, u.pc, u.raw[2], u.data[1], u.raw[2] - k, u.n, u.tt)
  BY EndSettles
<1>2. v = Returns(y, "comment")
  OBVIOUS
<1> HIDE DEF x
<1>3. Settles(y, x, x.pc, x.raw[2], x.data[1],
              IF x.data[2] < x.data[1] THEN x.data[1] ELSE x.data[2], x.n, x.tt)
  BY <1>1, NotBeforeSettles DEF Settles
<1> HIDE DEF y
<1>4. Settles(v, y, "returned", y.raw[2], y.data[1], y.data[2], y.n, "comment")
  <2>1. Sound(y) /\ "comment" \in Kinds
    BY <1>3 DEF Settles, Kinds
  <2> QED BY <1>2, <2>1, ReturnSettles
<1>5. u.raw[1] \in Int /\ u.raw[2] \in Int /\ u.data[1] \in Int
  BY Ranges
<1>6. /\ Sound(v) /\ v.raw[1] = u.raw[1] /\ v.data[1] = u.data[1] /\ v.raw[2] = u.raw[2]
      /\ v.data[2] = IF u.raw[2] - k < u.data[1] THEN u.data[1] ELSE u.raw[2] - k
      /\ v.pc = "returned" /\ v.tt = "comment"
  BY ONLY <1>1, <1>3, <1>4 DEF Settles
<1>7. v.data[1] <= v.data[2] /\ v.data[2] <= v.raw[2]
  BY ONLY <1>5, <1>6, u.data[1] <= u.raw[2], k \in Nat
<1> QED BY <1>6, <1>7, CommentIsOver

\* The dashes or brackets that were counted.
LEMMA CountSettles ==
    ASSUME NEW u, Sound(u), NEW v, v = Counts(u)
    PROVE  Settles(v, u, u.pc, u.raw[2], u.data[1], u.data[2], IF u.n = 2 THEN 2 ELSE u.n + 1, u.tt)
<1> DEFINE n == IF u.n = 2 THEN 2 ELSE u.n + 1
<1>1. n \in 0..2
  BY Ranges
<1>2. v = [u EXCEPT !.n = n]
  BY DEF Counts, Sound, TypeFits
<1> QED BY <1>1, <1>2, NSettles

LEMMA CommentTakes ==
    ASSUME NEW t, NEW u, Took(t, u), t.pc = "comment", NEW v, v = InComment(u, Byte(t))
    PROVE  TokenFits(v)
<1> DEFINE c == Byte(t)
           e == t.raw[2]
           d == t.data[1]
<1>0. AtComment(t)
  BY TookTag DEF PlaceFits
<1>1. Inner(t, u)
  BY <1>0, InnerIs DEF AtComment
<1>2. /\ Sound(u) /\ e \in Int /\ d \in Int /\ d <= e /\ u.raw[1] < u.data[1] /\ u.data[1] = d
      /\ u.raw[2] = e + 1 /\ u.raw[1] \in Int /\ u.n = t.n /\ u.buf = t.buf /\ t.n \in 0..2
      /\ u.pc = "comment" /\ u.rawTag = "none" /\ c = t.buf[e + 1]
      /\ u.data[1] <= u.raw[2]
  BY ONLY <1>1, t.pc = "comment" DEF Inner, Byte
<1>3. /\ NoArrow(t.buf, d, e)
      /\ t.buf[e] = "-" /\ d < e => t.n > 0 \/ (d < e - 1 /\ t.buf[e - 1] = "!")
      /\ d < e - 1 /\ t.buf[e] = "-" /\ t.buf[e - 1] = "-" =>
             t.n = 2 \/ (d < e - 2 /\ t.buf[e - 2] = "!")
  BY ONLY <1>0 DEF AtComment, Latest
<1>4. ASSUME NEW n \in 0..2, Settles(v, u, "comment", u.raw[2], u.data[1], u.data[2], n, u.tt),
             NoArrow(t.buf, d, e + 1), c = "-" => n > 0,
             c = "-" /\ d < e /\ t.buf[e] = "-" => n = 2 \/ (d < e - 1 /\ t.buf[e - 1] = "!")
      PROVE  TokenFits(v)
  <2>1. /\ Sound(v) /\ v.pc = "comment" /\ v.rawTag = "none" /\ v.raw[1] < v.data[1]
        /\ v.data[1] = d /\ v.raw[2] = e + 1 /\ v.buf = t.buf /\ v.n = n
    BY ONLY <1>2, <1>4 DEF Settles, Keeps
  <2>2. Latest(v) = c /\ v.raw[2] - 1 = e /\ v.raw[2] - 2 = e - 1
    BY ONLY <1>2, <2>1 DEF Latest
  <2>3. InMarkup(v)
    BY ONLY <1>2, <2>1 DEF InMarkup
  <2>4. NoArrow(v.buf, v.data[1], v.raw[2])
    BY ONLY <1>4, <2>1
  <2>5. Latest(v) = "-" /\ v.data[1] < v.raw[2] =>
            v.n > 0 \/ (v.data[1] < v.raw[2] - 1 /\ v.buf[v.raw[2] - 1] = "!")
    BY ONLY <1>4, <2>1, <2>2
  <2>6. v.data[1] < v.raw[2] - 1 /\ Latest(v) = "-" /\ v.buf[v.raw[2] - 1] = "-" =>
            v.n = 2 \/ (v.data[1] < v.raw[2] - 2 /\ v.buf[v.raw[2] - 2] = "!")
    BY ONLY <1>4, <2>1, <2>2
  <2> QED BY ONLY <2>1, <2>3, <2>4, <2>5, <2>6 DEF TokenFits, PlaceFits, AtComment, Sound
<1>5. CASE c = "-"
  <2>1. v = Counts(u)
    BY <1>5 DEF InComment
  <2>2. Settles(v, u, "comment", u.raw[2], u.data[1], u.data[2],
                IF u.n = 2 THEN 2 ELSE u.n + 1, u.tt)
    BY <1>2, <2>1, CountSettles
  <2> DEFINE n == IF u.n = 2 THEN 2 ELSE u.n + 1
  <2>3. n \in 0..2 /\ n > 0 /\ (t.n > 0 => n = 2)
    BY ONLY <1>2
  <2>4. NoArrow(t.buf, d, e + 1)
    BY <1>2, <1>3, <1>5, ArrowStaysOut
  <2>5. Settles(v, u, "comment", u.raw[2], u.data[1], u.data[2], n, u.tt)
    BY ONLY <2>2
  <2> HIDE DEF n
  <2>6. d < e /\ t.buf[e] = "-" => n = 2 \/ (d < e - 1 /\ t.buf[e - 1] = "!")
    BY ONLY <1>3, <2>3
  <2> QED BY <1>4, <2>3, <2>4, <2>5, <2>6
<1>6. CASE c = ">" /\ t.n = 2
  <2>1. v = Returns(NotBefore(DataEnds(u, 3)), "comment")
    BY <1>2, <1>6 DEF InComment
  <2> QED BY <1>2, <2>1, CommentReturns
<1>7. CASE c = "!" /\ t.n = 2
  <2>1. v = Goto(u, "bang")
    BY <1>2, <1>7 DEF InComment
  <2>2. Settles(v, u, "bang", u.raw[2], u.data[1], u.data[2], u.n, u.tt)
    BY <1>2, <2>1, GotoSettles DEF Places, Declared
  <2>3. NoArrow(t.buf, d, e + 1)
    BY <1>2, <1>3, <1>7, ArrowStaysOut
  <2>4. /\ Sound(v) /\ v.pc = "bang" /\ v.rawTag = "none" /\ v.raw[1] < v.data[1]
        /\ v.data[1] = d /\ v.raw[2] = e + 1 /\ v.buf = t.buf
    BY ONLY <1>2, <2>2 DEF Settles, Keeps
  <2>5. AtBang(v)
    <3>1. d < e + 1 /\ d <= e + 1
      BY ONLY <1>2
    <3>2. Latest(v) = "!"
      BY <1>2, <1>7, <2>4 DEF Latest
    <3> QED BY ONLY <2>3, <2>4, <3>1, <3>2 DEF AtBang, InMarkup
  <2> QED BY ONLY <2>4, <2>5 DEF TokenFits, PlaceFits, Sound
<1>8. CASE c # "-" /\ ~(c \in {">", "!"} /\ t.n = 2)
  <2>1. v = [u EXCEPT !.n = 0]
    BY <1>2, <1>8 DEF InComment
  <2>2. Settles(v, u, "comment", u.raw[2], u.data[1], u.data[2], 0, u.tt)
    BY <1>2, <2>1, NSettles
  <2>3. NoArrow(t.buf, d, e + 1)
    BY <1>2, <1>3, <1>8, ArrowStaysOut
  <2> QED BY <1>4, <1>8, <2>2, <2>3
<1> QED BY <1>5, <1>6, <1>7, <1>8

LEMMA BangTakes ==
    ASSUME NEW t, NEW u, Took(t, u), t.pc = "bang", NEW v, v = Bang(u, Byte(t))
    PROVE  TokenFits(v)
<1> DEFINE c == Byte(t)
           e == t.raw[2]
           d == t.data[1]
<1>0. AtBang(t)
  BY TookTag DEF PlaceFits
<1>1. Inner(t, u)
  BY <1>0, InnerIs DEF AtBang
<1>2. /\ Sound(u) /\ e \in Int /\ d \in Int /\ d <= e /\ u.raw[1] < u.data[1] /\ u.data[1] = d
      /\ u.raw[2] = e + 1 /\ u.raw[1] \in Int /\ u.buf = t.buf
      /\ u.rawTag = "none" /\ c = t.buf[e + 1] /\ u.data[1] <= u.raw[2]
  BY ONLY <1>1 DEF Inner, Byte
<1>3. NoArrow(t.buf, d, e) /\ d < e /\ t.buf[e] = "!"
  BY ONLY <1>0 DEF AtBang, Latest
<1>4. CASE c = ">"
  <2>1. v = Returns(NotBefore(DataEnds(u, 4)), "comment")
    BY <1>4 DEF Bang
  <2> QED BY <1>2, <2>1, CommentReturns
<1>5. CASE c # ">"
  <2>1. v = [u EXCEPT !.pc = "comment", !.n = 0]
    BY <1>5 DEF Bang
  <2>2. Settles(v, u, "comment", u.raw[2], u.data[1], u.data[2], 0, u.tt)
    <3>1. "comment" \in Places /\ 0 \in 0..2
      BY DEF Places, Declared
    <3> QED BY <1>2, <2>1, <3>1, PlaceSettles
  <2>3. NoArrow(t.buf, d, e + 1)
    BY <1>2, <1>3, <1>5, ArrowStaysOut
  <2>4. /\ Sound(v) /\ v.pc = "comment" /\ v.rawTag = "none" /\ v.raw[1] < v.data[1]
        /\ v.data[1] = d /\ v.raw[2] = e + 1 /\ v.buf = t.buf /\ v.raw[2] - 1 = e
    BY ONLY <1>2, <2>2 DEF Settles, Keeps
  <2>5. AtComment(v)
    BY ONLY <1>2, <1>3, <2>3, <2>4 DEF AtComment, InMarkup, Latest
  <2> QED BY ONLY <2>4, <2>5 DEF TokenFits, PlaceFits, Sound
<1> QED BY <1>4, <1>5

LEMMA CdataTakes ==
    ASSUME NEW t, NEW u, Took(t, u), t.pc = "cdata", NEW v, v = InCdata(u, Byte(t))
    PROVE  TokenFits(v)
<1> DEFINE c == Byte(t)
           e == t.raw[2]
           d == t.data[1]
<1>0. AtCdata(t)
  BY TookTag DEF PlaceFits
<1>1. Inner(t, u)
  BY <1>0, InnerIs DEF AtCdata
<1>2. /\ Sound(u) /\ e \in Int /\ d \in Int /\ d <= e /\ u.raw[1] < u.data[1] /\ u.data[1] = d
      /\ u.raw[2] = e + 1 /\ u.raw[1] \in Int /\ u.n = t.n /\ u.buf = t.buf /\ t.n \in 0..2
      /\ u.pc = "cdata" /\ u.rawTag = "none" /\ c = t.buf[e + 1]
  BY ONLY <1>1, t.pc = "cdata" DEF Inner, Byte
<1>3. /\ NoBrackets(t.buf, d, e) /\ d + t.n <= e
      /\ t.buf[e] = "]" /\ d < e => t.n > 0
      /\ d < e - 1 /\ t.buf[e] = "]" /\ t.buf[e - 1] = "]" => t.n = 2
  BY ONLY <1>0 DEF AtCdata, Latest
<1>4. ASSUME NEW n \in 0..2, Settles(v, u, "cdata", u.raw[2], u.data[1], u.data[2], n, u.tt),
             NoBrackets(t.buf, d, e + 1), d + n <= e + 1, c = "]" => n > 0,
             c = "]" /\ d < e /\ t.buf[e] = "]" => n = 2
      PROVE  TokenFits(v)
  <2>1. /\ Sound(v) /\ v.pc = "cdata" /\ v.rawTag = "none" /\ v.raw[1] < v.data[1]
        /\ v.data[1] = d /\ v.raw[2] = e + 1 /\ v.buf = t.buf /\ v.n = n
    BY ONLY <1>2, <1>4 DEF Settles, Keeps
  <2>2. Latest(v) = c /\ v.raw[2] - 1 = e
    BY ONLY <1>2, <2>1 DEF Latest
  <2>3. InMarkup(v)
    BY ONLY <1>2, <2>1 DEF InMarkup
  <2>4. NoBrackets(v.buf, v.data[1], v.raw[2]) /\ v.data[1] + v.n <= v.raw[2]
    BY ONLY <1>4, <2>1
  <2>5. Latest(v) = "]" /\ v.data[1] < v.raw[2] => v.n > 0
    BY ONLY <1>4, <2>1, <2>2
  <2>6. v.data[1] < v.raw[2] - 1 /\ Latest(v) = "]" /\ v.buf[v.raw[2] - 1] = "]" => v.n = 2
    BY ONLY <1>4, <2>1, <2>2
  <2> QED BY ONLY <2>1, <2>3, <2>4, <2>5, <2>6 DEF TokenFits, PlaceFits, AtCdata, Sound
<1>5. CASE c = "]"
  <2>1. v = Counts(u)
    BY <1>5 DEF InCdata
  <2>2. Settles(v, u, "cdata", u.raw[2], u.data[1], u.data[2],
                IF u.n = 2 THEN 2 ELSE u.n + 1, u.tt)
    BY <1>2, <2>1, CountSettles
  <2> DEFINE n == IF u.n = 2 THEN 2 ELSE u.n + 1
  <2>3. n \in 0..2 /\ n > 0 /\ (t.n > 0 => n = 2) /\ d + n <= e + 1
    BY ONLY <1>2, <1>3
  <2>4. NoBrackets(t.buf, d, e + 1)
    BY <1>2, <1>3, <1>5, BracketsStayOut
  <2>5. Settles(v, u, "cdata", u.raw[2], u.data[1], u.data[2], n, u.tt)
    BY ONLY <2>2
  <2> HIDE DEF n
  <2>6. d < e /\ t.buf[e] = "]" => n = 2
    BY ONLY <1>3, <2>3
  <2> QED BY <1>4, <2>3, <2>4, <2>5, <2>6
<1>6. CASE c = ">" /\ t.n = 2
  <2> DEFINE w == DataEnds(u, 3)
             x == [w EXCEPT !.markup = FALSE]
  <2>1. v = Returns(x, "text")
    BY <1>2, <1>6 DEF InCdata
  <2>2. Settles(w, u, u.pc, u.raw[2], u.data[1], u.raw[2] - 3, u.n, u.tt)
    BY <1>2, EndSettles
  <2> HIDE DEF w
  <2>3. /\ TypeFits(x) /\ x.raw = w.raw /\ x.data = w.data /\ x.buf = w.buf /\ x.markup = FALSE
    BY <2>2 DEF TypeFits, Settles, Sound
  <2> HIDE DEF x
  <2>4. Sound(x)
    BY <2>2, <2>3, HasNumbers DEF Sound, RawFits, Settles
  <2>5. Settles(v, x, "returned", x.raw[2], x.data[1], x.data[2], x.n, "text")
    BY <2>1, <2>4, ReturnSettles DEF Kinds
  <2>6. /\ Sound(v) /\ v.pc = "returned" /\ v.tt = "text" /\ v.markup = FALSE
        /\ v.raw[1] = u.raw[1] /\ v.raw[2] = e + 1 /\ v.data[1] = d /\ v.data[2] = u.raw[2] - 3
    BY ONLY <1>2, <2>2, <2>3, <2>5 DEF Settles, Keeps
  <2>7. v.raw[1] < v.raw[2] /\ Inside(v.data, v.raw)
    BY ONLY <1>2, <1>3, <1>6, <2>6 DEF Inside
  <2>8. AtReturn(v)
    BY ONLY <2>6, <2>7 DEF AtReturn
  <2> QED BY ONLY <2>6, <2>8 DEF TokenFits, PlaceFits, Sound
<1>7. CASE c # "]" /\ ~(c = ">" /\ t.n = 2)
  <2>1. v = [u EXCEPT !.n = 0]
    BY <1>2, <1>7 DEF InCdata
  <2>2. Settles(v, u, "cdata", u.raw[2], u.data[1], u.data[2], 0, u.tt)
    BY <1>2, <2>1, NSettles
  <2>3. NoBrackets(t.buf, d, e + 1)
    BY <1>2, <1>3, <1>7, BracketsStayOut
  <2>4. d + 0 <= e + 1
    BY ONLY <1>2
  <2> QED BY <1>4, <1>7, <2>2, <2>3, <2>4
<1> QED BY <1>5, <1>6, <1>7

-----------------------------------------------------------------------------
(* A byte of raw text is taken. *)

\* Raw text goes on.
LEMMA EndTagStaysOut ==
    ASSUME NEW buf, NEW a \in Int, NEW b \in Int, NEW tag, NEW lenient,
           NoEndTag(buf, a, b, tag, lenient),
           a < b - 2 /\ buf[b - 2] = "<" /\ buf[b - 1] = "/" /\ buf[b] = tag
           /\ buf[b + 1] \in TagEnd => lenient /\ b - 2 > a + 1 /\ buf[b - 3] = "<"
    PROVE  NoEndTag(buf, a, b + 1, tag, lenient)
<1> SUFFICES ASSUME NEW k \in a + 1..b - 2, buf[k] = "<", buf[k + 1] = "/", buf[k + 2] = tag,
                    buf[k + 3] \in TagEnd
             PROVE  lenient /\ k > a + 1 /\ buf[k - 1] = "<"
  BY DEF NoEndTag
<1>1. CASE k = b - 2
  <2>1. k + 1 = b - 1 /\ k + 2 = b /\ k + 3 = b + 1 /\ k - 1 = b - 3
    BY <1>1
  <2> QED BY <1>1, <2>1
<1>2. CASE k \in a + 1..b - 3
  BY <1>2 DEF NoEndTag
<1> QED BY <1>1, <1>2

LEMMA EscapeStays ==
    ASSUME NEW buf, NEW a \in Int, NEW b \in Int, NEW c \in Int, b <= c, Escaped(buf, a, b)
    PROVE  Escaped(buf, a, c)
<1>1. \A k \in a + 1..b - 3 : k \in a + 1..c - 3
  OBVIOUS
<1> QED BY <1>1 DEF Escaped

\* v is t with a byte more.
Longer(v, t) ==
    /\ v.buf = t.buf /\ v.raw[1] = t.raw[1] /\ v.raw[2] = t.raw[2] + 1 /\ v.rawTag = t.rawTag
    /\ t.raw[1] \in Int /\ t.raw[2] \in Int /\ t.raw[1] <= t.raw[2] /\ t.raw[2] < Len(t.buf)
LEMMA SoFarGrows ==
    ASSUME NEW t, NEW v, Longer(v, t), SoFar(t),
           NoneBegun(t, t.rawTag = "t") \/ ~HasThree(t, "/", t.rawTag)
    PROVE  SoFar(v)
<1> DEFINE a == t.raw[1]
           b == t.raw[2]
           buf == t.buf
           tag == t.rawTag
<1>1. a \in Int /\ b \in Int /\ NoEndTag(buf, a, b, tag, tag = "t")
  BY DEF Longer, SoFar
<1>2. a < b - 2 /\ buf[b - 2] = "<" /\ buf[b - 1] = "/" /\ buf[b] = tag
      /\ buf[b + 1] \in TagEnd => tag = "t" /\ b - 2 > a + 1 /\ buf[b - 3] = "<"
  <2> SUFFICES ASSUME a < b - 2, buf[b - 2] = "<", buf[b - 1] = "/", buf[b] = tag,
                      buf[b + 1] \in TagEnd
               PROVE  tag = "t" /\ b - 2 > a + 1 /\ buf[b - 3] = "<"
    OBVIOUS
  <2>1. HasThree(t, "/", tag)
    BY DEF HasThree, Latest
  <2>2. Peeks(t, TagEnd)
    BY DEF Peeks, Longer
  <2>3. NoneBegun(t, tag = "t")
    BY <2>1
  <2>4. tag = "t" /\ b - 2 > a + 1 /\ t.buf[b - 2 - 1] = "<"
    BY <2>2, <2>3 DEF NoneBegun
  <2>5. b - 2 - 1 = b - 3
    BY <1>1
  <2> QED BY <2>4, <2>5
<1>3. NoEndTag(buf, a, b + 1, tag, tag = "t")
  BY ONLY <1>1, <1>2, EndTagStaysOut
<1> QED BY ONLY <1>3, Longer(v, t) DEF Longer, SoFar

LEMMA BegunGrows ==
    ASSUME NEW t, NEW v, Longer(v, t), NEW lenient, NoneBegun(t, lenient), Byte(t) # "<"
    PROVE  NoneBegun(v, lenient)
<1> DEFINE a == t.raw[1]
           e == t.raw[2]
           c == Byte(t)
<1>1. /\ v.buf = t.buf /\ v.raw[1] = a /\ v.raw[2] = e + 1 /\ v.rawTag = t.rawTag /\ a \in Int
      /\ e \in Int /\ e < Len(t.buf) /\ v.raw[2] - 1 = e /\ v.raw[2] - 2 = e - 1
      /\ c = t.buf[e + 1] /\ v.raw[2] - 1 - 1 = e - 1 /\ v.raw[2] - 2 - 1 = e - 2
      /\ e - 1 - 1 = e - 2
  BY DEF Longer, Byte
<1>2. v.buf[v.raw[2]] # "<"
  BY <1>1
<1>3. a < e /\ t.buf[e] = "<" /\ c = "/" => lenient /\ e > a + 1 /\ t.buf[e - 1] = "<"
  BY <1>1 DEF NoneBegun, Peeks
<1>4. a < e - 1 /\ t.buf[e - 1] = "<" /\ t.buf[e] = "/" /\ c = t.rawTag =>
          lenient /\ e - 1 > a + 1 /\ t.buf[e - 2] = "<"
  BY <1>1 DEF NoneBegun, Peeks
<1>5. v.raw[1] < v.raw[2] - 1 /\ v.buf[v.raw[2] - 1] = "<" /\ v.buf[v.raw[2]] = "/" =>
          lenient /\ v.raw[2] - 1 > v.raw[1] + 1 /\ v.buf[v.raw[2] - 1 - 1] = "<"
  BY ONLY <1>1, <1>3
<1>6. v.raw[1] < v.raw[2] - 2 /\ v.buf[v.raw[2] - 2] = "<" /\ v.buf[v.raw[2] - 1] = "/"
      /\ v.buf[v.raw[2]] = v.rawTag =>
          lenient /\ v.raw[2] - 2 > v.raw[1] + 1 /\ v.buf[v.raw[2] - 2 - 1] = "<"
  BY ONLY <1>1, <1>4
<1> QED BY ONLY <1>2, <1>5, <1>6 DEF NoneBegun

\* The byte after raw text is taken, or it is unread.
LEMMA RawOn ==
    ASSUME NEW t, NEW u, Took(t, u), NEW pc \in Places, NEW v, v = Goto(u, pc), NEW tag,
           InRaw(t, tag)
    PROVE  /\ Longer(v, t) /\ InRaw(v, tag) /\ TypeFits(v) /\ RawFits(v) /\ v.pc = pc
           /\ Latest(v) = Byte(t) /\ v.else = t.else /\ Sound(v) /\ v.raw[2] - 1 = t.raw[2]
           /\ v.raw[2] - 2 = t.raw[2] - 1
<1>1. /\ At(v, pc, t.raw[1], t.raw[2] + 1) /\ Stays(v, t) /\ Latest(v) = Byte(t)
  BY ReadsOn
<1>2. Sound(t) /\ t.raw[2] < Len(t.buf)
  BY TookTag
<1>3. t.raw[1] \in Int /\ t.raw[2] \in Int /\ t.raw[1] <= t.raw[2]
  BY <1>2, Ranges
<1>4. v.buf = t.buf /\ v.rawTag = t.rawTag /\ v.else = t.else /\ v.n = t.n /\ v.data = t.data
      /\ v.raw[1] = t.raw[1] /\ v.raw[2] = t.raw[2] + 1 /\ v.pc = pc
  BY ONLY <1>1 DEF At, Stays, Keeps
<1>5. InRaw(v, tag)
  BY ONLY <1>4, InRaw(t, tag) DEF InRaw, FromStart
<1> QED BY ONLY <1>1, <1>2, <1>3, <1>4, <1>5 DEF Longer, At, Sound
LEMMA RawBack ==
    ASSUME NEW t, NEW u, Took(t, u), NEW pc \in Places, NEW v, v = Goto(Unread(u), pc), NEW tag,
           InRaw(t, tag)
    PROVE  /\ v.buf = t.buf /\ v.raw[1] = t.raw[1] /\ v.raw[2] = t.raw[2] /\ v.rawTag = t.rawTag
           /\ t.raw[1] \in Int /\ t.raw[2] \in Int
           /\ InRaw(v, tag) /\ TypeFits(v) /\ RawFits(v) /\ v.pc = pc /\ v.raw[2] < Len(v.buf)
<1>1. At(v, pc, t.raw[1], t.raw[2]) /\ Stays(v, t) /\ v.raw[2] < Len(v.buf) /\ Numbers(t)
  BY GoesBack
<1>4. v.buf = t.buf /\ v.rawTag = t.rawTag /\ v.n = t.n /\ v.data = t.data
      /\ v.raw[1] = t.raw[1] /\ v.raw[2] = t.raw[2] /\ v.pc = pc
  BY ONLY <1>1 DEF At, Stays, Keeps
<1>5. InRaw(v, tag)
  BY ONLY <1>4, InRaw(t, tag) DEF InRaw, FromStart
<1> QED BY ONLY <1>1, <1>4, <1>5 DEF At, Numbers

LEMMA EscapeGrows ==
    ASSUME NEW t, NEW v, Longer(v, t), IsEscaped(t)
    PROVE  IsEscaped(v)
<1>1. t.raw[1] \in Int /\ t.raw[2] \in Int /\ t.raw[2] <= t.raw[2] + 1
  BY DEF Longer
<1> QED BY <1>1, EscapeStays DEF Longer, IsEscaped

LEMMA SoFarBack ==
    ASSUME NEW t, NEW v, v.buf = t.buf, v.raw[1] = t.raw[1], v.raw[2] = t.raw[2],
           v.rawTag = t.rawTag
    PROVE  (SoFar(t) => SoFar(v)) /\ (IsEscaped(t) => IsEscaped(v))
BY DEF SoFar, IsEscaped

\* The end of readRawOrRCDATA.
LEMMA RawIsOver ==
    ASSUME NEW w, Sound(w), w.n = 0, FromStart(w), NEW v, v = EndOfRaw(w)
    PROVE  TokenFits(v)
<1> DEFINE x == DataEnds(w, 0)
           y == [x EXCEPT !.rawTag = "none"]
           m == [y EXCEPT !.markup = FALSE]
<1>0. w.data[1] = w.raw[1] /\ w.raw[1] \in Int /\ w.raw[2] \in Int /\ w.raw[1] <= w.raw[2]
  BY Ranges DEF FromStart
<1>1. Settles(x, w, w.pc, w.raw[2], w.data[1], w.raw[2] - 0, w.n, w.tt)
  BY EndSettles
<1>2. \/ y.data[2] > y.data[1] /\ v = Returns(m, "text")
      \/ v = Returns(y, "error")
      \/ ~(y.data[2] > y.data[1]) /\ v = Goto(y, "text")
  BY DEF EndOfRaw
<1> HIDE DEF x
<1>3. /\ TypeFits(y) /\ y.raw = x.raw /\ y.data = x.data /\ y.buf = x.buf /\ y.rawTag = "none"
      /\ y.n = x.n
  <2>1. TypeFits(x)
    BY ONLY <1>1 DEF Settles, Sound
  <2> QED BY ONLY <2>1 DEF TypeFits
<1> HIDE DEF y
<1>4. /\ Sound(y) /\ y.raw[1] = w.raw[1] /\ y.raw[2] = w.raw[2] /\ y.data[1] = w.raw[1]
      /\ y.data[2] = w.raw[2] /\ y.n = 0
  BY <1>0, <1>1, <1>3, HasNumbers DEF Sound, RawFits, Settles
<1>5. CASE y.data[2] > y.data[1] /\ v = Returns(m, "text")
  <2>1. /\ TypeFits(m) /\ m.raw = y.raw /\ m.data = y.data /\ m.buf = y.buf /\ m.markup = FALSE
    BY <1>4 DEF TypeFits, Sound
  <2> HIDE DEF m
  <2>2. Sound(m)
    BY <1>4, <2>1, HasNumbers DEF Sound, RawFits
  <2>3. Settles(v, m, "returned", m.raw[2], m.data[1], m.data[2], m.n, "text")
    BY <1>5, <2>2, ReturnSettles DEF Kinds
  <2>4. /\ Sound(v) /\ v.pc = "returned" /\ v.tt = "text" /\ v.markup = FALSE
        /\ v.raw[1] = w.raw[1] /\ v.raw[2] = w.raw[2] /\ v.data[1] = w.raw[1]
        /\ v.data[2] = w.raw[2]
    BY ONLY <1>4, <2>1, <2>3 DEF Settles, Keeps
  <2>5. v.raw[1] < v.raw[2] /\ Inside(v.data, v.raw)
    BY ONLY <1>0, <1>4, <1>5, <2>4 DEF Inside
  <2>6. AtReturn(v)
    BY ONLY <2>4, <2>5 DEF AtReturn
  <2> QED BY ONLY <2>4, <2>6 DEF TokenFits, PlaceFits, Sound
<1>6. CASE v = Returns(y, "error")
  <2>1. Settles(v, y, "returned", y.raw[2], y.data[1], y.data[2], y.n, "error")
    BY <1>4, <1>6, ReturnSettles DEF Kinds
  <2>2. Sound(v) /\ v.pc = "returned" /\ AtReturn(v)
    BY ONLY <2>1 DEF AtReturn, Settles
  <2> QED BY ONLY <2>2 DEF TokenFits, PlaceFits, Sound
<1>7. CASE ~(y.data[2] > y.data[1]) /\ v = Goto(y, "text")
  <2>1. Settles(v, y, "text", y.raw[2], y.data[1], y.data[2], y.n, y.tt)
    BY <1>4, <1>7, GotoSettles DEF Places, Plain
  <2>2. /\ Sound(v) /\ v.pc = "text" /\ v.n = 0 /\ v.rawTag = "none" /\ v.raw[1] = w.raw[1]
        /\ v.raw[2] = w.raw[1] /\ v.data[1] = w.raw[1] /\ v.data[2] = w.raw[1]
    BY ONLY <1>0, <1>3, <1>4, <1>7, <2>1 DEF Settles, Keeps
  <2>3. NoTags(v.buf, v.raw[1], v.raw[2]) /\ ~(v.raw[1] < v.raw[2])
    BY ONLY <1>0, <2>2 DEF NoTags
  <2>4. FromStart(v)
    <3>1. v.data = <<v.data[1], v.data[2]>>
      BY <2>2, Ranges
    <3> QED BY ONLY <2>2, <3>1 DEF FromStart
  <2>5. AtText(v)
    BY ONLY <2>2, <2>3, <2>4 DEF AtText, Outside
  <2> QED BY ONLY <2>2, <2>5 DEF TokenFits, PlaceFits, Sound
<1> QED BY <1>2, <1>5, <1>6, <1>7

EscStates ==
    {"escaped", "escapedDash", "escapedDashDash", "doubleStart", "doubleStartEnd",
     "doubleEscaped", "doubleDash", "doubleDashDash"}
LEMMA RawPlaces ==
    /\ "raw" \in Places /\ "rawLess" \in Places /\ "rawName" \in Places
    /\ "rawAfterName" \in Places /\ ScriptStates \subseteq Places
    /\ EscStates \cup {"scriptData", "escapedLess", "doubleLess"} \subseteq Places
BY DEF Places, Closing, ScriptStates, EscStates

LEMMA LenientInTitle ==
    ASSUME NEW t, NoneBegun(t, TRUE), t.rawTag = "t"
    PROVE  NoneBegun(t, t.rawTag = "t")
BY DEF NoneBegun
LEMMA StrictInScript ==
    ASSUME NEW t, NoneBegun(t, FALSE), t.rawTag = "s"
    PROVE  NoneBegun(t, t.rawTag = "t")
BY DEF NoneBegun

LEMMA PlainTextTakes ==
    ASSUME NEW t, NEW u, Took(t, u), t.pc = "plaintext"
    PROVE  TokenFits(u)
<1>1. /\ Sound(u) /\ Stays(u, t) /\ u.pc = t.pc /\ u.raw[1] = t.raw[1] /\ PlaceFits(t)
  BY TookTag
<1>2. InRaw(u, "p")
  BY <1>1 DEF PlaceFits, InRaw, FromStart, Stays, Keeps
<1> QED BY <1>1, <1>2 DEF TokenFits, PlaceFits, Sound

LEMMA SameIsGoto == ASSUME NEW t, NEW u, Took(t, u) PROVE u = Goto(u, t.pc)
<1>1. TypeFits(u) /\ u.pc = t.pc
  BY TookTag DEF Sound
<1> QED BY <1>1 DEF Goto, TypeFits

LEMMA RawTakes ==
    ASSUME NEW t, NEW u, Took(t, u), t.pc = "raw", NEW v, v = Raw(u, Byte(t))
    PROVE  TokenFits(v)
<1>1. InRaw(t, "t") /\ SoFar(t) /\ NoneBegun(t, TRUE) /\ t.rawTag = "t"
  BY TookTag DEF PlaceFits, AtRaw, InRaw
<1> DEFINE pc == IF Byte(t) = "<" THEN "rawLess" ELSE "raw"
<1>2. v = Goto(u, pc) /\ pc \in Places
  BY SameIsGoto, RawPlaces DEF Raw
<1>3. /\ Longer(v, t) /\ InRaw(v, "t") /\ TypeFits(v) /\ RawFits(v) /\ v.pc = pc
      /\ Latest(v) = Byte(t)
  BY ONLY <1>1, <1>2, Took(t, u), RawOn
<1>4. SoFar(v)
  BY <1>1, <1>3, LenientInTitle, SoFarGrows
<1>5. CASE Byte(t) = "<"
  <2>1. HasLess(v) /\ v.pc = "rawLess"
    BY <1>3, <1>5 DEF HasLess, Longer
  <2> QED BY <1>3, <1>4, <2>1 DEF TokenFits, PlaceFits, AtRawLess
<1>6. CASE Byte(t) # "<"
  <2>1. NoneBegun(v, TRUE) /\ v.pc = "raw"
    BY <1>1, <1>3, <1>6, BegunGrows
  <2> QED BY <1>3, <1>4, <2>1 DEF TokenFits, PlaceFits, AtRaw
<1> QED BY <1>5, <1>6

\* What may be an end tag.
LEMMA TagOpens ==
    ASSUME NEW u, TypeFits(u), NEW else \in Places, NEW v, v = EndTagOr(u, else)
    PROVE  /\ TypeFits(v) /\ v.pc = "rawName" /\ v.else = else /\ v.raw = u.raw /\ v.buf = u.buf
           /\ v.data = u.data /\ v.n = u.n /\ v.rawTag = u.rawTag
<1>1. v = [u EXCEPT !.pc = "rawName", !.else = else] /\ "rawName" \in Places
  BY RawPlaces DEF EndTagOr
<1> QED BY ONLY <1>1, TypeFits(u), else \in Places DEF TypeFits

LEMMA EndTagFits ==
    ASSUME NEW t, NEW u, Took(t, u), NEW tag, InRaw(t, tag), HasLess(t), Byte(t) = "/",
           NEW else \in Places, NEW v, v = EndTagOr(u, else),
           \/ tag = "t" /\ else = "raw" /\ SoFar(t)
           \/ tag = "s" /\ else = "scriptData" /\ SoFar(t)
           \/ tag = "s" /\ else \in {"scriptData", "escaped", "doubleEscaped"} /\ IsEscaped(t)
    PROVE  TokenFits(v)
<1> DEFINE g == Goto(u, "rawName")
<1>1. /\ Longer(g, t) /\ InRaw(g, tag) /\ TypeFits(g) /\ RawFits(g) /\ Latest(g) = Byte(t)
      /\ g.raw[2] - 1 = t.raw[2]
  BY RawPlaces, RawOn
<1>2. TypeFits(u)
  BY TookTag DEF Sound
<1>3. /\ g.raw = u.raw /\ g.buf = u.buf /\ g.data = u.data /\ g.n = u.n /\ g.rawTag = u.rawTag
  BY <1>2 DEF Goto, TypeFits
<1> HIDE DEF g
<1>4. /\ TypeFits(v) /\ v.pc = "rawName" /\ v.else = else /\ v.raw = u.raw /\ v.buf = u.buf
      /\ v.data = u.data /\ v.n = u.n /\ v.rawTag = u.rawTag
  BY <1>2, TagOpens
<1>5. RawFits(v) /\ Longer(v, t) /\ InRaw(v, tag)
  BY ONLY <1>1, <1>3, <1>4 DEF RawFits, Longer, InRaw, FromStart
<1>6. HasTwo(v, "/")
  <2>1. t.raw[1] < t.raw[2] /\ t.buf[t.raw[2]] = "<"
    BY DEF HasLess, Latest
  <2>2. v.raw[1] = t.raw[1] /\ v.raw[2] - 1 = t.raw[2] /\ v.buf = t.buf
    BY <1>1, <1>3, <1>4 DEF Longer
  <2>3. v.buf[v.raw[2]] = "/"
    BY <1>1, <1>3, <1>4 DEF Latest
  <2> QED BY ONLY <2>1, <2>2, <2>3 DEF HasTwo, Latest
<1>7. SoFar(t) /\ tag \in {"t", "s"} => SoFar(v)
  <2> SUFFICES ASSUME SoFar(t), tag \in {"t", "s"} PROVE SoFar(v)
    OBVIOUS
  <2>1. ~HasThree(t, "/", t.rawTag)
    BY DEF HasThree, HasLess, InRaw
  <2> QED BY <1>5, <2>1, SoFarGrows
<1>8. IsEscaped(t) => IsEscaped(v)
  BY <1>5, EscapeGrows
<1>9. IsClosing(v)
  BY <1>4, <1>5, <1>7, <1>8 DEF IsClosing
<1> QED BY <1>4, <1>5, <1>6, <1>9 DEF TokenFits, PlaceFits, AtRawName

LEMMA RawLessTakes ==
    ASSUME NEW t, NEW u, Took(t, u), t.pc = "rawLess", NEW v, v = RawLess(u, Byte(t))
    PROVE  TokenFits(v)
<1>1. InRaw(t, "t") /\ SoFar(t) /\ HasLess(t) /\ t.rawTag = "t"
  BY TookTag DEF PlaceFits, AtRawLess, InRaw
<1>2. CASE Byte(t) = "/"
  <2>1. v = EndTagOr(u, "raw") /\ "raw" \in Places
    BY <1>2, RawPlaces DEF RawLess, EndTagOr
  <2> QED BY <1>1, <1>2, <2>1, EndTagFits
<1>3. CASE Byte(t) # "/"
  <2>1. v = Goto(u, "raw") /\ "raw" \in Places
    BY <1>3, RawPlaces DEF RawLess
  <2>2. /\ Longer(v, t) /\ InRaw(v, "t") /\ TypeFits(v) /\ RawFits(v) /\ v.pc = "raw"
        /\ Latest(v) = Byte(t) /\ v.raw[2] - 1 = t.raw[2]
    BY <1>1, <2>1, RawOn
  <2>3. SoFar(v)
    <3>1. ~HasThree(t, "/", t.rawTag)
      BY <1>1 DEF HasThree, HasLess
    <3> QED BY <1>1, <2>2, <3>1, SoFarGrows
  <2>4. NoneBegun(v, TRUE)
    <3>1. t.raw[1] < t.raw[2] /\ t.buf[t.raw[2]] = "<"
      BY <1>1 DEF HasLess, Latest
    <3>2. v.buf[v.raw[2] - 1] = "<" /\ v.buf[v.raw[2]] # "/" /\ v.raw[2] > v.raw[1] + 1
      BY <1>3, <2>2, <3>1 DEF Longer, Latest
    <3> QED BY ONLY <3>2 DEF NoneBegun
  <2> QED BY <2>2, <2>3, <2>4 DEF TokenFits, PlaceFits, AtRaw
<1> QED BY <1>2, <1>3

\* The places to which a false end tag leads.
LEMMA ElseFits ==
    ASSUME NEW t, NEW u, Took(t, u), IsClosing(t), NEW v, v = Goto(Unread(u), t.else),
           Latest(t) # "<",
           Latest(t) = "/" => Byte(t) # t.rawTag,
           t.raw[1] < t.raw[2] - 2 /\ t.buf[t.raw[2] - 2] = "<" /\ t.buf[t.raw[2] - 1] = "/"
           /\ Latest(t) = t.rawTag => Byte(t) \notin TagEnd
    PROVE  TokenFits(v)
<1>0. PICK tag : InRaw(t, tag) /\ (tag = "t" \/ tag = "s")
  BY DEF IsClosing
<1>1. t.else \in Places
  BY TookTag DEF Sound, TypeFits
<1>2. /\ v.buf = t.buf /\ v.raw[1] = t.raw[1] /\ v.raw[2] = t.raw[2] /\ v.rawTag = t.rawTag
      /\ t.raw[1] \in Int /\ t.raw[2] \in Int
      /\ InRaw(v, tag) /\ TypeFits(v) /\ RawFits(v) /\ v.pc = t.else /\ v.raw[2] < Len(v.buf)
  BY <1>0, <1>1, RawBack
<1>3. (SoFar(t) => SoFar(v)) /\ (IsEscaped(t) => IsEscaped(v))
  BY ONLY <1>2, SoFarBack
<1>4. NoneBegun(v, TRUE) /\ NoneBegun(v, FALSE)
  <2>1. v.buf[v.raw[2]] # "<" /\ (v.buf[v.raw[2]] = "/" => ~Peeks(v, {v.rawTag}))
    BY <1>2 DEF Latest, Peeks, Byte
  <2>2. v.raw[1] < v.raw[2] - 2 /\ v.buf[v.raw[2] - 2] = "<" /\ v.buf[v.raw[2] - 1] = "/"
        /\ v.buf[v.raw[2]] = v.rawTag => ~Peeks(v, TagEnd)
    BY <1>2 DEF Latest, Peeks, Byte
  <2> QED BY ONLY <1>2, <2>1, <2>2 DEF NoneBegun
<1>5. \/ InRaw(t, "t") /\ t.else = "raw" /\ SoFar(t)
      \/ InRaw(t, "s") /\ t.else = "scriptData" /\ SoFar(t)
      \/ InRaw(t, "s") /\ t.else \in {"scriptData", "escaped", "doubleEscaped"} /\ IsEscaped(t)
  BY DEF IsClosing
<1>6. InRaw(t, "t") => InRaw(v, "t")
  BY <1>0, <1>2 DEF InRaw
<1>7. InRaw(t, "s") => InRaw(v, "s")
  BY <1>0, <1>2 DEF InRaw
<1>8. CASE InRaw(t, "t") /\ t.else = "raw" /\ SoFar(t)
  BY <1>2, <1>3, <1>4, <1>6, <1>8 DEF TokenFits, PlaceFits, AtRaw
<1>9. CASE InRaw(t, "s") /\ t.else = "scriptData" /\ SoFar(t)
  BY <1>2, <1>3, <1>4, <1>7, <1>9 DEF TokenFits, PlaceFits, AtScriptData
<1>10. CASE InRaw(t, "s") /\ t.else \in {"scriptData", "escaped", "doubleEscaped"} /\ IsEscaped(t)
  BY <1>2, <1>3, <1>4, <1>7, <1>10 DEF TokenFits, PlaceFits, AtScriptData, InEscaped
<1> QED BY <1>5, <1>8, <1>9, <1>10

LEMMA RawNameTakes ==
    ASSUME NEW t, NEW u, Took(t, u), t.pc = "rawName", NEW v, v = RawName(u, Byte(t))
    PROVE  TokenFits(v)
<1>1. IsClosing(t) /\ HasTwo(t, "/")
  BY TookTag DEF PlaceFits, AtRawName
<1>2. u.rawTag = t.rawTag /\ u.else = t.else
  BY TookTag DEF Stays, Keeps
<1>3. PICK tag : InRaw(t, tag) /\ tag \in {"t", "s"}
  BY <1>1 DEF IsClosing
<1>4. t.rawTag = tag
  BY <1>3 DEF InRaw
<1>5. CASE Byte(t) = t.rawTag
  <2>1. v = Goto(u, "rawAfterName") /\ "rawAfterName" \in Places
    BY <1>2, <1>5, RawPlaces DEF RawName
  <2>2. /\ Longer(v, t) /\ InRaw(v, tag) /\ TypeFits(v) /\ RawFits(v) /\ v.pc = "rawAfterName"
        /\ Latest(v) = Byte(t) /\ v.else = t.else /\ v.raw[2] - 1 = t.raw[2]
        /\ v.raw[2] - 2 = t.raw[2] - 1
    BY <1>3, <2>1, RawOn
  <2>3. HasThree(v, "/", v.rawTag)
    <3>1. t.raw[1] < t.raw[2] - 1 /\ t.buf[t.raw[2]] = "/" /\ t.buf[t.raw[2] - 1] = "<"
      BY <1>1 DEF HasTwo, Latest
    <3>2. v.buf = t.buf /\ v.raw[1] = t.raw[1] /\ Latest(v) = v.rawTag
      BY <1>5, <2>2 DEF Longer
    <3> QED BY ONLY <2>2, <3>1, <3>2 DEF HasThree
  <2>4. SoFar(t) => SoFar(v)
    <3>1. ~HasThree(t, "/", t.rawTag)
      BY <1>1, <1>3, <1>4 DEF HasThree, HasTwo
    <3> QED BY <2>2, <3>1, SoFarGrows
  <2>5. IsEscaped(t) => IsEscaped(v)
    BY <2>2, EscapeGrows
  <2>6. (InRaw(t, "t") => InRaw(v, "t")) /\ (InRaw(t, "s") => InRaw(v, "s"))
    BY <1>3, <2>2 DEF InRaw
  <2>7. IsClosing(v)
    BY <1>1, <2>2, <2>4, <2>5, <2>6 DEF IsClosing
  <2> QED BY <2>2, <2>3, <2>7 DEF TokenFits, PlaceFits, AtRawAfterName
<1>6. CASE Byte(t) # t.rawTag
  <2>1. v = Goto(Unread(u), t.else)
    BY <1>2, <1>6 DEF RawName
  <2>2. Latest(t) # "<" /\ (Latest(t) = "/" => Byte(t) # t.rawTag) /\ Latest(t) # t.rawTag
    BY <1>1, <1>3, <1>4, <1>6 DEF HasTwo
  <2> QED BY <1>1, <2>1, <2>2, ElseFits
<1> QED BY <1>5, <1>6

LEMMA RawAfterNameTakes ==
    ASSUME NEW t, NEW u, Took(t, u), t.pc = "rawAfterName", NEW v, v = RawAfterName(u, Byte(t))
    PROVE  TokenFits(v)
<1>1. IsClosing(t) /\ HasThree(t, "/", t.rawTag)
  BY TookTag DEF PlaceFits, AtRawAfterName
<1>2. /\ u.rawTag = t.rawTag /\ u.else = t.else /\ Sound(u) /\ u.raw[1] = t.raw[1]
      /\ u.raw[2] = t.raw[2] + 1 /\ u.n = t.n /\ u.data = t.data /\ Sound(t)
  BY TookTag DEF Stays, Keeps
<1>3. PICK tag : InRaw(t, tag) /\ tag \in {"t", "s"}
  BY <1>1 DEF IsClosing
<1>4. t.rawTag = tag /\ t.n = 0 /\ FromStart(t)
  BY <1>3 DEF InRaw
<1>5. CASE Byte(t) \notin TagEnd
  <2>1. v = Goto(Unread(u), t.else)
    BY <1>2, <1>5 DEF RawAfterName
  <2>2. Latest(t) # "<" /\ Latest(t) # "/"
    BY <1>1, <1>3, <1>4 DEF HasThree
  <2> QED BY <1>1, <1>5, <2>1, <2>2, ElseFits
<1>6. CASE Byte(t) \in TagEnd /\ t.else = "doubleEscaped"
  <2>1. v = Goto(u, "escaped") /\ "escaped" \in Places
    BY <1>2, <1>6, RawPlaces DEF RawAfterName, EscStates
  <2>2. InRaw(t, "s") /\ IsEscaped(t)
    BY <1>1, <1>6 DEF IsClosing
  <2>3. Longer(v, t) /\ InRaw(v, "s") /\ TypeFits(v) /\ RawFits(v) /\ v.pc = "escaped"
    BY <2>1, <2>2, RawOn
  <2>4. IsEscaped(v)
    BY <2>2, <2>3, EscapeGrows
  <2> QED BY <2>3, <2>4 DEF TokenFits, PlaceFits, InEscaped
<1>7. CASE Byte(t) \in TagEnd /\ t.else # "doubleEscaped"
  <2> DEFINE w == Back(u, 4)
  <2>1. v = EndOfRaw(w)
    BY <1>2, <1>7 DEF RawAfterName
  <2>2. u.raw[1] <= u.raw[2] - 4
    <3>1. t.raw[1] \in Int /\ t.raw[2] \in Int
      BY <1>2, Ranges
    <3> QED BY <1>1, <1>2, <3>1 DEF HasThree
  <2>3. Settles(w, u, u.pc, u.raw[2] - 4, u.data[1], u.data[2], u.n, u.tt)
    BY <1>2, <2>2, BackSettles
  <2> HIDE DEF w
  <2>4. Sound(w) /\ w.n = 0 /\ w.raw[1] = t.raw[1] /\ w.data[1] = t.raw[1] /\ w.data[2] = t.raw[1]
    BY ONLY <1>2, <1>4, <2>3 DEF Settles, FromStart
  <2>5. FromStart(w)
    <3>1. w.data = <<w.data[1], w.data[2]>>
      BY <2>4, Ranges
    <3> QED BY ONLY <2>4, <3>1 DEF FromStart
  <2> QED BY <2>1, <2>4, <2>5, RawIsOver
<1> QED BY <1>5, <1>6, <1>7

\* A script that has been escaped goes on.
LEMMA EscOn ==
    ASSUME NEW t, NEW u, Took(t, u), InEscaped(t), NEW pc \in EscStates \cup {"scriptData"},
           NEW v, v = Goto(u, pc)
    PROVE  TokenFits(v)
<1>1. InRaw(t, "s") /\ IsEscaped(t) /\ pc \in Places
  BY RawPlaces DEF InEscaped
<1>2. Longer(v, t) /\ InRaw(v, "s") /\ TypeFits(v) /\ RawFits(v) /\ v.pc = pc
  BY <1>1, RawOn
<1>3. IsEscaped(v)
  BY <1>1, <1>2, EscapeGrows
<1> QED BY <1>2, <1>3 DEF TokenFits, PlaceFits, AtScriptData, InEscaped, EscStates
LEMMA EscBack ==
    ASSUME NEW t, NEW u, Took(t, u), InEscaped(t), NEW pc \in EscStates \cup {"scriptData"},
           NEW v, v = Goto(Unread(u), pc)
    PROVE  TokenFits(v)
<1>1. InRaw(t, "s") /\ IsEscaped(t) /\ pc \in Places
  BY RawPlaces DEF InEscaped
<1>2. /\ v.buf = t.buf /\ v.raw[1] = t.raw[1] /\ v.raw[2] = t.raw[2] /\ v.rawTag = t.rawTag
      /\ InRaw(v, "s") /\ TypeFits(v) /\ RawFits(v) /\ v.pc = pc
  BY <1>1, RawBack
<1>3. IsEscaped(v)
  BY <1>1, <1>2, SoFarBack
<1> QED BY <1>2, <1>3 DEF TokenFits, PlaceFits, AtScriptData, InEscaped, EscStates
LEMMA EscLess ==
    ASSUME NEW t, NEW u, Took(t, u), InEscaped(t), NEW pc \in {"escapedLess", "doubleLess"},
           NEW v, v = Goto(u, pc), Byte(t) = "<"
    PROVE  TokenFits(v)
<1>1. InRaw(t, "s") /\ IsEscaped(t) /\ pc \in Places
  BY RawPlaces DEF InEscaped
<1>2. /\ Longer(v, t) /\ InRaw(v, "s") /\ TypeFits(v) /\ RawFits(v) /\ v.pc = pc
      /\ Latest(v) = Byte(t)
  BY <1>1, RawOn
<1>3. IsEscaped(v) /\ HasLess(v)
  BY <1>1, <1>2, EscapeGrows DEF HasLess, Longer
<1> QED BY <1>2, <1>3 DEF TokenFits, PlaceFits, AtEscapedLess, InEscaped

\* Back in script data, no end tag has begun.
LEMMA ScriptBack ==
    ASSUME NEW t, NEW u, Took(t, u), InRaw(t, "s") /\ (IsEscaped(t) \/ SoFar(t)),
           Latest(t) \notin {"/", "s"} /\ (Latest(t) = "<" => Byte(t) # "/"),
           NEW v, v = Goto(Unread(u), "scriptData")
    PROVE  TokenFits(v)
<1>1. /\ v.buf = t.buf /\ v.raw[1] = t.raw[1] /\ v.raw[2] = t.raw[2] /\ v.rawTag = t.rawTag
      /\ t.raw[1] \in Int /\ t.raw[2] \in Int
      /\ InRaw(v, "s") /\ TypeFits(v) /\ RawFits(v) /\ v.pc = "scriptData"
      /\ v.raw[2] < Len(v.buf)
  BY RawPlaces, RawBack
<1>2. IsEscaped(v) \/ SoFar(v)
  BY <1>1, SoFarBack
<1>3. v.rawTag = "s"
  BY <1>1 DEF InRaw
<1>4. v.buf[v.raw[2]] \notin {"/", "s"} /\ (v.buf[v.raw[2]] = "<" => ~Peeks(v, {"/"}))
  BY <1>1 DEF Latest, Peeks, Byte
<1>5. NoneBegun(v, FALSE)
  BY ONLY <1>1, <1>3, <1>4 DEF NoneBegun
<1> QED BY <1>1, <1>2, <1>5 DEF TokenFits, PlaceFits, AtScriptData

LEMMA ScriptDataTakes ==
    ASSUME NEW t, NEW u, Took(t, u), t.pc = "scriptData", NEW v, v = Script(u, Byte(t))
    PROVE  TokenFits(v)
<1>1. /\ InRaw(t, "s") /\ t.rawTag = "s" /\ u.pc = "scriptData"
      /\ IsEscaped(t) \/ (SoFar(t) /\ NoneBegun(t, FALSE))
  BY TookTag DEF PlaceFits, AtScriptData, InRaw
<1> DEFINE pc == IF Byte(t) = "<" THEN "less" ELSE "scriptData"
<1>2. v = IF Byte(t) = "<" THEN Goto(u, "less") ELSE u
  BY <1>1 DEF Script
<1>3. v = Goto(u, pc) /\ pc \in Places
  BY <1>2, SameIsGoto, RawPlaces DEF ScriptStates
<1>4. /\ Longer(v, t) /\ InRaw(v, "s") /\ TypeFits(v) /\ RawFits(v) /\ v.pc = pc
      /\ Latest(v) = Byte(t)
  BY ONLY <1>1, <1>3, Took(t, u), RawOn
<1>5. CASE IsEscaped(t)
  <2>1. IsEscaped(v)
    BY <1>4, <1>5, EscapeGrows
  <2>2. v.pc = "less" => HasLess(v)
    BY <1>4 DEF HasLess, Longer
  <2> QED BY <1>4, <2>1, <2>2 DEF TokenFits, PlaceFits, AtScriptData, AtLess
<1>6. CASE SoFar(t) /\ NoneBegun(t, FALSE)
  <2>1. NoneBegun(t, t.rawTag = "t")
    BY <1>1, <1>6, StrictInScript
  <2>2. SoFar(v)
    BY <1>4, <1>6, <2>1, SoFarGrows
  <2>3. v.pc = "less" => HasLess(v)
    BY <1>4 DEF HasLess, Longer
  <2>4. v.pc = "scriptData" => NoneBegun(v, FALSE)
    BY <1>4, <1>6, BegunGrows
  <2> QED BY <1>4, <2>2, <2>3, <2>4 DEF TokenFits, PlaceFits, AtScriptData, AtLess
<1> QED BY <1>1, <1>5, <1>6

LEMMA LessTakes ==
    ASSUME NEW t, NEW u, Took(t, u), t.pc = "less", NEW v, v = Script(u, Byte(t))
    PROVE  TokenFits(v)
<1>1. /\ InRaw(t, "s") /\ t.rawTag = "s" /\ u.pc = "less" /\ (IsEscaped(t) \/ SoFar(t))
      /\ HasLess(t)
  BY TookTag DEF PlaceFits, AtLess, InRaw
<1>2. v = CASE Byte(t) = "/" -> EndTagOr(u, "scriptData")
            [] Byte(t) = "!" -> Goto(u, "escapeStart")
            [] OTHER -> Goto(Unread(u), "scriptData")
  BY <1>1 DEF Script
<1>3. CASE Byte(t) = "/"
  <2>1. v = EndTagOr(u, "scriptData") /\ "scriptData" \in Places
    BY <1>2, <1>3, RawPlaces
  <2> QED BY <1>1, <1>3, <2>1, EndTagFits
<1>4. CASE Byte(t) = "!"
  <2>1. v = Goto(u, "escapeStart") /\ "escapeStart" \in Places
    BY <1>2, <1>4, RawPlaces DEF ScriptStates
  <2>2. /\ Longer(v, t) /\ InRaw(v, "s") /\ TypeFits(v) /\ RawFits(v) /\ v.pc = "escapeStart"
        /\ Latest(v) = Byte(t) /\ v.raw[2] - 1 = t.raw[2]
    BY <1>1, <2>1, RawOn
  <2>3. HasTwo(v, "!")
    <3>1. t.raw[1] < t.raw[2] /\ t.buf[t.raw[2]] = "<" /\ v.buf = t.buf /\ v.raw[1] = t.raw[1]
      BY <1>1, <2>2 DEF HasLess, Latest, Longer
    <3> QED BY ONLY <1>4, <2>2, <3>1 DEF HasTwo
  <2>4. SoFar(t) => SoFar(v)
    <3>1. ~HasThree(t, "/", t.rawTag)
      BY <1>1 DEF HasThree, HasLess
    <3> QED BY <2>2, <3>1, SoFarGrows
  <2>5. IsEscaped(t) => IsEscaped(v)
    BY <2>2, EscapeGrows
  <2> QED BY <1>1, <2>2, <2>3, <2>4, <2>5 DEF TokenFits, PlaceFits, AtEscapeStart
<1>5. CASE Byte(t) \notin {"/", "!"}
  <2>1. v = Goto(Unread(u), "scriptData")
    BY <1>2, <1>5
  <2>2. Latest(t) \notin {"/", "s"} /\ (Latest(t) = "<" => Byte(t) # "/")
    BY <1>1, <1>5 DEF HasLess
  <2>3. InRaw(t, "s") /\ (IsEscaped(t) \/ SoFar(t))
    BY <1>1
  <2> QED BY ONLY Took(t, u), <2>1, <2>2, <2>3, ScriptBack
<1> QED BY <1>3, <1>4, <1>5

LEMMA EscapeStartTakes ==
    ASSUME NEW t, NEW u, Took(t, u), t.pc = "escapeStart", NEW v, v = Script(u, Byte(t))
    PROVE  TokenFits(v)
<1>1. /\ InRaw(t, "s") /\ t.rawTag = "s" /\ u.pc = "escapeStart" /\ (IsEscaped(t) \/ SoFar(t))
      /\ HasTwo(t, "!")
  BY TookTag DEF PlaceFits, AtEscapeStart, InRaw
<1>2. v = IF Byte(t) = "-" THEN Goto(u, "escapeStartDash") ELSE Goto(Unread(u), "scriptData")
  BY <1>1 DEF Script
<1>3. CASE Byte(t) = "-"
  <2>1. v = Goto(u, "escapeStartDash") /\ "escapeStartDash" \in Places
    BY <1>2, <1>3, RawPlaces DEF ScriptStates
  <2>2. /\ Longer(v, t) /\ InRaw(v, "s") /\ TypeFits(v) /\ RawFits(v)
        /\ v.pc = "escapeStartDash" /\ Latest(v) = Byte(t) /\ v.raw[2] - 1 = t.raw[2]
        /\ v.raw[2] - 2 = t.raw[2] - 1
    BY <1>1, <2>1, RawOn
  <2>3. HasThree(v, "!", "-")
    <3>1. /\ t.raw[1] < t.raw[2] - 1 /\ t.buf[t.raw[2]] = "!" /\ t.buf[t.raw[2] - 1] = "<"
          /\ v.buf = t.buf /\ v.raw[1] = t.raw[1]
      BY <1>1, <2>2 DEF HasTwo, Latest, Longer
    <3> QED BY ONLY <1>3, <2>2, <3>1 DEF HasThree
  <2>4. SoFar(t) => SoFar(v)
    <3>1. ~HasThree(t, "/", t.rawTag)
      BY <1>1 DEF HasThree, HasTwo
    <3> QED BY <2>2, <3>1, SoFarGrows
  <2>5. IsEscaped(t) => IsEscaped(v)
    BY <2>2, EscapeGrows
  <2> QED BY <1>1, <2>2, <2>3, <2>4, <2>5 DEF TokenFits, PlaceFits, AtEscapeStartDash
<1>5. CASE Byte(t) # "-"
  <2>1. v = Goto(Unread(u), "scriptData")
    BY <1>2, <1>5
  <2>2. Latest(t) \notin {"/", "s"} /\ (Latest(t) = "<" => Byte(t) # "/")
    BY <1>1 DEF HasTwo
  <2>3. InRaw(t, "s") /\ (IsEscaped(t) \/ SoFar(t))
    BY <1>1
  <2> QED BY ONLY Took(t, u), <2>1, <2>2, <2>3, ScriptBack
<1> QED BY <1>3, <1>5

LEMMA EscapeStartDashTakes ==
    ASSUME NEW t, NEW u, Took(t, u), t.pc = "escapeStartDash", NEW v, v = Script(u, Byte(t))
    PROVE  TokenFits(v)
<1>1. /\ InRaw(t, "s") /\ t.rawTag = "s" /\ u.pc = "escapeStartDash" /\ (IsEscaped(t) \/ SoFar(t))
      /\ HasThree(t, "!", "-")
  BY TookTag DEF PlaceFits, AtEscapeStartDash, InRaw
<1>2. v = IF Byte(t) = "-" THEN Goto(u, "escapedDashDash") ELSE Goto(Unread(u), "scriptData")
  BY <1>1 DEF Script
<1>3. CASE Byte(t) = "-"
  <2>1. v = Goto(u, "escapedDashDash") /\ "escapedDashDash" \in Places
    BY <1>2, <1>3, RawPlaces DEF EscStates
  <2>2. /\ Longer(v, t) /\ InRaw(v, "s") /\ TypeFits(v) /\ RawFits(v)
        /\ v.pc = "escapedDashDash" /\ Latest(v) = Byte(t)
    BY <1>1, <2>1, RawOn
  <2>3. IsEscaped(v)
    <3> DEFINE k == t.raw[2] - 2
    <3>1. /\ t.raw[1] < t.raw[2] - 2 /\ t.buf[t.raw[2]] = "-" /\ t.buf[t.raw[2] - 1] = "!"
          /\ t.buf[t.raw[2] - 2] = "<" /\ v.buf = t.buf /\ v.raw[1] = t.raw[1]
          /\ v.raw[2] = t.raw[2] + 1 /\ t.raw[1] \in Int /\ t.raw[2] \in Int
          /\ v.buf[v.raw[2]] = "-"
      BY <1>1, <1>3, <2>2 DEF HasThree, Latest, Longer
    <3>2. k \in v.raw[1] + 1..v.raw[2] - 3 /\ k + 1 = t.raw[2] - 1 /\ k + 2 = t.raw[2]
          /\ k + 3 = t.raw[2] + 1
      BY <3>1
    <3> HIDE DEF k
    <3> QED BY ONLY <3>1, <3>2, k = t.raw[2] - 2 DEF IsEscaped, Escaped, k
  <2> QED BY <2>2, <2>3 DEF TokenFits, PlaceFits, InEscaped
<1>5. CASE Byte(t) # "-"
  <2>1. v = Goto(Unread(u), "scriptData")
    BY <1>2, <1>5
  <2>2. Latest(t) \notin {"/", "s"} /\ (Latest(t) = "<" => Byte(t) # "/")
    BY <1>1 DEF HasThree
  <2>3. InRaw(t, "s") /\ (IsEscaped(t) \/ SoFar(t))
    BY <1>1
  <2> QED BY ONLY Took(t, u), <2>1, <2>2, <2>3, ScriptBack
<1> QED BY <1>3, <1>5

\* The states in which the script is escaped.
LEMMA EscapedTakes ==
    ASSUME NEW t, NEW u, Took(t, u), t.pc \in EscStates \cup {"escapedLess", "doubleLess"},
           NEW v, v = Script(u, Byte(t))
    PROVE  TokenFits(v)
<1>1. InEscaped(t) /\ u.pc = t.pc
  BY TookTag DEF PlaceFits, AtEscapedLess, EscStates
<1>2. InRaw(t, "s") /\ IsEscaped(t)
  BY <1>1 DEF InEscaped
<1>3. CASE t.pc \in {"escaped", "escapedDash", "escapedDashDash"}
  <2>1. \/ Byte(t) = "<" /\ v = Goto(u, "escapedLess")
        \/ \E pc \in EscStates \cup {"scriptData"} : v = Goto(u, pc)
    BY <1>1, <1>3 DEF Script, EscStates
  <2> QED BY <1>1, <2>1, EscOn, EscLess
<1>4. CASE t.pc \in {"doubleEscaped", "doubleDash", "doubleDashDash"}
  <2>1. \/ Byte(t) = "<" /\ v = Goto(u, "doubleLess")
        \/ \E pc \in EscStates \cup {"scriptData"} : v = Goto(u, pc)
    BY <1>1, <1>4 DEF Script, EscStates
  <2> QED BY <1>1, <2>1, EscOn, EscLess
<1>5. CASE t.pc \in {"doubleStart", "doubleStartEnd"}
  <2>1. \E pc \in EscStates \cup {"scriptData"} : v = Goto(u, pc) \/ v = Goto(Unread(u), pc)
    BY <1>1, <1>5 DEF Script, EscStates
  <2> QED BY <1>1, <2>1, EscOn, EscBack
<1>6. CASE t.pc \in {"escapedLess", "doubleLess"}
  <2>1. \/ /\ Byte(t) = "/"
           /\ \E else \in {"escaped", "doubleEscaped"} : v = EndTagOr(u, else)
        \/ \E pc \in EscStates \cup {"scriptData"} : v = Goto(Unread(u), pc)
    BY <1>1, <1>6 DEF Script, EscStates, Letter
  <2>2. HasLess(t)
    BY <1>6, TookTag DEF PlaceFits, AtEscapedLess
  <2>3. CASE Byte(t) = "/" /\ \E else \in {"escaped", "doubleEscaped"} : v = EndTagOr(u, else)
    <3>1. PICK else \in {"escaped", "doubleEscaped"} : v = EndTagOr(u, else)
      BY <2>3
    <3>2. else \in Places
      BY RawPlaces DEF EscStates
    <3> QED BY <1>2, <2>2, <2>3, <3>1, <3>2, EndTagFits
  <2>4. CASE \E pc \in EscStates \cup {"scriptData"} : v = Goto(Unread(u), pc)
    BY <1>1, <2>4, EscBack
  <2> QED BY <2>1, <2>3, <2>4
<1> QED BY <1>3, <1>4, <1>5, <1>6 DEF EscStates

LEMMA ScriptTakes ==
    ASSUME NEW t, NEW u, Took(t, u), t.pc \in ScriptStates, NEW v, v = Script(u, Byte(t))
    PROVE  TokenFits(v)
BY ScriptDataTakes, LessTakes, EscapeStartTakes, EscapeStartDashTakes, EscapedTakes
   DEF ScriptStates, EscStates

-----------------------------------------------------------------------------
(* Any byte is taken, the input is over, or another token is asked for. *)

\* A byte that is taken.
LEMMA TakesFits ==
    ASSUME NEW t, NEW u, Took(t, u), t.pc # "returned", NEW v, v = Takes(u, Byte(t))
    PROVE  TokenFits(v)
<1>0. u.pc = t.pc /\ t.pc \in Places
  BY TookTag, Ranges
<1>1. CASE t.pc = "text"
  <2>1. v = IF Byte(t) = "<" THEN Goto(u, "lessThan") ELSE u
    BY <1>0, <1>1 DEF Takes, ScriptStates
  <2> QED BY <1>1, <2>1, TextTakes
<1>2. CASE t.pc = "lessThan"
  <2>1. v = AfterLess(u, Byte(t))
    BY <1>0, <1>2 DEF Takes, ScriptStates
  <2> QED BY <1>2, <2>1, LessThanTakes
<1>3. CASE t.pc = "endTag"
  <2>1. v = AfterEndTagOpen(u, Byte(t))
    BY <1>0, <1>3 DEF Takes, ScriptStates
  <2> QED BY <1>3, <2>1, EndTagTakes
<1>4. CASE t.pc = "name"
  <2>1. v = NameEnds(u, Byte(t))
    BY <1>0, <1>4 DEF Takes, ScriptStates
  <2> QED BY <1>4, <2>1, NameTakes
<1>5. CASE t.pc = "white"
  <2>1. v = White(u, Byte(t))
    BY <1>0, <1>5 DEF Takes, ScriptStates
  <2> QED BY <1>5, <2>1, WhiteTakes
<1>6. CASE t.pc = "key"
  <2>1. v = Key(u, Byte(t))
    BY <1>0, <1>6 DEF Takes, ScriptStates
  <2> QED BY <1>6, <2>1, KeyTakes
<1>7. CASE t.pc = "equals"
  <2>1. v = Equals(u, Byte(t))
    BY <1>0, <1>7 DEF Takes, ScriptStates
  <2> QED BY <1>7, <2>1, EqualsTakes
<1>8. CASE t.pc = "value"
  <2>1. v = Value(u, Byte(t))
    BY <1>0, <1>8 DEF Takes, ScriptStates
  <2> QED BY <1>8, <2>1, ValueTakes
<1>9. CASE t.pc = "quoted"
  <2>1. v = Quoted(u, Byte(t))
    BY <1>0, <1>9 DEF Takes, ScriptStates
  <2> QED BY <1>9, <2>1, QuotedTakes
<1>10. CASE t.pc = "unquoted"
  <2>1. v = Unquoted(u, Byte(t))
    BY <1>0, <1>10 DEF Takes, ScriptStates
  <2> QED BY <1>10, <2>1, UnquotedTakes
<1>11. CASE t.pc = "declaration"
  <2>1. v = Declaration(u, Byte(t))
    BY <1>0, <1>11 DEF Takes, ScriptStates
  <2> QED BY <1>11, <2>1, DeclarationTakes
<1>12. CASE t.pc = "doctype"
  <2>1. v = DoctypeWord(u, Byte(t))
    BY <1>0, <1>12 DEF Takes, ScriptStates
  <2> QED BY <1>12, <2>1, DoctypeTakes
<1>13. CASE t.pc = "cdataWord"
  <2>1. v = CdataWord(u, Byte(t))
    BY <1>0, <1>13 DEF Takes, ScriptStates
  <2> QED BY <1>13, <2>1, CdataWordTakes
<1>14. CASE t.pc = "doctypeWhite"
  <2>1. v = DoctypeWhite(u, Byte(t))
    BY <1>0, <1>14 DEF Takes, ScriptStates
  <2> QED BY <1>14, <2>1, DoctypeWhiteTakes
<1>15. CASE t.pc = "angle"
  <2>1. v = Angle(u, Byte(t))
    BY <1>0, <1>15 DEF Takes, ScriptStates
  <2> QED BY <1>15, <2>1, AngleTakes
<1>16. CASE t.pc = "comment"
  <2>1. v = InComment(u, Byte(t))
    BY <1>0, <1>16 DEF Takes, ScriptStates
  <2> QED BY <1>16, <2>1, CommentTakes
<1>17. CASE t.pc = "bang"
  <2>1. v = Bang(u, Byte(t))
    BY <1>0, <1>17 DEF Takes, ScriptStates
  <2> QED BY <1>17, <2>1, BangTakes
<1>18. CASE t.pc = "cdata"
  <2>1. v = InCdata(u, Byte(t))
    BY <1>0, <1>18 DEF Takes, ScriptStates
  <2> QED BY <1>18, <2>1, CdataTakes
<1>19. CASE t.pc = "plaintext"
  <2>1. v = u
    BY <1>0, <1>19 DEF Takes, ScriptStates
  <2> QED BY <1>19, <2>1, PlainTextTakes
<1>20. CASE t.pc = "raw"
  <2>1. v = Raw(u, Byte(t))
    BY <1>0, <1>20 DEF Takes, ScriptStates
  <2> QED BY <1>20, <2>1, RawTakes
<1>21. CASE t.pc = "rawLess"
  <2>1. v = RawLess(u, Byte(t))
    BY <1>0, <1>21 DEF Takes, ScriptStates
  <2> QED BY <1>21, <2>1, RawLessTakes
<1>22. CASE t.pc = "rawName"
  <2>1. v = RawName(u, Byte(t))
    BY <1>0, <1>22 DEF Takes, ScriptStates
  <2> QED BY <1>22, <2>1, RawNameTakes
<1>23. CASE t.pc = "rawAfterName"
  <2>1. v = RawAfterName(u, Byte(t))
    BY <1>0, <1>23 DEF Takes, ScriptStates
  <2> QED BY <1>23, <2>1, RawAfterNameTakes
<1>24. CASE t.pc \in ScriptStates
  <2>1. v = Script(u, Byte(t))
    BY <1>0, <1>24 DEF Takes, ScriptStates
  <2> QED BY <1>24, <2>1, ScriptTakes
<1> QED BY <1>0, <1>1, <1>2, <1>3, <1>4, <1>5, <1>6, <1>7, <1>8, <1>9, <1>10, <1>11, <1>12, <1>13,
           <1>14, <1>15, <1>16, <1>17, <1>18, <1>19, <1>20, <1>21, <1>22, <1>23, <1>24
    DEF Places, Plain, InTag, Declared, Closing

\* readByte returned an error.
AtError(t, u) ==
    /\ TokenFits(t) /\ Sound(t) /\ PlaceFits(t) /\ Sound(u) /\ u.buf = t.buf /\ u.raw = t.raw
    /\ u.data = t.data /\ u.n = t.n /\ u.pc = t.pc /\ u.tt = t.tt /\ u.rawTag = t.rawTag
    /\ u.err = TRUE
LEMMA ErrorIs ==
    ASSUME NEW t, TokenFits(t), NEW u, u = [t EXCEPT !.err = TRUE]
    PROVE  AtError(t, u)
<1>1. TypeFits(t) /\ RawFits(t) /\ PlaceFits(t) /\ Numbers(t)
  BY HasNumbers DEF TokenFits
<1>2. /\ TypeFits(u) /\ u.buf = t.buf /\ u.raw = t.raw /\ u.data = t.data /\ u.n = t.n
      /\ u.pc = t.pc /\ u.tt = t.tt /\ u.rawTag = t.rawTag /\ u.err = TRUE
  BY <1>1 DEF TypeFits
<1>3. RawFits(u) /\ Numbers(u)
  BY <1>1, <1>2, HasNumbers DEF RawFits
<1> QED BY <1>1, <1>2, <1>3 DEF AtError, Sound

LEMMA ErrorFits ==
    ASSUME NEW w, Sound(w), NEW v, v = Returns(w, "error")
    PROVE  TokenFits(v)
<1>1. "error" \in Kinds
  BY DEF Kinds
<1>2. Settles(v, w, "returned", w.raw[2], w.data[1], w.data[2], w.n, "error")
  BY ONLY <1>1, Sound(w), v = Returns(w, "error"), ReturnSettles
<1>3. AtReturn(v)
  BY ONLY <1>2 DEF Settles, AtReturn
<1> QED BY ONLY <1>2, <1>3 DEF TokenFits, PlaceFits, Settles, Sound

LEMMA TextIsOver ==
    ASSUME NEW t, NEW u, AtError(t, u), FromStart(t), NEW v, v = EndOfText(u)
    PROVE  TokenFits(v)
<1>1. CASE u.raw[1] < u.raw[2]
  <2> DEFINE w == DataEnds(u, 0)
  <2>1. v = Returns(w, "text")
    BY <1>1 DEF EndOfText
  <2>2. Settles(w, u, u.pc, u.raw[2], u.data[1], u.raw[2] - 0, u.n, u.tt)
    BY EndSettles DEF AtError
  <2> HIDE DEF w
  <2>3. Settles(v, w, "returned", w.raw[2], w.data[1], w.data[2], w.n, "text")
    BY <2>1, <2>2, ReturnSettles DEF Kinds, Settles
  <2>4. u.raw[1] \in Int /\ u.raw[2] \in Int /\ u.data[1] = u.raw[1] /\ u.err = TRUE
    BY Ranges DEF AtError, FromStart
  <2>5. /\ Sound(v) /\ v.pc = "returned" /\ v.tt = "text" /\ v.raw[1] = u.raw[1]
        /\ v.raw[2] = u.raw[2] /\ v.data[1] = u.raw[1] /\ v.data[2] = u.raw[2] /\ v.err = TRUE
    BY ONLY <2>2, <2>3, <2>4 DEF Settles, Keeps
  <2>6. AtReturn(v)
    BY ONLY <1>1, <2>4, <2>5 DEF AtReturn, Inside
  <2> QED BY ONLY <2>5, <2>6 DEF TokenFits, PlaceFits, Sound
<1>2. CASE ~(u.raw[1] < u.raw[2])
  <2>1. v = Returns(u, "error")
    BY <1>2 DEF EndOfText
  <2> QED BY <2>1, ErrorFits DEF AtError
<1> QED BY <1>1, <1>2

\* The data of a comment or doctype reaches to the end of the input.
LEMMA DataReaches ==
    ASSUME NEW u, Sound(u), u.raw[1] < u.data[1], u.data[1] <= u.raw[2],
           NEW tt \in {"comment", "doctype"}, NEW v, v = Returns(DataEnds(u, 0), tt)
    PROVE  TokenFits(v)
<1> DEFINE w == DataEnds(u, 0)
<1>1. v = Returns(w, tt) /\ tt \in Kinds
  BY DEF Kinds
<1>2. Settles(w, u, u.pc, u.raw[2], u.data[1], u.raw[2] - 0, u.n, u.tt)
  BY EndSettles
<1> HIDE DEF w
<1>3. Settles(v, w, "returned", w.raw[2], w.data[1], w.data[2], w.n, tt)
  BY <1>1, <1>2, ReturnSettles DEF Settles
<1>4. u.raw[2] \in Int
  BY Ranges
<1>5. /\ Sound(v) /\ v.pc = "returned" /\ v.tt = tt /\ v.raw[1] < v.data[1]
      /\ v.data[1] <= v.data[2] /\ v.data[2] <= v.raw[2]
  BY ONLY <1>2, <1>3, <1>4, u.raw[1] < u.data[1], u.data[1] <= u.raw[2] DEF Settles
<1> QED BY <1>5, CommentIsOver
LEMMA NothingReaches ==
    ASSUME NEW u, Sound(u), u.raw[1] < u.raw[2], NEW tt \in {"comment", "doctype"}, NEW v,
           v = Returns(DataEnds(DataStarts(u), 0), tt)
    PROVE  TokenFits(v)
<1> DEFINE w == DataStarts(u)
<1>1. v = Returns(DataEnds(w, 0), tt)
  OBVIOUS
<1>2. Settles(w, u, u.pc, u.raw[2], u.raw[2], u.data[2], u.n, u.tt)
  BY StartSettles
<1> HIDE DEF w
<1>3. u.raw[2] \in Int
  BY Ranges
<1>4. Sound(w) /\ w.raw[1] < w.data[1] /\ w.data[1] <= w.raw[2]
  BY <1>2, <1>3 DEF Settles
<1> QED BY <1>1, <1>4, DataReaches

LEMMA CdataIsOver ==
    ASSUME NEW u, Sound(u), u.raw[1] < u.data[1], u.data[1] <= u.raw[2], NEW v,
           v = Returns([DataEnds(u, 0) EXCEPT !.markup = FALSE], "text")
    PROVE  TokenFits(v)
<1> DEFINE w == DataEnds(u, 0)
           x == [w EXCEPT !.markup = FALSE]
<1>1. v = Returns(x, "text") /\ "text" \in Kinds
  BY DEF Kinds
<1>2. Settles(w, u, u.pc, u.raw[2], u.data[1], u.raw[2] - 0, u.n, u.tt)
  BY EndSettles
<1> HIDE DEF w
<1>3. TypeFits(x) /\ x.raw = w.raw /\ x.data = w.data /\ x.buf = w.buf /\ x.markup = FALSE
  BY <1>2 DEF TypeFits, Settles, Sound
<1> HIDE DEF x
<1>4. Sound(x)
  BY <1>2, <1>3, HasNumbers DEF Settles, Sound, RawFits
<1>5. Settles(v, x, "returned", x.raw[2], x.data[1], x.data[2], x.n, "text")
  BY <1>1, <1>4, ReturnSettles
<1>6. u.raw[1] \in Int /\ u.raw[2] \in Int /\ u.data[1] \in Int
  BY Ranges
<1>7. /\ Sound(v) /\ v.pc = "returned" /\ v.tt = "text" /\ v.markup = FALSE
      /\ v.raw[1] = u.raw[1] /\ v.raw[2] = u.raw[2] /\ v.data[1] = u.data[1]
      /\ v.data[2] = u.raw[2]
  BY ONLY <1>2, <1>3, <1>5, <1>6 DEF Settles, Keeps
<1>8. v.raw[1] < v.raw[2] /\ Inside(v.data, v.raw)
  BY ONLY <1>6, <1>7, u.raw[1] < u.data[1], u.data[1] <= u.raw[2] DEF Inside
<1>9. AtReturn(v)
  BY ONLY <1>7, <1>8 DEF AtReturn
<1> QED BY ONLY <1>7, <1>9 DEF TokenFits, PlaceFits, Sound

LEMMA EndsFits ==
    ASSUME NEW t, TokenFits(t), t.pc # "returned", NEW u, u = [t EXCEPT !.err = TRUE], NEW v,
           v = Ends(u)
    PROVE  TokenFits(v)
<1>1. AtError(t, u)
  BY ErrorIs
<1>2. Sound(u) /\ PlaceFits(t) /\ u.pc = t.pc /\ t.pc \in Places /\ u.n \in 0..2
  BY <1>1, Ranges DEF AtError
<1>3. CASE t.pc \in Plain
  <2>1. v = EndOfText(u)
    BY <1>2, <1>3 DEF Ends, Plain
  <2>2. FromStart(t)
    BY <1>2, <1>3 DEF PlaceFits, Plain, AtText, AtLessThan, AtEndTag
  <2> QED BY <1>1, <2>1, <2>2, TextIsOver
<1>4. CASE t.pc \in InTag
  <2>1. v = Returns(u, "error")
    BY <1>2, <1>4 DEF Ends, InTag
  <2> QED BY <1>2, <2>1, ErrorFits
<1>5. CASE t.pc \in Declared
  <2>1. InMarkup(t)
    BY <1>2, <1>5 DEF PlaceFits, Declared, InWord, AtAngle, AtComment, AtBang, AtCdata
  <2>2. u.raw[1] < u.data[1] /\ u.data[1] <= u.raw[2]
    BY <1>1, <2>1 DEF AtError, InMarkup
  <2>3. u.raw[1] < u.raw[2]
    <3>1. u.raw[1] \in Int /\ u.raw[2] \in Int /\ u.data[1] \in Int
      BY <1>2, Ranges
    <3> QED BY ONLY <2>2, <3>1
  <2>4. CASE t.pc \in {"declaration", "bang"}
    <3>1. v = Returns(DataEnds(u, 0), "comment")
      BY <1>2, <2>4 DEF Ends
    <3> QED BY <1>2, <2>2, <3>1, DataReaches
  <2>5. CASE t.pc \in {"doctype", "cdataWord"}
    <3>1. v = Returns(DataEnds(DataStarts(u), 0), "comment")
      BY <1>2, <2>5 DEF Ends
    <3> QED BY <1>2, <2>3, <3>1, NothingReaches
  <2>6. CASE t.pc = "doctypeWhite"
    <3>1. v = Returns(DataEnds(DataStarts(u), 0), "doctype")
      BY <1>2, <2>6 DEF Ends
    <3> QED BY <1>2, <2>3, <3>1, NothingReaches
  <2>7. CASE t.pc = "angle"
    <3>1. v = Returns(DataEnds(u, 0), u.tt)
      BY <1>2, <2>7 DEF Ends
    <3>2. u.tt \in {"comment", "doctype"}
      BY <1>1, <1>2, <2>7 DEF PlaceFits, AtAngle, AtError
    <3> QED BY <1>2, <2>2, <3>1, <3>2, DataReaches
  <2>8. CASE t.pc = "comment"
    <3>1. v = Returns(NotBefore(DataEnds(u, u.n)), "comment")
      BY <1>2, <2>8 DEF Ends
    <3>2. u.n \in Nat
      BY <1>2
    <3> QED BY <1>2, <2>2, <3>1, <3>2, CommentReturns
  <2>9. CASE t.pc = "cdata"
    <3>1. v = Returns([DataEnds(u, 0) EXCEPT !.markup = FALSE], "text")
      BY <1>2, <2>9 DEF Ends
    <3> QED BY <1>2, <2>2, <3>1, CdataIsOver
  <2> QED BY <1>5, <2>4, <2>5, <2>6, <2>7, <2>8, <2>9 DEF Declared
<1>6. CASE t.pc \in {"raw", "rawLess", "plaintext"} \cup Closing \cup ScriptStates
  <2>1. v = EndOfRaw(u)
    BY <1>2, <1>6 DEF Ends, Closing, ScriptStates
  <2>2. \E tag : InRaw(t, tag)
    BY <1>2, <1>6 DEF PlaceFits, Closing, ScriptStates, AtRaw, AtRawLess, AtRawName,
       AtRawAfterName, IsClosing, AtScriptData, AtLess, AtEscapeStart, AtEscapeStartDash,
       AtEscapedLess, InEscaped
  <2>3. u.n = 0 /\ FromStart(u)
    BY <1>1, <2>2 DEF InRaw, AtError, FromStart
  <2> QED BY <1>2, <2>1, <2>3, RawIsOver
<1> QED BY <1>2, <1>3, <1>4, <1>5, <1>6 DEF Places

\* A fresh token, at the end of the last.
Fresh(t, e) == [t EXCEPT !.raw = <<e, e>>, !.data = <<e, e>>, !.markup = TRUE, !.n = 0]
LEMMA FreshIs ==
    ASSUME NEW t, TokenFits(t), NEW e, e = t.raw[2], NEW w, w = Fresh(t, e)
    PROVE  /\ Sound(w) /\ w.raw[1] = e /\ w.raw[2] = e /\ FromStart(w) /\ w.n = 0
           /\ w.rawTag = t.rawTag /\ w.buf = t.buf /\ e \in Int
<1>1. TypeFits(t) /\ RawFits(t) /\ Numbers(t)
  BY HasNumbers DEF TokenFits
<1>2. e \in Int /\ 0 <= e /\ e <= Len(t.buf)
  BY <1>1 DEF RawFits, Numbers
<1>3. <<e, e>> \in Int \X Int /\ 0 \in 0..2
  BY <1>2
<1>4. /\ TypeFits(w) /\ w.raw = <<e, e>> /\ w.data = <<e, e>> /\ w.n = 0 /\ w.rawTag = t.rawTag
      /\ w.buf = t.buf
  BY ONLY <1>1, <1>3, w = Fresh(t, e) DEF Fresh, TypeFits
<1>5. w.raw[1] = e /\ w.raw[2] = e
  BY <1>4
<1>6. RawFits(w) /\ Numbers(w)
  BY <1>2, <1>4, <1>5, HasNumbers DEF RawFits
<1> QED BY ONLY <1>2, <1>4, <1>5, <1>6 DEF Sound, FromStart

LEMMA NothingYet ==
    ASSUME NEW v, v.raw[2] \in Int, v.raw[1] = v.raw[2]
    PROVE  /\ NoTags(v.buf, v.raw[1], v.raw[2]) /\ SoFar(v) /\ ~(v.raw[1] < v.raw[2])
           /\ NoneBegun(v, TRUE) /\ NoneBegun(v, FALSE)
BY DEF NoTags, SoFar, NoEndTag, NoneBegun

\* Where the token begins.
FirstPlace(tag) ==
    CASE tag = "none" -> "text" [] tag = "p" -> "plaintext" [] tag = "s" -> "scriptData"
      [] tag = "t" -> "raw"
LEMMA NextFits ==
    ASSUME NEW t, TokenFits(t), NEW e, e = t.raw[2], NEW w, w = Fresh(t, e), NEW v,
           v = IF t.err THEN Returns(w, "error") ELSE Goto(w, FirstPlace(t.rawTag))
    PROVE  TokenFits(v)
<1>1. /\ Sound(w) /\ w.raw[1] = e /\ w.raw[2] = e /\ FromStart(w) /\ w.n = 0
      /\ w.rawTag = t.rawTag /\ w.buf = t.buf /\ e \in Int
  BY FreshIs
<1>2. CASE t.err
  <2>1. v = Returns(w, "error")
    BY <1>2
  <2> QED BY <1>1, <2>1, ErrorFits
<1>3. CASE ~t.err
  <2>1. t.rawTag \in {"none", "p", "s", "t"}
    BY DEF TokenFits, TypeFits, RawNames
  <2>2. ASSUME NEW pc \in Places, v = Goto(w, pc)
        PROVE  /\ Sound(v) /\ v.pc = pc /\ v.raw[1] = e /\ v.raw[2] = e /\ FromStart(v)
               /\ v.n = 0 /\ v.rawTag = t.rawTag
    <3>1. Settles(v, w, pc, w.raw[2], w.data[1], w.data[2], w.n, w.tt)
      BY <1>1, <2>2, GotoSettles
    <3>0. Sound(v)
      BY ONLY <3>1 DEF Settles
    <3>2. v.data = <<v.data[1], v.data[2]>>
      BY ONLY <3>0, Ranges
    <3>3. w.data[1] = e /\ w.data[2] = e
      BY <1>1 DEF FromStart
    <3> QED BY ONLY <1>1, <3>1, <3>2, <3>3 DEF Settles, Keeps, FromStart
  <2>3. CASE t.rawTag = "none"
    <3>1. v = Goto(w, "text") /\ "text" \in Places
      BY <1>3, <2>3 DEF FirstPlace, Places, Plain
    <3>2. /\ Sound(v) /\ v.pc = "text" /\ v.raw[1] = e /\ v.raw[2] = e /\ FromStart(v)
          /\ v.n = 0 /\ v.rawTag = "none" /\ e \in Int
      BY <1>1, <2>2, <2>3, <3>1
    <3>3. AtText(v)
      BY ONLY <3>2, NothingYet DEF AtText, Outside
    <3> QED BY ONLY <3>2, <3>3 DEF TokenFits, PlaceFits, Sound
  <2>4. CASE t.rawTag = "p"
    <3>1. v = Goto(w, "plaintext") /\ "plaintext" \in Places
      BY <1>3, <2>4 DEF FirstPlace, Places
    <3>2. /\ Sound(v) /\ v.pc = "plaintext" /\ v.raw[1] = e /\ v.raw[2] = e /\ FromStart(v)
          /\ v.n = 0 /\ v.rawTag = "p" /\ e \in Int
      BY <1>1, <2>2, <2>4, <3>1
    <3> QED BY ONLY <3>2 DEF TokenFits, PlaceFits, Sound, InRaw
  <2>5. CASE t.rawTag = "s"
    <3>1. v = Goto(w, "scriptData") /\ "scriptData" \in Places
      BY <1>3, <2>5, RawPlaces DEF FirstPlace
    <3>2. /\ Sound(v) /\ v.pc = "scriptData" /\ v.raw[1] = e /\ v.raw[2] = e /\ FromStart(v)
          /\ v.n = 0 /\ v.rawTag = "s" /\ e \in Int
      BY <1>1, <2>2, <2>5, <3>1
    <3>3. AtScriptData(v)
      BY ONLY <3>2, NothingYet DEF AtScriptData, InRaw
    <3> QED BY ONLY <3>2, <3>3 DEF TokenFits, PlaceFits, Sound
  <2>6. CASE t.rawTag = "t"
    <3>1. v = Goto(w, "raw") /\ "raw" \in Places
      BY <1>3, <2>6, RawPlaces DEF FirstPlace
    <3>2. /\ Sound(v) /\ v.pc = "raw" /\ v.raw[1] = e /\ v.raw[2] = e /\ FromStart(v)
          /\ v.n = 0 /\ v.rawTag = "t" /\ e \in Int
      BY <1>1, <2>2, <2>6, <3>1
    <3>3. AtRaw(v)
      BY ONLY <3>2, NothingYet DEF AtRaw, InRaw
    <3> QED BY ONLY <3>2, <3>3 DEF TokenFits, PlaceFits, Sound
  <2> QED BY <2>1, <2>3, <2>4, <2>5, <2>6
<1> QED BY <1>2, <1>3

\* The tokenizer that NewTokenizerFragment returns, and what it reads.
PageFits ==
    page \in [start : Seq(STRING), chars : SUBSET STRING, left : Nat, chunk : Nat,
              rawTag : RawNames \cup {"none"}, cdata : BOOLEAN]
LEMMA InitFits ==
    ASSUME TokenizerAssumed, TokenizerInit
    PROVE  PageFits /\ TokenInv
<1>1. PageFits
  BY DEF TokenizerAssumed, TokenizerInit, PageFits
<1>2. /\ page.start \in Seq(STRING) /\ page.rawTag \in RawNames \cup {"none"}
      /\ page.cdata \in BOOLEAN
  BY <1>1 DEF PageFits
<1>3. /\ <<0, 0>> \in Int \X Int /\ <<>> \in Seq((Int \X Int) \X (Int \X Int)) /\ 0 \in 0..2
      /\ "returned" \in Places /\ "none" \in Kinds /\ "'" \in Quotes /\ "raw" \in Places
  BY DEF Places, Kinds, Quotes
<1>4. /\ TypeFits(z) /\ z.pc = "returned" /\ z.tt = "none" /\ z.raw = <<0, 0>>
      /\ z.buf = page.start
  BY <1>2, <1>3 DEF TokenizerInit, TypeFits
<1>5. RawFits(z)
  BY <1>2, <1>4 DEF RawFits
<1>6. PlaceFits(z)
  BY <1>4 DEF PlaceFits, AtReturn
<1> QED BY <1>1, <1>4, <1>5, <1>6 DEF TokenInv, TokenFits

-----------------------------------------------------------------------------
(* The live bytes of the buffer move to its start. *)

\* The bytes after the x-th, up to the h-th, are the first of the new buffer.
MovesTo(new, old, x, h) ==
    /\ x \in Int /\ h \in Int /\ 0 <= x /\ x <= h /\ Len(old) = h /\ Len(new) \in Int
    /\ h - x <= Len(new)
    /\ \A k \in 1..h - x : new[k] = old[k + x]

LEMMA MovedByte ==
    ASSUME NEW new, NEW old, NEW x, NEW h, MovesTo(new, old, x, h), NEW k \in Int, x < k, k <= h
    PROVE  new[k - x] = old[k]
<1>1. k - x \in 1..h - x /\ k - x + x = k
  BY DEF MovesTo
<1> QED BY <1>1 DEF MovesTo
LEMMA ByteMoves ==
    ASSUME NEW new, NEW old, NEW x, NEW h, MovesTo(new, old, x, h)
    PROVE  \A j, k \in Int : x < k /\ k <= h /\ j = k - x => new[j] = old[k]
BY MovedByte

LEMMA AfterMoves ==
    ASSUME NEW new, NEW old, NEW x, NEW h, MovesTo(new, old, x, h), NEW a \in Int, x < a, a < h,
           NEW b \in Int, b = a - x
    PROVE  new[b + 1] = old[a + 1]
<1>1. a + 1 - x = b + 1 /\ b + 1 \in 1..h - x
  BY DEF MovesTo
<1> QED BY <1>1 DEF MovesTo

LEMMA FreeMoves ==
    ASSUME NEW new, NEW old, NEW x, NEW h, MovesTo(new, old, x, h), NEW a \in Int, NEW b \in Int,
           x <= a, b <= h, NEW S, NoneOf(old, a, b, S)
    PROVE  NoneOf(new, a - x, b - x, S)
<1> SUFFICES ASSUME NEW k \in a - x + 1..b - x PROVE new[k] \notin S
  BY DEF NoneOf
<1>1. k \in 1..h - x /\ k + x \in a + 1..b
  BY DEF MovesTo
<1> QED BY <1>1 DEF MovesTo, NoneOf
LEMMA TagsMove ==
    ASSUME NEW new, NEW old, NEW x, NEW h, MovesTo(new, old, x, h), NoTags(old, x, h)
    PROVE  NoTags(new, 0, h - x)
<1> SUFFICES ASSUME NEW k \in 1..h - x - 1, new[k] = "<", new[k + 1] \in Begins PROVE FALSE
  BY DEF NoTags, MovesTo
<1>1. /\ k \in 1..h - x /\ k + 1 \in 1..h - x /\ k + x \in x + 1..h - 1 /\ k + 1 + x = k + x + 1
  BY DEF MovesTo
<1>2. old[k + x] = "<" /\ old[k + x + 1] \in Begins
  BY <1>1 DEF MovesTo
<1> QED BY <1>1, <1>2 DEF NoTags
LEMMA EndTagMoves ==
    ASSUME NEW new, NEW old, NEW x, NEW h, MovesTo(new, old, x, h), NEW tag, NEW lenient,
           NoEndTag(old, x, h, tag, lenient)
    PROVE  NoEndTag(new, 0, h - x, tag, lenient)
<1> SUFFICES ASSUME NEW k \in 1..h - x - 3, new[k] = "<", new[k + 1] = "/", new[k + 2] = tag,
                    new[k + 3] \in TagEnd
             PROVE  lenient /\ k > 1 /\ new[k - 1] = "<"
  BY DEF NoEndTag, MovesTo
<1>1. /\ k \in 1..h - x /\ k + 1 \in 1..h - x /\ k + 2 \in 1..h - x /\ k + 3 \in 1..h - x
      /\ k + x \in x + 1..h - 3 /\ k + 1 + x = k + x + 1 /\ k + 2 + x = k + x + 2
      /\ k + 3 + x = k + x + 3 /\ (k > 1 => k - 1 \in 1..h - x /\ k - 1 + x = k + x - 1)
      /\ x \in Int
  BY DEF MovesTo
<1>2. /\ old[k + x] = "<" /\ old[k + x + 1] = "/" /\ old[k + x + 2] = tag
      /\ old[k + x + 3] \in TagEnd
  BY <1>1 DEF MovesTo
<1>3. lenient /\ k + x > x + 1 /\ old[k + x - 1] = "<"
  BY ONLY <1>1, <1>2, NoEndTag(old, x, h, tag, lenient) DEF NoEndTag
<1>4. k > 1
  BY ONLY <1>1, <1>3
<1> QED BY <1>1, <1>3, <1>4 DEF MovesTo
LEMMA ArrowMoves ==
    ASSUME NEW new, NEW old, NEW x, NEW h, MovesTo(new, old, x, h), NEW a \in Int, x <= a,
           NoArrow(old, a, h)
    PROVE  NoArrow(new, a - x, h - x)
<1> SUFFICES ASSUME NEW k \in a - x + 1..h - x - 2, new[k] = "-", new[k + 1] = "-",
                    new[k + 2] = ">"
             PROVE  k > a - x + 1 /\ new[k - 1] = "!"
  BY DEF NoArrow
<1>1. /\ k \in 1..h - x /\ k + 1 \in 1..h - x /\ k + 2 \in 1..h - x
      /\ k + x \in a + 1..h - 2 /\ k + 1 + x = k + x + 1 /\ k + 2 + x = k + x + 2
      /\ k > a - x + 1 => k - 1 \in 1..h - x /\ k - 1 + x = k + x - 1
      /\ x \in Int
  BY DEF MovesTo
<1>2. old[k + x] = "-" /\ old[k + x + 1] = "-" /\ old[k + x + 2] = ">"
  BY <1>1 DEF MovesTo
<1>3. k + x > a + 1 /\ old[k + x - 1] = "!"
  BY ONLY <1>1, <1>2, NoArrow(old, a, h) DEF NoArrow
<1>4. k > a - x + 1
  BY ONLY <1>1, <1>3, a \in Int
<1> QED BY <1>1, <1>3, <1>4 DEF MovesTo
LEMMA BracketsMove ==
    ASSUME NEW new, NEW old, NEW x, NEW h, MovesTo(new, old, x, h), NEW a \in Int, x <= a,
           NoBrackets(old, a, h)
    PROVE  NoBrackets(new, a - x, h - x)
<1> SUFFICES ASSUME NEW k \in a - x + 1..h - x - 2, new[k] = "]", new[k + 1] = "]",
                    new[k + 2] = ">"
             PROVE  FALSE
  BY DEF NoBrackets
<1>1. /\ k \in 1..h - x /\ k + 1 \in 1..h - x /\ k + 2 \in 1..h - x
      /\ k + x \in a + 1..h - 2 /\ k + 1 + x = k + x + 1 /\ k + 2 + x = k + x + 2
  BY DEF MovesTo
<1>2. old[k + x] = "]" /\ old[k + x + 1] = "]" /\ old[k + x + 2] = ">"
  BY <1>1 DEF MovesTo
<1> QED BY ONLY <1>1, <1>2, NoBrackets(old, a, h) DEF NoBrackets
LEMMA EscapeMoves ==
    ASSUME NEW new, NEW old, NEW x, NEW h, MovesTo(new, old, x, h), Escaped(old, x, h)
    PROVE  Escaped(new, 0, h - x)
<1>1. PICK k \in x + 1..h - 3 : /\ old[k] = "<" /\ old[k + 1] = "!" /\ old[k + 2] = "-"
                                /\ old[k + 3] = "-"
  BY DEF Escaped
<1>2. PICK j \in Int : j = k - x
  BY DEF MovesTo
<1>3. /\ j \in 0 + 1..h - x - 3 /\ x \in Int /\ h \in Int
      /\ x < k /\ k <= h /\ x < k + 1 /\ k + 1 <= h /\ x < k + 2 /\ k + 2 <= h
      /\ x < k + 3 /\ k + 3 <= h /\ j + 1 = k + 1 - x /\ j + 2 = k + 2 - x /\ j + 3 = k + 3 - x
      /\ j \in Int /\ j + 1 \in Int /\ j + 2 \in Int /\ j + 3 \in Int
      /\ k \in Int /\ k + 1 \in Int /\ k + 2 \in Int /\ k + 3 \in Int
  BY <1>2 DEF MovesTo
<1>4. \A m, n \in Int : x < n /\ n <= h /\ m = n - x => new[m] = old[n]
  BY ByteMoves
<1>5. new[j] = "<" /\ new[j + 1] = "!" /\ new[j + 2] = "-" /\ new[j + 3] = "-"
  BY ONLY <1>1, <1>2, <1>3, <1>4
<1> QED BY ONLY <1>3, <1>5 DEF Escaped

\* s, moved to the start of the buffer.
ShiftsTo(r, s, x) == r[1] = s[1] - x /\ r[2] = s[2] - x /\ s[1] \in Int /\ s[2] \in Int
LEMMA KeyMoves ==
    ASSUME NEW new, NEW old, NEW x, NEW h, MovesTo(new, old, x, h), NEW k, NEW r,
           ShiftsTo(r, k, x), KeyFits(old, x, h, k)
    PROVE  KeyFits(new, 0, h - x, r) /\ (k[1] # k[2] => r[1] # r[2])
<1>1. /\ x < k[1] /\ k[1] <= k[2] /\ k[2] <= h /\ k[2] < h /\ NoneOf(old, k[1], k[2], KeyEnd)
      /\ old[k[2] + 1] \in KeyEnd
      /\ k[1] # k[2] => old[k[1]] \in BeforeKey
      /\ k[1] \in Int /\ k[2] \in Int /\ x \in Int /\ h \in Int /\ h - x <= Len(new)
      /\ Len(new) \in Int /\ r[1] = k[1] - x /\ r[2] = k[2] - x
  BY DEF KeyFits, MovesTo, ShiftsTo
<1>2. new[k[1] - x] = old[k[1]]
  <2>1. k[1] <= h
    BY <1>1
  <2> QED BY <1>1, <2>1, MovedByte
<1>3. new[k[2] + 1 - x] = old[k[2] + 1] /\ k[2] + 1 - x = r[2] + 1
  <2>1. x < k[2] /\ k[2] < h /\ r[2] \in Int /\ r[2] + 1 = k[2] + 1 - x
    BY ONLY <1>1
  <2>2. k[2] + 1 - x = r[2] + 1
    BY ONLY <1>1
  <2>3. new[r[2] + 1] = old[k[2] + 1]
    BY <1>1, <2>1, AfterMoves
  <2> QED BY ONLY <2>2, <2>3
<1>4. NoneOf(new, r[1], r[2], KeyEnd)
  BY <1>1, FreeMoves
<1>5. /\ 0 < r[1] /\ r[1] <= r[2] /\ r[2] <= h - x /\ r[2] < Len(new)
      /\ k[1] # k[2] => r[1] # r[2]
      /\ r[1] # r[2] => k[1] # k[2]
  BY ONLY <1>1
<1> QED BY ONLY <1>1, <1>2, <1>3, <1>4, <1>5 DEF KeyFits
LEMMA ValMoves ==
    ASSUME NEW new, NEW old, NEW x, NEW h, MovesTo(new, old, x, h), NEW k, NEW r,
           ShiftsTo(r, k, x), ValFits(old, x, h, k)
    PROVE  ValFits(new, 0, h - x, r)
<1>1. /\ x < k[1] /\ k[1] <= k[2] /\ k[2] <= h /\ k[1] <= h
      /\ k[1] \in Int /\ k[2] \in Int /\ x \in Int /\ h \in Int /\ h - x <= Len(new)
      /\ Len(new) \in Int /\ r[1] = k[1] - x /\ r[2] = k[2] - x /\ Len(old) = h
  <2>1. x < k[1] /\ k[1] <= k[2] /\ k[2] <= h
    BY DEF ValFits
  <2>2. /\ k[1] \in Int /\ k[2] \in Int /\ x \in Int /\ h \in Int /\ h - x <= Len(new)
        /\ Len(new) \in Int /\ r[1] = k[1] - x /\ r[2] = k[2] - x /\ Len(old) = h
    BY DEF MovesTo, ShiftsTo
  <2> QED BY ONLY <2>1, <2>2
<1>2. new[r[1]] = old[k[1]]
  BY <1>1, MovedByte
<1>3. k[2] < h => new[r[2] + 1] = old[k[2] + 1]
  <2> SUFFICES ASSUME k[2] < h PROVE new[r[2] + 1] = old[k[2] + 1]
    OBVIOUS
  <2>1. x < k[2] /\ r[2] \in Int
    BY ONLY <1>1
  <2> QED BY <1>1, <2>1, AfterMoves
<1>4. \A S : NoneOf(old, k[1], k[2], S) => NoneOf(new, r[1], r[2], S)
  <2> SUFFICES ASSUME NEW S, NoneOf(old, k[1], k[2], S) PROVE NoneOf(new, r[1], r[2], S)
    OBVIOUS
  <2> QED BY <1>1, FreeMoves
<1>5. /\ 0 < r[1] /\ r[1] <= r[2] /\ r[2] <= h - x /\ (k[2] < h => r[2] < Len(new))
      /\ (k[1] = k[2] => r[1] = r[2])
  BY ONLY <1>1
<1>6. CASE k[1] = k[2]
  BY ONLY <1>5, <1>6 DEF ValFits
<1>7. CASE /\ old[k[1]] \in Quotes /\ k[2] < Len(old) /\ old[k[2] + 1] = old[k[1]]
           /\ NoneOf(old, k[1], k[2], {old[k[1]]})
  <2>1. NoneOf(new, r[1], r[2], {old[k[1]]})
    BY ONLY <1>4, <1>7
  <2> QED BY ONLY <1>1, <1>2, <1>3, <1>5, <1>7, <2>1 DEF ValFits
<1>8. CASE /\ old[k[1]] \in Space \cup {"="} /\ k[2] < Len(old) /\ old[k[2] + 1] \in TagEnd
           /\ NoneOf(old, k[1], k[2], {">"})
  <2>1. NoneOf(new, r[1], r[2], {">"})
    BY ONLY <1>4, <1>8
  <2> QED BY ONLY <1>1, <1>2, <1>3, <1>5, <1>8, <2>1 DEF ValFits
<1> QED BY <1>6, <1>7, <1>8 DEF ValFits

\* v is t with its live bytes at the start of the buffer, and more bytes after them.
Slides(v, t) ==
    /\ Sound(v) /\ Sound(t) /\ MovesTo(v.buf, t.buf, t.raw[1], t.raw[2])
    /\ v.raw[1] = 0 /\ v.raw[2] = t.raw[2] - t.raw[1]
    /\ ShiftsTo(v.data, t.data, t.raw[1]) /\ ShiftsTo(v.key, t.key, t.raw[1])
    /\ ShiftsTo(v.val, t.val, t.raw[1])
    /\ DOMAIN v.attr = DOMAIN t.attr
    /\ \A i \in DOMAIN t.attr : /\ ShiftsTo(v.attr[i][1], t.attr[i][1], t.raw[1])
                                /\ ShiftsTo(v.attr[i][2], t.attr[i][2], t.raw[1])
    /\ t.attr = <<>> => v.attr = <<>>
    /\ v.pc = t.pc /\ v.tt = t.tt /\ v.n = t.n /\ v.start = t.start /\ v.quote = t.quote
    /\ v.else = t.else /\ v.rawTag = t.rawTag /\ v.markup = t.markup /\ v.err = t.err

\* The last bytes that were read.
Lasts(v, t) ==
    /\ t.raw[1] < t.raw[2] => v.buf[v.raw[2]] = t.buf[t.raw[2]]
    /\ t.raw[1] < t.raw[2] - 1 => v.buf[v.raw[2] - 1] = t.buf[t.raw[2] - 1]
    /\ t.raw[1] < t.raw[2] - 2 => v.buf[v.raw[2] - 2] = t.buf[t.raw[2] - 2]
    /\ t.raw[1] < t.raw[2] - 1 - 1 => v.buf[v.raw[2] - 1 - 1] = t.buf[t.raw[2] - 1 - 1]
    /\ t.raw[1] < t.raw[2] - 2 - 1 => v.buf[v.raw[2] - 2 - 1] = t.buf[t.raw[2] - 2 - 1]
Sizes(v, t) ==
    /\ t.raw[1] \in Int /\ t.raw[2] \in Int /\ v.raw[2] \in Int /\ Len(v.buf) \in Int
    /\ t.raw[2] = Len(t.buf) /\ v.raw[2] = t.raw[2] - t.raw[1] /\ v.raw[1] = 0
    /\ v.raw[2] <= Len(v.buf) /\ t.raw[1] <= t.raw[2]
LEMMA SlideIs ==
    ASSUME NEW v, NEW t, Slides(v, t)
    PROVE  /\ Lasts(v, t) /\ Sizes(v, t) /\ (t.raw[1] < t.raw[2] => Latest(v) = Latest(t))
           /\ \A S : ~Peeks(t, S)
<1> DEFINE x == t.raw[1]
           h == t.raw[2]
<1>1. Sizes(v, t) /\ MovesTo(v.buf, t.buf, x, h)
  BY Ranges DEF Slides, Sizes, MovesTo
<1>2. \A S : ~Peeks(t, S)
  BY <1>1 DEF Peeks, Sizes
<1>3. \A j, k \in Int : x < k /\ k <= h /\ j = k - x => v.buf[j] = t.buf[k]
  BY <1>1, ByteMoves
<1>4. Lasts(v, t)
  <2> DEFINE e == v.raw[2]
  <2>0. x \in Int /\ h \in Int /\ e = h - x
    BY ONLY <1>1 DEF Sizes
  <2> HIDE DEF x, h, e
  <2>1. /\ x \in Int /\ h \in Int /\ e \in Int
        /\ e = h - x /\ e - 1 = h - 1 - x /\ e - 2 = h - 2 - x
        /\ e - 1 - 1 = h - 1 - 1 - x /\ e - 2 - 1 = h - 2 - 1 - x /\ h - 1 \in Int
        /\ h - 2 \in Int /\ h - 1 - 1 \in Int /\ h - 2 - 1 \in Int
        /\ e - 1 \in Int /\ e - 2 \in Int /\ e - 1 - 1 \in Int /\ e - 2 - 1 \in Int
        /\ h - 1 <= h /\ h - 2 <= h /\ h - 1 - 1 <= h /\ h - 2 - 1 <= h /\ h <= h
    BY ONLY <2>0
  <2>2. x < h => v.buf[e] = t.buf[h]
    BY ONLY <1>3, <2>1
  <2>3. x < h - 1 => v.buf[e - 1] = t.buf[h - 1]
    BY ONLY <1>3, <2>1
  <2>4. x < h - 2 => v.buf[e - 2] = t.buf[h - 2]
    BY ONLY <1>3, <2>1
  <2>5. x < h - 1 - 1 => v.buf[e - 1 - 1] = t.buf[h - 1 - 1]
    BY ONLY <1>3, <2>1
  <2>6. x < h - 2 - 1 => v.buf[e - 2 - 1] = t.buf[h - 2 - 1]
    BY ONLY <1>3, <2>1
  <2> QED BY ONLY <2>2, <2>3, <2>4, <2>5, <2>6 DEF Lasts, x, h, e
<1> QED BY ONLY <1>1, <1>2, <1>4 DEF Lasts, Latest

LEMMA NameSlides ==
    ASSUME NEW v, NEW t, Slides(v, t), NameFits(t)
    PROVE  NameFits(v)
<1> DEFINE x == t.raw[1]
           h == t.raw[2]
<1>1. /\ MovesTo(v.buf, t.buf, x, h) /\ x \in Int /\ h \in Int /\ t.data[1] \in Int
      /\ t.data[2] \in Int /\ v.data[1] = t.data[1] - x /\ v.data[2] = t.data[2] - x
      /\ v.raw[1] = 0 /\ v.raw[2] = h - x /\ v.start = t.start /\ h = Len(t.buf)
      /\ h - x <= Len(v.buf) /\ Len(v.buf) \in Int
  BY DEF Slides, ShiftsTo, MovesTo
<1>2. /\ x < t.data[1] /\ t.data[1] < t.data[2] /\ t.data[2] <= h
      /\ NoneOf(t.buf, t.data[1], t.data[2], TagEnd)
      /\ t.buf[t.data[1]] = IF t.start THEN "<" ELSE "/"
      /\ t.data[2] < h /\ t.buf[t.data[2] + 1] \in TagEnd
  BY <1>1 DEF NameFits
<1>3. t.data[1] <= h /\ x < t.data[2] /\ x <= t.data[1]
  BY ONLY <1>1, <1>2
<1>4. v.buf[v.data[1]] = t.buf[t.data[1]]
  <2>1. v.data[1] \in Int
    BY <1>1
  <2>2. \A j, k \in Int : x < k /\ k <= h /\ j = k - x => v.buf[j] = t.buf[k]
    <3>1. MovesTo(v.buf, t.buf, x, h)
      BY ONLY <1>1
    <3> QED BY ONLY <3>1, ByteMoves
  <2> QED BY ONLY <1>1, <1>2, <1>3, <2>1, <2>2
<1>5. v.buf[v.data[2] + 1] = t.buf[t.data[2] + 1]
  <2>1. v.data[2] \in Int
    BY <1>1
  <2>2. /\ MovesTo(v.buf, t.buf, x, h) /\ x \in Int /\ h \in Int /\ t.data[2] \in Int
        /\ v.data[2] = t.data[2] - x /\ x < t.data[2] /\ t.data[2] < h
    BY ONLY <1>1, <1>2, <1>3
  <2> HIDE DEF x, h
  <2> QED BY ONLY <2>1, <2>2, AfterMoves
<1>6. NoneOf(v.buf, v.data[1], v.data[2], TagEnd)
  BY <1>1, <1>2, <1>3, FreeMoves
<1>7. /\ v.raw[1] < v.data[1] /\ v.data[1] < v.data[2] /\ v.data[2] <= v.raw[2]
      /\ v.data[2] < Len(v.buf)
  <2>1. x < t.data[1] /\ t.data[1] < t.data[2] /\ t.data[2] <= h /\ t.data[2] < h
    BY ONLY <1>2
  <2>2. /\ x \in Int /\ h \in Int /\ t.data[1] \in Int /\ t.data[2] \in Int
        /\ h - x <= Len(v.buf) /\ Len(v.buf) \in Int
    BY ONLY <1>1
  <2>3. /\ v.data[1] = t.data[1] - x /\ v.data[2] = t.data[2] - x
        /\ v.raw[1] = 0 /\ v.raw[2] = h - x
    BY ONLY <1>1
  <2> HIDE DEF x, h
  <2>4. /\ 0 < t.data[1] - x /\ t.data[1] - x < t.data[2] - x /\ t.data[2] - x <= h - x
        /\ t.data[2] - x < Len(v.buf)
    BY ONLY <2>1, <2>2
  <2> QED BY ONLY <2>3, <2>4
<1> QED BY ONLY <1>1, <1>2, <1>4, <1>5, <1>6, <1>7 DEF NameFits

LEMMA NamedSlides ==
    ASSUME NEW v, NEW t, Slides(v, t), Named(t)
    PROVE  Named(v) /\ t.raw[1] < t.raw[2]
<1>1. Outside(v) /\ NameFits(v)
  BY NameSlides DEF Named, Outside, Slides
<1>2. AttrsFit(v)
  <2> SUFFICES ASSUME NEW i \in DOMAIN t.attr
               PROVE  /\ KeyFits(v.buf, v.raw[1], v.raw[2], v.attr[i][1])
                      /\ v.attr[i][1][1] # v.attr[i][1][2]
                      /\ ValFits(v.buf, v.raw[1], v.raw[2], v.attr[i][2])
    BY DEF AttrsFit, Slides
  <2>1. /\ KeyFits(t.buf, t.raw[1], t.raw[2], t.attr[i][1])
        /\ t.attr[i][1][1] # t.attr[i][1][2]
        /\ ValFits(t.buf, t.raw[1], t.raw[2], t.attr[i][2])
    BY DEF Named, AttrsFit
  <2>2. /\ ShiftsTo(v.attr[i][1], t.attr[i][1], t.raw[1])
        /\ ShiftsTo(v.attr[i][2], t.attr[i][2], t.raw[1])
        /\ v.raw[1] = 0 /\ v.raw[2] = t.raw[2] - t.raw[1]
        /\ MovesTo(v.buf, t.buf, t.raw[1], t.raw[2])
    BY DEF Slides
  <2>3. /\ KeyFits(v.buf, 0, t.raw[2] - t.raw[1], v.attr[i][1])
        /\ v.attr[i][1][1] # v.attr[i][1][2]
    BY <2>1, <2>2, KeyMoves
  <2>4. ValFits(v.buf, 0, t.raw[2] - t.raw[1], v.attr[i][2])
    BY <2>1, <2>2, ValMoves
  <2> QED BY ONLY <2>2, <2>3, <2>4
<1>3. t.raw[1] < t.raw[2]
  <2>1. t.raw[1] \in Int /\ t.raw[2] \in Int /\ t.data[1] \in Int /\ t.data[2] \in Int
    BY Ranges DEF Slides
  <2> QED BY <2>1 DEF Named, NameFits
<1> QED BY <1>1, <1>2, <1>3 DEF Named

LEMMA KeyedSlides ==
    ASSUME NEW v, NEW t, Slides(v, t), Keyed(t)
    PROVE  Keyed(v) /\ t.raw[1] < t.raw[2]
<1>1. Named(v) /\ t.raw[1] < t.raw[2]
  BY NamedSlides DEF Keyed
<1>2. /\ KeyFits(t.buf, t.raw[1], t.raw[2], t.key) /\ ShiftsTo(v.key, t.key, t.raw[1])
      /\ v.raw[1] = 0 /\ v.raw[2] = t.raw[2] - t.raw[1]
      /\ MovesTo(v.buf, t.buf, t.raw[1], t.raw[2])
  BY DEF Keyed, Slides
<1>3. KeyFits(v.buf, 0, t.raw[2] - t.raw[1], v.key)
  BY <1>2, KeyMoves
<1>4. KeyFits(v.buf, v.raw[1], v.raw[2], v.key)
  BY ONLY <1>2, <1>3
<1> QED BY ONLY <1>1, <1>4 DEF Keyed

\* A span that is still open: it begins at s[1] and reaches what was read.
LEMMA OpenSlides ==
    ASSUME NEW v, NEW t, Slides(v, t), NEW s, NEW r, ShiftsTo(r, s, t.raw[1]),
           t.raw[1] < s[1], s[1] <= t.raw[2]
    PROVE  /\ v.raw[1] < r[1] /\ r[1] <= v.raw[2] /\ v.buf[r[1]] = t.buf[s[1]]
           /\ \A S : NoneOf(t.buf, s[1], t.raw[2], S) => NoneOf(v.buf, r[1], v.raw[2], S)
           /\ s[1] < t.raw[2] <=> r[1] < v.raw[2]
           /\ s[1] < t.raw[2] - 1 <=> r[1] < v.raw[2] - 1
           /\ s[1] < t.raw[2] - 2 <=> r[1] < v.raw[2] - 2
           /\ r[1] \in Int /\ s[1] \in Int
<1> DEFINE x == t.raw[1]
           h == t.raw[2]
<1>1. /\ MovesTo(v.buf, t.buf, x, h) /\ x \in Int /\ h \in Int /\ s[1] \in Int
      /\ r[1] = s[1] - x /\ r[1] \in Int
      /\ v.raw[1] = 0 /\ v.raw[2] = h - x
  BY DEF Slides, ShiftsTo, MovesTo
<1>2. v.buf[r[1]] = t.buf[s[1]]
  <2>1. \A j, k \in Int : x < k /\ k <= h /\ j = k - x => v.buf[j] = t.buf[k]
    BY <1>1, ByteMoves
  <2> QED BY <1>1, <2>1
<1>3. \A S : NoneOf(t.buf, s[1], h, S) => NoneOf(v.buf, r[1], v.raw[2], S)
  <2> SUFFICES ASSUME NEW S, NoneOf(t.buf, s[1], h, S) PROVE NoneOf(v.buf, r[1], v.raw[2], S)
    OBVIOUS
  <2>1. NoneOf(v.buf, s[1] - x, h - x, S)
    BY <1>1, FreeMoves
  <2> QED BY ONLY <1>1, <2>1
<1> QED BY <1>1, <1>2, <1>3

LEMMA StartSlides ==
    ASSUME NEW v, NEW t, Slides(v, t), FromStart(t)
    PROVE  FromStart(v)
<1>1. /\ v.data = <<v.data[1], v.data[2]>> /\ v.data[1] = t.data[1] - t.raw[1]
      /\ v.data[2] = t.data[2] - t.raw[1] /\ v.raw[1] = 0 /\ t.raw[1] \in Int
  BY Ranges DEF Slides, ShiftsTo
<1>2. t.data[1] = t.raw[1] /\ t.data[2] = t.raw[1]
  BY DEF FromStart
<1>3. v.data[1] = 0 /\ v.data[2] = 0
  BY ONLY <1>1, <1>2
<1> QED BY ONLY <1>1, <1>3 DEF FromStart

LEMMA PlainSlides ==
    ASSUME NEW v, NEW t, Slides(v, t), PlaceFits(t), t.pc \in Plain
    PROVE  PlaceFits(v)
<1>1. /\ Lasts(v, t) /\ Sizes(v, t) /\ (t.raw[1] < t.raw[2] => Latest(v) = Latest(t))
      /\ v.pc = t.pc /\ MovesTo(v.buf, t.buf, t.raw[1], t.raw[2])
  BY SlideIs DEF Slides
<1>2. FromStart(t) /\ Outside(t)
  BY DEF PlaceFits, Plain, AtText, AtLessThan, AtEndTag
<1>3. FromStart(v) /\ Outside(v)
  BY <1>2, StartSlides DEF Outside, Slides
<1>4. NoTags(t.buf, t.raw[1], t.raw[2]) => NoTags(v.buf, v.raw[1], v.raw[2])
  BY <1>1, TagsMove DEF Sizes
<1>5. t.raw[1] < t.raw[2] <=> v.raw[1] < v.raw[2]
  BY <1>1 DEF Sizes
<1>6. CASE t.pc = "text"
  <2>1. AtText(t)
    BY <1>6 DEF PlaceFits
  <2>2. t.raw[1] < t.raw[2] => Latest(t) # "<"
    BY ONLY <1>1, <2>1 DEF Sizes, AtText
  <2>3. AtText(v)
    BY ONLY <1>1, <1>3, <1>4, <1>5, <2>1, <2>2 DEF AtText
  <2> QED BY ONLY <1>1, <1>6, <2>3 DEF PlaceFits
<1>7. CASE t.pc = "lessThan"
  <2>1. AtLessThan(v)
    BY <1>1, <1>3, <1>4, <1>5, <1>7 DEF PlaceFits, AtLessThan
  <2> QED BY ONLY <1>1, <1>7, <2>1 DEF PlaceFits
<1>8. CASE t.pc = "endTag"
  <2>1. t.raw[2] = t.raw[1] + 2 /\ Latest(t) = "/"
    BY <1>8 DEF PlaceFits, AtEndTag
  <2>2. v.raw[2] = v.raw[1] + 2 /\ Latest(v) = "/"
    BY ONLY <1>1, <2>1 DEF Sizes
  <2>3. AtEndTag(v)
    BY ONLY <1>3, <2>2 DEF AtEndTag
  <2> QED BY ONLY <1>1, <1>8, <2>3 DEF PlaceFits
<1> QED BY <1>6, <1>7, <1>8 DEF Plain

LEMMA TagSlides ==
    ASSUME NEW v, NEW t, Slides(v, t), PlaceFits(t), t.pc \in InTag
    PROVE  PlaceFits(v)
<1> DEFINE x == t.raw[1]
<1>1. /\ (t.raw[1] < t.raw[2] => Latest(v) = Latest(t)) /\ v.pc = t.pc /\ Outside(t) = Outside(v)
      /\ v.quote = t.quote /\ v.start = t.start
      /\ ShiftsTo(v.data, t.data, x) /\ ShiftsTo(v.key, t.key, x) /\ ShiftsTo(v.val, t.val, x)
      /\ (t.attr = <<>> => v.attr = <<>>) /\ \A S : ~Peeks(t, S)
  BY SlideIs DEF Slides, Outside
<1>2. x \in Int /\ t.raw[2] \in Int
  BY SlideIs DEF Sizes
<1>3. CASE t.pc = "name"
  <2>1. /\ Outside(t) /\ t.attr = <<>> /\ x < t.data[1] /\ t.data[1] < t.raw[2]
        /\ NoneOf(t.buf, t.data[1], t.raw[2], TagEnd)
        /\ t.buf[t.data[1]] = IF t.start THEN "<" ELSE "/"
    BY <1>3 DEF PlaceFits, AtName, InName
  <2>2. t.data[1] \in Int
    BY <1>1 DEF ShiftsTo
  <2>3. t.data[1] <= t.raw[2]
    BY ONLY <1>2, <2>1, <2>2
  <2>a. ShiftsTo(v.data, t.data, t.raw[1]) /\ t.raw[1] < t.data[1]
    BY ONLY <1>1, <2>1
  <2>4. /\ v.raw[1] < v.data[1] /\ v.buf[v.data[1]] = t.buf[t.data[1]]
        /\ (t.data[1] < t.raw[2] <=> v.data[1] < v.raw[2])
        /\ \A S : NoneOf(t.buf, t.data[1], t.raw[2], S) => NoneOf(v.buf, v.data[1], v.raw[2], S)
    BY <2>3, <2>a, OpenSlides
  <2>5. AtName(v)
    BY ONLY <1>1, <2>1, <2>4 DEF AtName, InName
  <2> QED BY ONLY <1>1, <1>3, <2>5 DEF PlaceFits
<1>4. CASE t.pc = "white"
  <2>1. Named(t) /\ Latest(t) \in BeforeKey
    BY <1>1, <1>4 DEF PlaceFits, AtWhite
  <2>2. Named(v) /\ Latest(v) = Latest(t)
    BY <1>1, <2>1, NamedSlides
  <2>3. AtWhite(v)
    BY ONLY <2>1, <2>2 DEF AtWhite
  <2> QED BY ONLY <1>1, <1>4, <2>3 DEF PlaceFits
<1>5. CASE t.pc = "key"
  <2>1. /\ Named(t) /\ x < t.key[1] /\ t.key[1] <= t.raw[2]
        /\ NoneOf(t.buf, t.key[1], t.raw[2], KeyEnd) /\ t.buf[t.key[1]] \in BeforeKey
    BY <1>1, <1>5 DEF PlaceFits, AtKey, InKey
  <2>a. ShiftsTo(v.key, t.key, t.raw[1]) /\ t.raw[1] < t.key[1]
    BY ONLY <1>1, <2>1
  <2>b. /\ v.raw[1] < v.key[1] /\ v.key[1] <= v.raw[2] /\ v.buf[v.key[1]] = t.buf[t.key[1]]
        /\ \A S : NoneOf(t.buf, t.key[1], t.raw[2], S) => NoneOf(v.buf, v.key[1], v.raw[2], S)
    BY <2>a, <2>1, OpenSlides
  <2>2. /\ v.raw[1] < v.key[1] /\ v.key[1] <= v.raw[2] /\ v.buf[v.key[1]] = t.buf[t.key[1]]
        /\ NoneOf(v.buf, v.key[1], v.raw[2], KeyEnd)
    BY ONLY <2>b, <2>1
  <2>3. Named(v)
    BY <2>1, NamedSlides
  <2>4. AtKey(v)
    BY ONLY <2>1, <2>2, <2>3 DEF AtKey, InKey
  <2> QED BY ONLY <1>1, <1>5, <2>4 DEF PlaceFits
<1>6. ASSUME Keyed(t), NoValue(t)
      PROVE  Keyed(v) /\ NoValue(v) /\ Latest(v) = Latest(t)
  <2>1. Keyed(v) /\ Latest(v) = Latest(t)
    BY <1>1, <1>6, KeyedSlides
  <2>2. NoValue(v)
    <3>1. x < t.val[1] /\ t.val[1] = t.val[2] /\ t.val[1] <= t.raw[2]
      BY <1>6 DEF NoValue
    <3>2. v.raw[1] < v.val[1] /\ v.val[1] <= v.raw[2]
      BY <1>1, <3>1, OpenSlides
    <3>3. v.val[1] = v.val[2]
      BY <1>1, <3>1 DEF ShiftsTo
    <3> QED BY ONLY <3>2, <3>3 DEF NoValue
  <2> QED BY <2>1, <2>2
<1>7. CASE t.pc = "equals"
  <2>1. Keyed(t) /\ NoValue(t) /\ Latest(t) \in Space \cup {"/"}
    BY <1>1, <1>7 DEF PlaceFits, AtEquals
  <2>2. AtEquals(v)
    BY <1>6, <2>1 DEF AtEquals
  <2> QED BY ONLY <1>1, <1>7, <2>2 DEF PlaceFits
<1>8. CASE t.pc = "value"
  <2>1. Keyed(t) /\ NoValue(t) /\ Latest(t) \in Space \cup {"="}
    BY <1>8 DEF PlaceFits, AtValue
  <2>2. AtValue(v)
    BY <1>6, <2>1 DEF AtValue
  <2> QED BY ONLY <1>1, <1>8, <2>2 DEF PlaceFits
<1>9. CASE t.pc = "quoted"
  <2>1. /\ Keyed(t) /\ x < t.val[1] /\ t.val[1] <= t.raw[2] /\ t.buf[t.val[1]] = t.quote
        /\ NoneOf(t.buf, t.val[1], t.raw[2], {t.quote})
    BY <1>9 DEF PlaceFits, AtQuoted
  <2>2. /\ v.raw[1] < v.val[1] /\ v.val[1] <= v.raw[2] /\ v.buf[v.val[1]] = t.buf[t.val[1]]
        /\ NoneOf(v.buf, v.val[1], v.raw[2], {t.quote})
    BY <1>1, <2>1, OpenSlides
  <2>3. Keyed(v)
    BY <2>1, KeyedSlides
  <2>4. AtQuoted(v)
    BY ONLY <1>1, <2>1, <2>2, <2>3 DEF AtQuoted
  <2> QED BY ONLY <1>1, <1>9, <2>4 DEF PlaceFits
<1>10. CASE t.pc = "unquoted"
  <2>1. /\ Keyed(t) /\ x < t.val[1] /\ t.val[1] < t.raw[2] /\ t.buf[t.val[1]] \in Space \cup {"="}
        /\ NoneOf(t.buf, t.val[1], t.raw[2], Space \cup {">"})
    BY <1>10 DEF PlaceFits, AtUnquoted
  <2>2. t.val[1] \in Int
    BY <1>1 DEF ShiftsTo
  <2>3. t.val[1] <= t.raw[2]
    BY ONLY <1>2, <2>1, <2>2
  <2>a. ShiftsTo(v.val, t.val, t.raw[1]) /\ t.raw[1] < t.val[1]
    BY ONLY <1>1, <2>1
  <2>4. /\ v.raw[1] < v.val[1] /\ v.val[1] < v.raw[2] /\ v.buf[v.val[1]] = t.buf[t.val[1]]
        /\ NoneOf(v.buf, v.val[1], v.raw[2], Space \cup {">"})
    BY <2>1, <2>3, <2>a, OpenSlides
  <2>5. Keyed(v)
    BY <2>1, KeyedSlides
  <2>6. AtUnquoted(v)
    BY ONLY <2>1, <2>4, <2>5 DEF AtUnquoted
  <2> QED BY ONLY <1>1, <1>10, <2>6 DEF PlaceFits
<1> QED BY <1>3, <1>4, <1>5, <1>7, <1>8, <1>9, <1>10 DEF InTag

LEMMA MarkupSlides ==
    ASSUME NEW v, NEW t, Slides(v, t), PlaceFits(t), t.pc \in Declared
    PROVE  PlaceFits(v)
<1> DEFINE x == t.raw[1]
           d == t.data[1]
<1>1. /\ Lasts(v, t) /\ Sizes(v, t) /\ v.pc = t.pc /\ v.n = t.n /\ v.tt = t.tt
      /\ v.rawTag = t.rawTag /\ MovesTo(v.buf, t.buf, x, t.raw[2])
      /\ ShiftsTo(v.data, t.data, x)
  BY SlideIs DEF Slides
<1>2. InMarkup(t)
  BY DEF PlaceFits, Declared, InWord, AtAngle, AtComment, AtBang, AtCdata
<1>3. /\ x \in Int /\ t.raw[2] \in Int /\ d \in Int /\ v.data[1] = d - x
      /\ v.raw[2] = t.raw[2] - x /\ v.raw[1] = 0 /\ t.n \in 0..2
      /\ x < d /\ d <= t.raw[2] /\ t.rawTag = "none"
  <2>1. x \in Int /\ t.raw[2] \in Int /\ v.raw[2] = t.raw[2] - x /\ v.raw[1] = 0
    BY ONLY <1>1 DEF Sizes
  <2>2. d \in Int /\ v.data[1] = d - x
    BY ONLY <1>1 DEF ShiftsTo
  <2>3. t.n \in 0..2
    BY Ranges DEF Slides
  <2> QED BY ONLY <1>2, <2>1, <2>2, <2>3 DEF InMarkup
<1>4. InMarkup(v)
  BY ONLY <1>1, <1>3 DEF InMarkup
<1>5. /\ (d < t.raw[2]) = (v.data[1] < v.raw[2]) /\ (d < t.raw[2] - 1) = (v.data[1] < v.raw[2] - 1)
      /\ (d < t.raw[2] - 2) = (v.data[1] < v.raw[2] - 2)
      /\ (d < t.raw[2] => x < t.raw[2])
      /\ (d < t.raw[2] - 1 => x < t.raw[2] - 1)
      /\ (d < t.raw[2] - 2 => x < t.raw[2] - 2)
  BY ONLY <1>3
<1>6. /\ (d < t.raw[2] => Latest(v) = Latest(t))
      /\ (d < t.raw[2] - 1 => v.buf[v.raw[2] - 1] = t.buf[t.raw[2] - 1])
      /\ (d < t.raw[2] - 2 => v.buf[v.raw[2] - 2] = t.buf[t.raw[2] - 2])
  BY ONLY <1>1, <1>5 DEF Lasts, Latest
<1>7. NoArrow(t.buf, d, t.raw[2]) => NoArrow(v.buf, v.data[1], v.raw[2])
  <2>1. x <= d /\ MovesTo(v.buf, t.buf, x, t.raw[2])
    BY <1>1, <1>3
  <2>2. NoArrow(t.buf, d, t.raw[2]) => NoArrow(v.buf, d - x, t.raw[2] - x)
    BY <1>3, <2>1, ArrowMoves
  <2> QED BY ONLY <1>3, <2>2
<1>8. NoBrackets(t.buf, d, t.raw[2]) => NoBrackets(v.buf, v.data[1], v.raw[2])
  <2>1. x <= d /\ MovesTo(v.buf, t.buf, x, t.raw[2])
    BY <1>1, <1>3
  <2>2. NoBrackets(t.buf, d, t.raw[2]) => NoBrackets(v.buf, d - x, t.raw[2] - x)
    BY <1>3, <2>1, BracketsMove
  <2> QED BY ONLY <1>3, <2>2
<1>9. CASE t.pc \in {"declaration", "doctype", "cdataWord"}
  <2>1. InWord(v)
    BY <1>1, <1>3, <1>4, <1>9 DEF PlaceFits, InWord
  <2> QED BY ONLY <1>1, <1>9, <2>1 DEF PlaceFits
<1>10. CASE t.pc \in {"doctypeWhite", "angle"}
  <2>1. t.n = 0 /\ (t.pc = "angle" => t.tt \in {"comment", "doctype"})
    BY <1>10 DEF PlaceFits, AtAngle
  <2> QED BY ONLY <1>1, <1>4, <1>10, <2>1 DEF PlaceFits, AtAngle
<1>11. CASE t.pc = "comment"
  <2>1. AtComment(t)
    BY <1>11 DEF PlaceFits
  <2>2. NoArrow(v.buf, v.data[1], v.raw[2])
    BY ONLY <1>7, <2>1 DEF AtComment
  <2>3. Latest(v) = "-" /\ v.data[1] < v.raw[2] =>
            v.n > 0 \/ (v.data[1] < v.raw[2] - 1 /\ v.buf[v.raw[2] - 1] = "!")
    BY ONLY <1>1, <1>5, <1>6, <2>1 DEF AtComment
  <2>4. v.data[1] < v.raw[2] - 1 /\ Latest(v) = "-" /\ v.buf[v.raw[2] - 1] = "-" =>
            v.n = 2 \/ (v.data[1] < v.raw[2] - 2 /\ v.buf[v.raw[2] - 2] = "!")
    <3> SUFFICES ASSUME v.data[1] < v.raw[2] - 1, Latest(v) = "-", v.buf[v.raw[2] - 1] = "-"
                 PROVE  v.n = 2 \/ (v.data[1] < v.raw[2] - 2 /\ v.buf[v.raw[2] - 2] = "!")
      OBVIOUS
    <3>1. d < t.raw[2] - 1 /\ d < t.raw[2]
      BY <1>3, <1>5
    <3>2. Latest(t) = "-" /\ t.buf[t.raw[2] - 1] = "-"
      BY <1>6, <3>1
    <3> QED BY <1>1, <1>5, <1>6, <2>1, <3>1, <3>2 DEF AtComment
  <2>5. AtComment(v)
    BY ONLY <1>4, <2>2, <2>3, <2>4 DEF AtComment
  <2> QED BY ONLY <1>1, <1>11, <2>5 DEF PlaceFits
<1>12. CASE t.pc = "bang"
  <2>1. AtBang(v)
    BY <1>4, <1>5, <1>6, <1>7, <1>12 DEF PlaceFits, AtBang
  <2> QED BY ONLY <1>1, <1>12, <2>1 DEF PlaceFits
<1>13. CASE t.pc = "cdata"
  <2>1. AtCdata(t)
    BY <1>13 DEF PlaceFits
  <2>2. NoBrackets(v.buf, v.data[1], v.raw[2]) /\ v.data[1] + v.n <= v.raw[2]
    BY ONLY <1>1, <1>3, <1>8, <2>1 DEF AtCdata
  <2>3. Latest(v) = "]" /\ v.data[1] < v.raw[2] => v.n > 0
    BY ONLY <1>1, <1>5, <1>6, <2>1 DEF AtCdata
  <2>4. v.data[1] < v.raw[2] - 1 /\ Latest(v) = "]" /\ v.buf[v.raw[2] - 1] = "]" => v.n = 2
    <3> SUFFICES ASSUME v.data[1] < v.raw[2] - 1, Latest(v) = "]", v.buf[v.raw[2] - 1] = "]"
                 PROVE  v.n = 2
      OBVIOUS
    <3>1. d < t.raw[2] - 1 /\ d < t.raw[2]
      BY <1>3, <1>5
    <3>2. Latest(t) = "]" /\ t.buf[t.raw[2] - 1] = "]"
      BY <1>6, <3>1
    <3> QED BY <1>1, <2>1, <3>1, <3>2 DEF AtCdata
  <2>5. AtCdata(v)
    BY ONLY <1>4, <2>2, <2>3, <2>4 DEF AtCdata
  <2> QED BY ONLY <1>1, <1>13, <2>5 DEF PlaceFits
<1> QED BY <1>9, <1>10, <1>11, <1>12, <1>13 DEF Declared

LEMMA RawSlides ==
    ASSUME NEW v, NEW t, Slides(v, t), PlaceFits(t),
           t.pc \in {"raw", "rawLess", "plaintext"} \cup Closing \cup ScriptStates
    PROVE  PlaceFits(v)
<1> DEFINE x == t.raw[1]
           h == t.raw[2]
           e == v.raw[2]
<1>1. /\ Lasts(v, t) /\ Sizes(v, t) /\ v.pc = t.pc /\ v.else = t.else /\ v.rawTag = t.rawTag
      /\ v.n = t.n /\ MovesTo(v.buf, t.buf, x, h) /\ \A S : ~Peeks(t, S)
  BY SlideIs DEF Slides
<1>2. \A tag : InRaw(t, tag) => InRaw(v, tag)
  BY <1>1, StartSlides DEF InRaw
<1>3. SoFar(t) => SoFar(v)
  <2>1. SoFar(t) => NoEndTag(v.buf, 0, h - x, t.rawTag, t.rawTag = "t")
    BY <1>1, EndTagMoves DEF SoFar
  <2> QED BY ONLY <1>1, <2>1 DEF SoFar, Sizes
<1>4. IsEscaped(t) => IsEscaped(v)
  <2>1. IsEscaped(t) => Escaped(v.buf, 0, h - x)
    BY <1>1, EscapeMoves DEF IsEscaped
  <2> QED BY ONLY <1>1, <2>1 DEF IsEscaped, Sizes
<1>5. /\ x \in Int /\ h \in Int /\ e = h - x /\ v.raw[1] = 0
      /\ (x < h <=> v.raw[1] < e) /\ (x < h - 1 <=> v.raw[1] < e - 1)
      /\ (x < h - 2 <=> v.raw[1] < e - 2) /\ (h > x + 1 <=> e > v.raw[1] + 1)
      /\ (h - 1 > x + 1 <=> e - 1 > v.raw[1] + 1) /\ (h - 2 > x + 1 <=> e - 2 > v.raw[1] + 1)
      /\ (h > x + 1 <=> x < h - 1) /\ (h - 1 > x + 1 <=> x < h - 1 - 1)
      /\ (h - 2 > x + 1 <=> x < h - 2 - 1) /\ (x < h - 1 => x < h) /\ (x < h - 2 => x < h - 1)
  <2>1. x \in Int /\ h \in Int /\ e = h - x /\ v.raw[1] = 0
    BY ONLY <1>1 DEF Sizes
  <2> QED BY ONLY <2>1
<1>6. /\ (x < h => v.buf[e] = t.buf[h]) /\ (x < h - 1 => v.buf[e - 1] = t.buf[h - 1])
      /\ (x < h - 2 => v.buf[e - 2] = t.buf[h - 2])
      /\ (x < h - 1 - 1 => v.buf[e - 1 - 1] = t.buf[h - 1 - 1])
      /\ (x < h - 2 - 1 => v.buf[e - 2 - 1] = t.buf[h - 2 - 1])
  BY ONLY <1>1 DEF Lasts
<1>7. HasLess(t) => HasLess(v)
  BY ONLY <1>5, <1>6 DEF HasLess, Latest
<1>8. \A c : HasTwo(t, c) => HasTwo(v, c)
  BY ONLY <1>5, <1>6 DEF HasTwo, Latest
<1>9. \A c, d : HasThree(t, c, d) => HasThree(v, c, d)
  BY ONLY <1>5, <1>6 DEF HasThree, Latest
<1>10. \A b \in BOOLEAN : NoneBegun(t, b) => NoneBegun(v, b)
  <2> SUFFICES ASSUME NEW b \in BOOLEAN, NoneBegun(t, b) PROVE NoneBegun(v, b)
    OBVIOUS
  <2>1. /\ x < h /\ t.buf[h] = "<" => b /\ h > x + 1 /\ t.buf[h - 1] = "<"
        /\ x < h - 1 /\ t.buf[h - 1] = "<" /\ t.buf[h] = "/" =>
               b /\ h - 1 > x + 1 /\ t.buf[h - 1 - 1] = "<"
        /\ x < h - 2 /\ t.buf[h - 2] = "<" /\ t.buf[h - 1] = "/" /\ t.buf[h] = t.rawTag =>
               b /\ h - 2 > x + 1 /\ t.buf[h - 2 - 1] = "<"
    <3>1. ~(h < Len(t.buf))
      BY ONLY <1>1 DEF Sizes
    <3> QED BY ONLY <3>1, NoneBegun(t, b) DEF NoneBegun
  <2>2. v.raw[1] < e /\ v.buf[e] = "<" => b /\ e > v.raw[1] + 1 /\ v.buf[e - 1] = "<"
    BY ONLY <1>5, <1>6, <2>1
  <2>3. v.raw[1] < e - 1 /\ v.buf[e - 1] = "<" /\ v.buf[e] = "/" =>
            b /\ e - 1 > v.raw[1] + 1 /\ v.buf[e - 1 - 1] = "<"
    BY ONLY <1>5, <1>6, <2>1
  <2>4. v.raw[1] < e - 2 /\ v.buf[e - 2] = "<" /\ v.buf[e - 1] = "/" /\ v.buf[e] = v.rawTag =>
            b /\ e - 2 > v.raw[1] + 1 /\ v.buf[e - 2 - 1] = "<"
    BY ONLY <1>1, <1>5, <1>6, <2>1
  <2> QED BY ONLY <2>2, <2>3, <2>4 DEF NoneBegun
<1>11. IsClosing(t) => IsClosing(v)
  BY ONLY <1>1, <1>2, <1>3, <1>4 DEF IsClosing
<1>12. CASE t.pc \in {"raw", "rawLess", "plaintext"}
  <2>1. NoneBegun(t, TRUE) => NoneBegun(v, TRUE)
    BY <1>10
  <2> QED BY <1>1, <1>2, <1>3, <1>7, <1>12, <2>1 DEF PlaceFits, AtRaw, AtRawLess
<1>13. CASE t.pc \in Closing
  BY <1>1, <1>8, <1>9, <1>11, <1>13 DEF PlaceFits, AtRawName, AtRawAfterName, Closing
<1>14. CASE t.pc \in {"scriptData", "less"}
  <2>1. NoneBegun(t, FALSE) => NoneBegun(v, FALSE)
    BY <1>10
  <2> QED BY <1>1, <1>2, <1>3, <1>4, <1>7, <1>14, <2>1 DEF PlaceFits, AtScriptData, AtLess
<1>15. CASE t.pc \in {"escapeStart", "escapeStartDash"}
  BY <1>1, <1>2, <1>3, <1>4, <1>8, <1>9, <1>15 DEF PlaceFits, AtEscapeStart, AtEscapeStartDash
<1>16. CASE t.pc \in EscStates \cup {"escapedLess", "doubleLess"}
  BY <1>1, <1>2, <1>4, <1>7, <1>16 DEF PlaceFits, AtEscapedLess, InEscaped, EscStates
<1> QED BY <1>12, <1>13, <1>14, <1>15, <1>16 DEF ScriptStates, EscStates

LEMMA SlidesFit ==
    ASSUME NEW v, NEW t, Slides(v, t), PlaceFits(t), t.pc # "returned"
    PROVE  TokenFits(v)
<1>1. t.pc \in Places
  BY Ranges DEF Slides
<1>2. PlaceFits(v)
  BY <1>1, PlainSlides, TagSlides, MarkupSlides, RawSlides DEF Places
<1> QED BY <1>2 DEF TokenFits, Slides, Sound

\* What Read delivered is appended.
LEMMA ShiftIs ==
    ASSUME NEW s \in Int \X Int, NEW x \in Int
    PROVE  Shift(s, x) \in Int \X Int /\ ShiftsTo(Shift(s, x), s, x)
BY DEF Shift, ShiftsTo

LEMMA AttrsShift ==
    ASSUME NEW attrs \in Seq((Int \X Int) \X (Int \X Int)), NEW x \in Int
    PROVE  /\ ShiftAttrs(attrs, x) \in Seq((Int \X Int) \X (Int \X Int))
           /\ DOMAIN ShiftAttrs(attrs, x) = DOMAIN attrs
           /\ \A i \in DOMAIN attrs :
                  /\ ShiftsTo(ShiftAttrs(attrs, x)[i][1], attrs[i][1], x)
                  /\ ShiftsTo(ShiftAttrs(attrs, x)[i][2], attrs[i][2], x)
           /\ attrs = <<>> => ShiftAttrs(attrs, x) = <<>>
<1> DEFINE new == ShiftAttrs(attrs, x)
<1>1. \A i \in DOMAIN attrs : attrs[i][1] \in Int \X Int /\ attrs[i][2] \in Int \X Int
  OBVIOUS
<1>2. DOMAIN new = DOMAIN attrs /\ DOMAIN attrs = 1..Len(attrs) /\ Len(attrs) \in Nat
  BY DEF ShiftAttrs
<1>3. \A i \in DOMAIN attrs : new[i] = <<Shift(attrs[i][1], x), Shift(attrs[i][2], x)>>
  BY DEF ShiftAttrs
<1>a. ASSUME NEW i \in DOMAIN attrs
      PROVE  /\ new[i] \in (Int \X Int) \X (Int \X Int)
             /\ ShiftsTo(new[i][1], attrs[i][1], x) /\ ShiftsTo(new[i][2], attrs[i][2], x)
  <2> DEFINE p == attrs[i][1]
             q == attrs[i][2]
  <2>1. p \in Int \X Int /\ q \in Int \X Int
    BY <1>1
  <2>2. new[i] = <<Shift(p, x), Shift(q, x)>>
    BY <1>3
  <2> HIDE DEF p, q, new
  <2>3. Shift(p, x) \in Int \X Int /\ ShiftsTo(Shift(p, x), p, x)
    BY <2>1, ShiftIs
  <2>4. Shift(q, x) \in Int \X Int /\ ShiftsTo(Shift(q, x), q, x)
    BY <2>1, ShiftIs
  <2>5. new[i][1] = Shift(p, x) /\ new[i][2] = Shift(q, x)
    BY <2>2
  <2>6. /\ new[i] \in (Int \X Int) \X (Int \X Int) /\ ShiftsTo(new[i][1], p, x)
        /\ ShiftsTo(new[i][2], q, x)
    BY ONLY <2>2, <2>3, <2>4, <2>5
  <2> QED BY ONLY <2>6 DEF p, q
<1>4. \A i \in DOMAIN attrs : new[i] \in (Int \X Int) \X (Int \X Int)
  BY ONLY <1>a
<1>5. new = [i \in 1..Len(attrs) |-> new[i]]
  BY <1>2 DEF ShiftAttrs
<1>6. new \in Seq((Int \X Int) \X (Int \X Int))
  BY <1>2, <1>4, <1>5
<1>7. \A i \in DOMAIN attrs :
          ShiftsTo(new[i][1], attrs[i][1], x) /\ ShiftsTo(new[i][2], attrs[i][2], x)
  BY ONLY <1>a
<1>8. attrs = <<>> => new = <<>>
  <2> SUFFICES ASSUME attrs = <<>> PROVE new = <<>>
    OBVIOUS
  <2>1. Len(new) = 0
    BY <1>2, <1>6
  <2> QED BY <1>6, <2>1
<1> QED BY <1>2, <1>6, <1>7, <1>8

LEMMA BufferMoves ==
    ASSUME NEW old \in Seq(STRING), NEW x \in Int, NEW h, h = Len(old), 0 <= x, x <= h,
           NEW bytes \in Seq(STRING), NEW new, new = SubSeq(old, x + 1, h) \o bytes
    PROVE  new \in Seq(STRING) /\ MovesTo(new, old, x, h)
<1> DEFINE cut == SubSeq(old, x + 1, h)
<1>1. h \in Nat /\ x \in Nat /\ Len(bytes) \in Nat
  OBVIOUS
<1>2. x + 1 \in 1..Len(old) + 1 /\ h \in x..Len(old)
  BY <1>1
<1>3. /\ cut \in Seq(STRING) /\ Len(cut) = h - x /\ \A i \in 1..h - x : cut[i] = old[i + x]
  BY <1>1, <1>2, SubSeqProperties
<1> HIDE DEF cut
<1>4. /\ new \in Seq(STRING) /\ Len(new) = h - x + Len(bytes)
      /\ \A i \in 1..h - x : new[i] = cut[i]
  <2>1. new = cut \o bytes
    BY DEF cut
  <2>2. cut \in Seq(STRING) /\ bytes \in Seq(STRING)
    BY <1>3
  <2>3. /\ cut \o bytes \in Seq(STRING) /\ Len(cut \o bytes) = Len(cut) + Len(bytes)
        /\ \A i \in 1..Len(cut) + Len(bytes) :
               (cut \o bytes)[i] = IF i <= Len(cut) THEN cut[i] ELSE bytes[i - Len(cut)]
    BY ONLY <2>2, ConcatProperties
  <2>4. \A i \in 1..h - x : i \in 1..Len(cut) + Len(bytes) /\ i <= Len(cut)
    BY <1>1, <1>3
  <2> QED BY ONLY <1>3, <2>1, <2>3, <2>4
<1> QED BY <1>1, <1>3, <1>4 DEF MovesTo

LEMMA AppendSlides ==
    ASSUME NEW t, TokenFits(t), t.raw[2] = Len(t.buf), NEW bytes \in Seq(STRING),
           NEW eof \in BOOLEAN, NEW v, v = [Moved(t) EXCEPT !.buf = @ \o bytes, !.eof = eof]
    PROVE  Slides(v, t)
<1> DEFINE x == t.raw[1]
           buf == SubSeq(t.buf, x + 1, t.raw[2]) \o bytes
           raw == Shift(t.raw, x)
           data == Shift(t.data, x)
           key == Shift(t.key, x)
           val == Shift(t.val, x)
           attr == ShiftAttrs(t.attr, x)
<1>1. TypeFits(t) /\ RawFits(t) /\ Numbers(t) /\ x \in Int /\ t.raw[2] \in Int
  BY HasNumbers DEF TokenFits, Numbers
<1>2. v = [t EXCEPT !.buf = buf, !.raw = raw, !.data = data, !.key = key, !.val = val,
                    !.attr = attr, !.eof = eof]
  BY <1>1 DEF Moved, TypeFits
<1>3. buf \in Seq(STRING) /\ MovesTo(buf, t.buf, x, t.raw[2])
  <2>1. t.buf \in Seq(STRING) /\ 0 <= x /\ x <= t.raw[2]
    BY <1>1 DEF TypeFits, RawFits
  <2> QED BY <1>1, <2>1, BufferMoves
<1>4. /\ t.raw \in Int \X Int /\ t.data \in Int \X Int /\ t.key \in Int \X Int
      /\ t.val \in Int \X Int /\ t.attr \in Seq((Int \X Int) \X (Int \X Int))
  BY <1>1 DEF TypeFits
<1>5. raw \in Int \X Int /\ ShiftsTo(raw, t.raw, x)
  BY <1>1, <1>4, ShiftIs
<1>6. data \in Int \X Int /\ ShiftsTo(data, t.data, x)
  BY <1>1, <1>4, ShiftIs
<1>7. key \in Int \X Int /\ ShiftsTo(key, t.key, x)
  BY <1>1, <1>4, ShiftIs
<1>8. val \in Int \X Int /\ ShiftsTo(val, t.val, x)
  BY <1>1, <1>4, ShiftIs
<1>9. /\ attr \in Seq((Int \X Int) \X (Int \X Int)) /\ DOMAIN attr = DOMAIN t.attr
      /\ \A i \in DOMAIN t.attr :
             ShiftsTo(attr[i][1], t.attr[i][1], x) /\ ShiftsTo(attr[i][2], t.attr[i][2], x)
      /\ t.attr = <<>> => attr = <<>>
  BY <1>1, <1>4, AttrsShift
<1> HIDE DEF x, buf, raw, data, key, val, attr
<1>10. /\ TypeFits(v) /\ v.buf = buf /\ v.raw = raw /\ v.data = data /\ v.key = key
       /\ v.val = val /\ v.attr = attr
       /\ v.pc = t.pc /\ v.tt = t.tt /\ v.n = t.n /\ v.start = t.start /\ v.quote = t.quote
       /\ v.else = t.else /\ v.rawTag = t.rawTag /\ v.markup = t.markup /\ v.err = t.err
  <2>1. TypeFits(v)
    BY ONLY <1>1, <1>2, <1>3, <1>5, <1>6, <1>7, <1>8, <1>9, eof \in BOOLEAN DEF TypeFits
  <2>2. /\ v.buf = buf /\ v.raw = raw /\ v.data = data /\ v.key = key
        /\ v.val = val /\ v.attr = attr
    BY ONLY <1>1, <1>2 DEF TypeFits
  <2>3. /\ v.pc = t.pc /\ v.tt = t.tt /\ v.n = t.n /\ v.start = t.start /\ v.quote = t.quote
        /\ v.else = t.else /\ v.rawTag = t.rawTag /\ v.markup = t.markup /\ v.err = t.err
    BY ONLY <1>1, <1>2 DEF TypeFits
  <2> QED BY ONLY <2>1, <2>2, <2>3
<1>11. v.raw[1] = 0 /\ v.raw[2] = t.raw[2] - t.raw[1]
  BY <1>1, <1>5, <1>10 DEF ShiftsTo, x
<1>12. RawFits(v)
  BY <1>1, <1>3, <1>10, <1>11 DEF RawFits, MovesTo, x
<1>13. Sound(v) /\ Sound(t)
  BY <1>1, <1>10, <1>12, HasNumbers DEF Sound
<1> QED BY ONLY <1>3, <1>6, <1>7, <1>8, <1>9, <1>10, <1>11, <1>13 DEF Slides, x

LEMMA ReadsFits ==
    ASSUME TokenInv, PageFits, ReadsInput
    PROVE  TokenInv' /\ PageFits'
<1>1. \E eof \in BOOLEAN, bytes \in Seq(STRING) : Delivers(bytes, eof)
  <2>1. page.chars \subseteq STRING
    BY DEF PageFits
  <2>2. CASE \E b \in page.chars, eof \in BOOLEAN : page.chunk = 1 /\ Delivers(<<b>>, eof)
    <3>1. PICK b \in page.chars, eof \in BOOLEAN : Delivers(<<b>>, eof)
      BY <2>2
    <3>2. <<b>> \in Seq(STRING)
      BY <2>1
    <3> QED BY <3>1, <3>2
  <2>3. CASE \E b, c \in page.chars : page.chunk = 2 /\ Delivers(<<b, c>>, FALSE)
    <3>1. PICK b \in page.chars, c \in page.chars : Delivers(<<b, c>>, FALSE)
      BY <2>3
    <3>2. <<b, c>> \in Seq(STRING)
      BY <2>1
    <3> QED BY <3>1, <3>2
  <2>4. CASE Delivers(<<>>, TRUE)
    <3>1. <<>> \in Seq(STRING)
      OBVIOUS
    <3> QED BY <2>4, <3>1
  <2> QED BY <2>2, <2>3, <2>4 DEF ReadsInput
<1>2. PICK eof \in BOOLEAN, bytes \in Seq(STRING) : Delivers(bytes, eof)
  BY <1>1
<1>3. Len(bytes) \in Nat
  OBVIOUS
<1>4. TypeFits(z) /\ RawFits(z) /\ PlaceFits(z) /\ Numbers(z)
  BY HasNumbers DEF TokenInv, TokenFits
<1>5. z.raw[2] = Len(z.buf)
  BY <1>2, <1>4 DEF Delivers, Buffered, RawFits, Numbers
<1>6. Slides(z', z)
  BY <1>2, <1>5, AppendSlides DEF Delivers, TokenInv
<1>7. TokenFits(z')
  BY <1>4, <1>6, SlidesFit DEF ReadsInput
<1>8. PageFits'
  <2>1. /\ page \in [start : Seq(STRING), chars : SUBSET STRING, left : Nat, chunk : Nat,
                     rawTag : RawNames \cup {"none"}, cdata : BOOLEAN]
        /\ page' = [page EXCEPT !.left = page.left - Len(bytes)] /\ page.left >= Len(bytes)
    BY <1>2 DEF PageFits, Delivers
  <2>2. page.left - Len(bytes) \in Nat
    BY <1>3, <2>1
  <2> QED BY ONLY <2>1, <2>2 DEF PageFits
<1> QED BY <1>7, <1>8 DEF TokenInv

\* Every step.
LEMMA TokenizerKeeps ==
    ASSUME TokenInv, PageFits, [TokenizerNext]_tokenizerVars
    PROVE  TokenInv' /\ PageFits'
<1>1. CASE Next
  <2> DEFINE e == z.raw[2]
             w == Fresh(z, e)
  <2>1. z' = IF z.err THEN Returns(w, "error") ELSE Goto(w, FirstPlace(z.rawTag))
    BY <1>1 DEF Next, Fresh, FirstPlace
  <2>0. TokenFits(z) /\ e = z.raw[2] /\ w = Fresh(z, e)
    BY DEF TokenInv
  <2> HIDE DEF e, w
  <2>2. TokenFits(z')
    BY ONLY <2>0, <2>1, NextFits
  <2> QED BY <1>1, <2>2 DEF Next, TokenInv, PageFits
<1>2. CASE ReadsInput
  BY <1>2, ReadsFits
<1>3. CASE ReadByte
  <2>1. CASE Buffered /\ z' = Takes([z EXCEPT !.raw[2] = @ + 1], z.buf[z.raw[2] + 1])
    <3>1. PICK u : u = [z EXCEPT !.raw[2] = @ + 1] /\ z' = Takes(u, Byte(z))
      BY <2>1 DEF Byte
    <3>2. Took(z, u)
      BY <2>1, <3>1 DEF Took, TokenInv, Buffered
    <3>3. TokenFits(z')
      BY <1>3, <3>1, <3>2, TakesFits DEF ReadByte
    <3> QED BY <1>3, <3>3 DEF ReadByte, TokenInv, PageFits
  <2>2. CASE AtEnd /\ z' = Ends([z EXCEPT !.err = TRUE])
    <3>1. TokenFits(z')
      BY <1>3, <2>2, EndsFits DEF ReadByte, TokenInv
    <3> QED BY <1>3, <3>1 DEF ReadByte, TokenInv, PageFits
  <2> QED BY <1>3, <2>1, <2>2 DEF ReadByte
<1>4. CASE UNCHANGED tokenizerVars
  BY <1>4 DEF tokenizerVars, TokenInv, PageFits
<1> QED BY <1>1, <1>2, <1>3, <1>4 DEF TokenizerNext

-----------------------------------------------------------------------------
(* The tokens are right because the invariant holds. *)

\* The bytes of a word that is found in a part of the buffer.
LEMMA PartIs ==
    ASSUME NEW buf \in Seq(STRING), NEW a \in Int, NEW b \in Int, 0 <= a, a <= b, b <= Len(buf),
           NEW s, s = SubSeq(buf, a + 1, b)
    PROVE  s \in Seq(STRING) /\ Len(s) = b - a /\ \A i \in 1..b - a : s[i] = buf[a + i]
<1>1. a + 1 \in 1..Len(buf) + 1 /\ b \in a + 1 - 1..Len(buf)
  OBVIOUS
<1>2. /\ s \in Seq(STRING) /\ Len(s) = b - (a + 1) + 1
      /\ \A i \in 1..b - (a + 1) + 1 : s[i] = buf[a + 1 + i - 1]
  BY <1>1, SubSeqProperties
<1>3. b - (a + 1) + 1 = b - a /\ \A i \in 1..b - a : a + 1 + i - 1 = a + i
  OBVIOUS
<1> QED BY <1>2, <1>3

LEMMA WordIs ==
    ASSUME NEW buf \in Seq(STRING), NEW lo \in Int, NEW b \in Int,
           1 <= lo, lo <= b + 1, b <= Len(buf),
           NEW i \in Int, NEW e \in Int, 1 <= i, i <= e, e <= b - lo + 1
    PROVE  \A j \in 1..e - i + 1 : SubSeq(SubSeq(buf, lo, b), i, e)[j] = buf[lo + i + j - 2]
<1>1. lo \in 1..Len(buf) + 1 /\ b \in lo - 1..Len(buf)
  OBVIOUS
<1> DEFINE s == SubSeq(buf, lo, b)
<1>2. /\ s \in Seq(STRING) /\ Len(s) = b - lo + 1
      /\ \A k \in 1..b - lo + 1 : s[k] = buf[lo + k - 1]
  BY <1>1, SubSeqProperties
<1> HIDE DEF s
<1>3. i \in 1..Len(s) + 1 /\ e \in i - 1..Len(s)
  BY <1>2
<1> DEFINE sub == SubSeq(s, i, e)
<1>4. \A j \in 1..e - i + 1 : sub[j] = s[i + j - 1]
  BY <1>2, <1>3, SubSeqProperties
<1> HIDE DEF sub
<1>5. \A j \in 1..e - i + 1 : i + j - 1 \in 1..b - lo + 1 /\ lo + (i + j - 1) - 1 = lo + i + j - 2
  OBVIOUS
<1>6. \A j \in 1..e - i + 1 : sub[j] = buf[lo + i + j - 2]
  BY ONLY <1>2, <1>4, <1>5
<1> QED BY <1>6 DEF sub, s

LEMMA IsWord ==
    ASSUME NEW buf \in Seq(STRING), NEW a \in Int, NEW b \in Int, 0 <= a, a <= b, b <= Len(buf),
           Escaped(buf, a, b)
    PROVE  HasWord(SubSeq(buf, a + 1, b), <<"<", "!", "-", "-">>)
<1> DEFINE s == SubSeq(buf, a + 1, b)
           w == <<"<", "!", "-", "-">>
<1>1. PICK k \in a + 1..b - 3 :
          buf[k] = "<" /\ buf[k + 1] = "!" /\ buf[k + 2] = "-" /\ buf[k + 3] = "-"
  BY DEF Escaped
<1>2. s \in Seq(STRING) /\ Len(s) = b - a /\ \A i \in 1..b - a : s[i] = buf[a + i]
  BY PartIs
<1> DEFINE i == k - a
<1>3. /\ i \in 1..Len(s) - 4 + 1 /\ i \in 1..Len(s) + 1 /\ i + 4 - 1 \in i - 1..Len(s)
      /\ i + 4 - 1 - i + 1 = 4 /\ a + i = k /\ a + (i + 1) = k + 1 /\ a + (i + 2) = k + 2
      /\ a + (i + 3) = k + 3 /\ i \in 1..b - a /\ i + 1 \in 1..b - a /\ i + 2 \in 1..b - a
      /\ i + 3 \in 1..b - a /\ k + 1 \in 1..Len(buf) /\ k + 2 \in 1..Len(buf)
      /\ k \in 1..Len(buf) /\ i + 1 - 1 = i /\ i + 2 - 1 = i + 1 /\ i + 3 - 1 = i + 2
      /\ i + 4 - 1 = i + 3
  BY <1>2
<1>4. "<" \in STRING /\ "!" \in STRING /\ "-" \in STRING
  BY <1>1, <1>3
<1>5. w \in Seq(STRING) /\ Len(w) = 4
  BY <1>4
<1> HIDE DEF s, i
<1> DEFINE sub == SubSeq(s, i, i + 4 - 1)
<1>6. /\ sub \in Seq(STRING) /\ Len(sub) = i + 4 - 1 - i + 1
      /\ \A j \in 1..i + 4 - 1 - i + 1 : sub[j] = s[i + j - 1]
  BY <1>2, <1>3, SubSeqProperties
<1>7. Len(sub) = 4 /\ \A j \in 1..4 : sub[j] = s[i + j - 1]
  BY <1>3, <1>6
<1> HIDE DEF sub
<1>8. s[i] = "<" /\ s[i + 1] = "!" /\ s[i + 2] = "-" /\ s[i + 3] = "-"
  BY ONLY <1>1, <1>2, <1>3
<1>9. sub[1] = "<" /\ sub[2] = "!" /\ sub[3] = "-" /\ sub[4] = "-"
  BY ONLY <1>3, <1>7, <1>8
<1>10. \A j \in 1..4 : sub[j] = w[j]
  BY ONLY <1>9
<1>11. sub = w
  BY <1>5, <1>6, <1>7, <1>10, SeqEqual
<1>12. Len(s) - Len(w) + 1 = Len(s) - 4 + 1 /\ i + Len(w) - 1 = i + 4 - 1
  BY <1>5
<1>13. SubSeq(s, i, i + Len(w) - 1) = w
  BY <1>11, <1>12 DEF sub
<1>14. HasWord(s, w)
  BY ONLY <1>3, <1>12, <1>13 DEF HasWord
<1> QED BY <1>14 DEF s

LEMMA FreeOf ==
    ASSUME NEW buf \in Seq(STRING), NEW a \in Int, NEW b \in Int, 0 <= a, a <= b, b <= Len(buf),
           NEW S, NoneOf(buf, a, b, S), NEW c \in S
    PROVE  ~HasWord(SubSeq(buf, a + 1, b), <<c>>)
<1> DEFINE s == SubSeq(buf, a + 1, b)
           w == <<c>>
<1> SUFFICES ASSUME HasWord(s, w) PROVE FALSE
  OBVIOUS
<1>1. Len(w) = 1 /\ w[1] = c
  OBVIOUS
<1>2. PICK i \in 1..Len(s) - 1 + 1 : SubSeq(s, i, i + 1 - 1) = w
  BY <1>1 DEF HasWord
<1> HIDE DEF w
<1>i. i \in Int /\ i + 1 - 1 \in Int /\ 1 <= i /\ i + 1 - 1 <= Len(s) /\ 1 \in Nat
  BY PartIs
<1>l. PICK lo \in Int : lo = a + 1
  OBVIOUS
<1>e. PICK e \in Int : e = i + 1 - 1
  BY <1>i
<1>s. Len(s) = b - a
  BY PartIs
<1>b. 1 <= lo /\ lo <= b + 1 /\ i <= e /\ e <= b - lo + 1 /\ e - i + 1 = 1
  BY <1>i, <1>e, <1>s, <1>l
<1>w. \A j \in 1..e - i + 1 : SubSeq(SubSeq(buf, lo, b), i, e)[j] = buf[lo + i + j - 2]
  BY <1>b, <1>i, WordIs
<1>x. SubSeq(SubSeq(buf, lo, b), i, e) = w
  BY ONLY <1>l, <1>e, <1>2, s = SubSeq(buf, a + 1, b)
<1>y. \A j \in 1..1 : lo + i + j - 2 = a + i + j - 1
  BY <1>l, <1>i
<1>z. a + i \in a + 1..b - 1 + 1
  BY <1>i, <1>s
<1>3. a + i \in a + 1..b - 1 + 1 /\ \A j \in 1..1 : buf[a + i + j - 1] = w[j]
  BY ONLY <1>w, <1>b, <1>x, <1>y, <1>z
<1>4. a + i \in a + 1..b /\ a + i + 1 - 1 = a + i /\ 1 \in 1..1
  BY <1>3
<1>5. buf[a + i] = c
  BY ONLY <1>1, <1>3, <1>4
<1> QED BY <1>4, <1>5 DEF NoneOf

LEMMA NoTagIn ==
    ASSUME NEW buf \in Seq(STRING), NEW a \in Int, NEW b \in Int, 0 <= a, a <= b, b <= Len(buf),
           NoTags(buf, a, b), NEW c \in Begins
    PROVE  ~HasWord(SubSeq(buf, a + 1, b), <<"<", c>>)
<1> DEFINE s == SubSeq(buf, a + 1, b)
           w == <<"<", c>>
<1> SUFFICES ASSUME HasWord(s, w) PROVE FALSE
  OBVIOUS
<1>1. Len(w) = 2 /\ w[1] = "<" /\ w[2] = c
  OBVIOUS
<1>2. PICK i \in 1..Len(s) - 2 + 1 : SubSeq(s, i, i + 2 - 1) = w
  BY <1>1 DEF HasWord
<1> HIDE DEF w
<1>i. i \in Int /\ i + 2 - 1 \in Int /\ 1 <= i /\ i + 2 - 1 <= Len(s) /\ 2 \in Nat
  BY PartIs
<1>l. PICK lo \in Int : lo = a + 1
  OBVIOUS
<1>e. PICK e \in Int : e = i + 2 - 1
  BY <1>i
<1>s. Len(s) = b - a
  BY PartIs
<1>b. 1 <= lo /\ lo <= b + 1 /\ i <= e /\ e <= b - lo + 1 /\ e - i + 1 = 2
  BY <1>i, <1>e, <1>s, <1>l
<1>w. \A j \in 1..e - i + 1 : SubSeq(SubSeq(buf, lo, b), i, e)[j] = buf[lo + i + j - 2]
  BY <1>b, <1>i, WordIs
<1>x. SubSeq(SubSeq(buf, lo, b), i, e) = w
  BY ONLY <1>l, <1>e, <1>2, s = SubSeq(buf, a + 1, b)
<1>y. \A j \in 1..2 : lo + i + j - 2 = a + i + j - 1
  BY <1>l, <1>i
<1>z. a + i \in a + 1..b - 2 + 1
  BY <1>i, <1>s
<1>3. a + i \in a + 1..b - 2 + 1 /\ \A j \in 1..2 : buf[a + i + j - 1] = w[j]
  BY ONLY <1>w, <1>b, <1>x, <1>y, <1>z
<1>4. /\ a + i \in a + 1..b - 1 /\ a + i + 1 - 1 = a + i /\ a + i + 2 - 1 = a + i + 1
      /\ 1 \in 1..2 /\ 2 \in 1..2
  BY <1>3
<1>5. buf[a + i] = "<" /\ buf[a + i + 1] = c
  BY ONLY <1>1, <1>3, <1>4
<1> QED BY <1>4, <1>5 DEF NoTags

LEMMA ArrowsClose ==
    ASSUME NEW buf \in Seq(STRING), NEW a \in Int, NEW b \in Int, 0 <= a, a <= b, b <= Len(buf),
           NoArrow(buf, a, b)
    PROVE  ClosesAt(SubSeq(buf, a + 1, b), <<"-", "-", ">">>, "!")
<1> DEFINE s == SubSeq(buf, a + 1, b)
           w == <<"-", "-", ">">>
<1>1. Len(w) = 3 /\ w[1] = "-" /\ w[2] = "-" /\ w[3] = ">"
  OBVIOUS
<1> SUFFICES ASSUME NEW i \in 1..Len(s) - 3 + 1, SubSeq(s, i, i + 3 - 1) = w
             PROVE  i > 1 /\ s[i - 1] = "!"
  BY <1>1 DEF ClosesAt
<1> HIDE DEF w
<1>l. PICK lo \in Int : lo = a + 1
  OBVIOUS
<1>s. Len(s) = b - a /\ \A k \in 1..b - a : s[k] = buf[a + k]
  BY PartIs
<1>i. i \in Int /\ 1 <= i /\ i + 3 - 1 <= Len(s)
  BY <1>s
<1>e. PICK e \in Int : e = i + 3 - 1
  BY <1>i
<1>b. 1 <= lo /\ lo <= b + 1 /\ i <= e /\ e <= b - lo + 1 /\ e - i + 1 = 3
  BY <1>s, <1>l, <1>i, <1>e
<1>w. \A j \in 1..e - i + 1 : SubSeq(SubSeq(buf, lo, b), i, e)[j] = buf[lo + i + j - 2]
  BY ONLY buf \in Seq(STRING), b \in Int, b <= Len(buf), i \in Int, lo \in Int, e \in Int,
     <1>b, <1>i, WordIs
<1>x. SubSeq(SubSeq(buf, lo, b), i, e) = w
  BY <1>l, <1>e
<1>y. \A j \in 1..3 : lo + i + j - 2 = a + i + j - 1
  BY <1>l, <1>i
<1>z. a + i \in a + 1..b - 2
  BY <1>i, <1>s
<1>u. \A j \in 1..3 : w[j] = buf[a + i + j - 1]
  BY ONLY <1>w, <1>b, <1>x, <1>y
<1>v. /\ a + i + 1 - 1 = a + i /\ a + i + 2 - 1 = a + i + 1 /\ a + i + 3 - 1 = a + i + 2
      /\ a + i + 4 - 1 = a + i + 3 /\ 1 \in 1..3 /\ 2 \in 1..3 /\ 3 \in 1..3
      /\ (i > 1 => i - 1 \in 1..b - a /\ a + (i - 1) = a + i - 1)
  BY <1>i, <1>s
<1>p. (i > 1 => s[i - 1] = buf[a + i - 1])
  BY ONLY <1>s, <1>v
<1>2. /\ a + i \in a + 1..b - 2 /\ buf[a + i] = w[1] /\ buf[a + i + 1] = w[2]
      /\ buf[a + i + 2] = w[3]
      /\ (i > 1 => s[i - 1] = buf[a + i - 1])
  BY ONLY <1>u, <1>v, <1>z, <1>p
<1>3. a + i > a + 1 /\ buf[a + i - 1] = "!"
  BY ONLY <1>1, <1>2, NoArrow(buf, a, b) DEF NoArrow
<1>4. i > 1
  BY ONLY <1>3, <1>i, a \in Int
<1> QED BY ONLY <1>2, <1>3, <1>4
LEMMA BracketsClose ==
    ASSUME NEW buf \in Seq(STRING), NEW a \in Int, NEW b \in Int, 0 <= a, a <= b, b <= Len(buf),
           NoBrackets(buf, a, b)
    PROVE  ~HasWord(SubSeq(buf, a + 1, b), <<"]", "]", ">">>)
<1> DEFINE s == SubSeq(buf, a + 1, b)
           w == <<"]", "]", ">">>
<1>1. Len(w) = 3 /\ w[1] = "]" /\ w[2] = "]" /\ w[3] = ">"
  OBVIOUS
<1> SUFFICES ASSUME NEW i \in 1..Len(s) - 3 + 1, SubSeq(s, i, i + 3 - 1) = w PROVE FALSE
  BY <1>1 DEF HasWord
<1> HIDE DEF w
<1>l. PICK lo \in Int : lo = a + 1
  OBVIOUS
<1>s. Len(s) = b - a /\ \A k \in 1..b - a : s[k] = buf[a + k]
  BY PartIs
<1>i. i \in Int /\ 1 <= i /\ i + 3 - 1 <= Len(s)
  BY <1>s
<1>e. PICK e \in Int : e = i + 3 - 1
  BY <1>i
<1>b. 1 <= lo /\ lo <= b + 1 /\ i <= e /\ e <= b - lo + 1 /\ e - i + 1 = 3
  BY <1>s, <1>l, <1>i, <1>e
<1>w. \A j \in 1..e - i + 1 : SubSeq(SubSeq(buf, lo, b), i, e)[j] = buf[lo + i + j - 2]
  BY ONLY buf \in Seq(STRING), b \in Int, b <= Len(buf), i \in Int, lo \in Int, e \in Int,
     <1>b, <1>i, WordIs
<1>x. SubSeq(SubSeq(buf, lo, b), i, e) = w
  BY <1>l, <1>e
<1>y. \A j \in 1..3 : lo + i + j - 2 = a + i + j - 1
  BY <1>l, <1>i
<1>z. a + i \in a + 1..b - 2
  BY <1>i, <1>s
<1>u. \A j \in 1..3 : w[j] = buf[a + i + j - 1]
  BY ONLY <1>w, <1>b, <1>x, <1>y
<1>v. /\ a + i + 1 - 1 = a + i /\ a + i + 2 - 1 = a + i + 1 /\ a + i + 3 - 1 = a + i + 2
      /\ a + i + 4 - 1 = a + i + 3 /\ 1 \in 1..3 /\ 2 \in 1..3 /\ 3 \in 1..3
      /\ (i > 1 => i - 1 \in 1..b - a /\ a + (i - 1) = a + i - 1)
  BY <1>i, <1>s
<1>p. (i > 1 => s[i - 1] = buf[a + i - 1])
  BY ONLY <1>s, <1>v
<1>2. /\ a + i \in a + 1..b - 2 /\ buf[a + i] = w[1] /\ buf[a + i + 1] = w[2]
      /\ buf[a + i + 2] = w[3]
  BY ONLY <1>u, <1>v, <1>z, <1>p
<1> QED BY ONLY <1>1, <1>2, NoBrackets(buf, a, b) DEF NoBrackets
LEMMA EndTagsClose ==
    ASSUME NEW buf \in Seq(STRING), NEW a \in Int, NEW b \in Int, 0 <= a, a <= b, b <= Len(buf),
           NEW tag, NEW lenient \in BOOLEAN, NoEndTag(buf, a, b, tag, lenient), NEW c \in TagEnd
    PROVE  /\ lenient => ClosesAt(SubSeq(buf, a + 1, b), <<"<", "/", tag, c>>, "<")
           /\ ~lenient => ~HasWord(SubSeq(buf, a + 1, b), <<"<", "/", tag, c>>)
<1> DEFINE s == SubSeq(buf, a + 1, b)
           w == <<"<", "/", tag, c>>
<1>0. Len(s) = b - a /\ \A k \in 1..b - a : s[k] = buf[a + k]
  BY ONLY buf \in Seq(STRING), a \in Int, b \in Int, 0 <= a, a <= b, b <= Len(buf), PartIs
<1>1. Len(w) = 4 /\ w[1] = "<" /\ w[2] = "/" /\ w[3] = tag /\ w[4] = c
  OBVIOUS
<1>2. ASSUME NEW i \in 1..Len(s) - 4 + 1, SubSeq(s, i, i + 4 - 1) = w
      PROVE  lenient /\ i > 1 /\ s[i - 1] = "<"
  <2> HIDE DEF w
  <2>l. PICK lo \in Int : lo = a + 1
    OBVIOUS
  <2>s. Len(s) = b - a /\ \A k \in 1..b - a : s[k] = buf[a + k]
    BY <1>0
  <2>i. i \in Int /\ 1 <= i /\ i + 4 - 1 <= Len(s)
    BY <2>s
  <2>e. PICK e \in Int : e = i + 4 - 1
    BY <2>i
  <2>b. 1 <= lo /\ lo <= b + 1 /\ i <= e /\ e <= b - lo + 1 /\ e - i + 1 = 4
    BY <2>s, <2>l, <2>i, <2>e
  <2>w. \A j \in 1..e - i + 1 : SubSeq(SubSeq(buf, lo, b), i, e)[j] = buf[lo + i + j - 2]
    BY ONLY buf \in Seq(STRING), b \in Int, b <= Len(buf), i \in Int, lo \in Int, e \in Int,
       <2>b, <2>i, WordIs
  <2>x. SubSeq(SubSeq(buf, lo, b), i, e) = w
    BY <2>l, <2>e, <1>2
  <2>y. \A j \in 1..4 : lo + i + j - 2 = a + i + j - 1
    BY <2>l, <2>i
  <2>z. a + i \in a + 1..b - 3
    BY <2>i, <2>s
  <2>u. \A j \in 1..4 : w[j] = buf[a + i + j - 1]
    BY ONLY <2>w, <2>b, <2>x, <2>y
  <2>v. /\ a + i + 1 - 1 = a + i /\ a + i + 2 - 1 = a + i + 1 /\ a + i + 3 - 1 = a + i + 2
        /\ a + i + 4 - 1 = a + i + 3 /\ 1 \in 1..4 /\ 2 \in 1..4 /\ 3 \in 1..4 /\ 4 \in 1..4
        /\ (i > 1 => i - 1 \in 1..b - a /\ a + (i - 1) = a + i - 1)
    BY <2>i, <2>s
  <2>p. (i > 1 => s[i - 1] = buf[a + i - 1])
    BY ONLY <2>s, <2>v
  <2>1. /\ a + i \in a + 1..b - 3 /\ buf[a + i] = w[1] /\ buf[a + i + 1] = w[2]
        /\ buf[a + i + 2] = w[3] /\ buf[a + i + 3] = w[4]
        /\ (i > 1 => s[i - 1] = buf[a + i - 1])
    BY ONLY <2>u, <2>v, <2>z, <2>p
  <2>2. lenient /\ a + i > a + 1 /\ buf[a + i - 1] = "<"
    BY ONLY <1>1, <2>1, NoEndTag(buf, a, b, tag, lenient), c \in TagEnd DEF NoEndTag
  <2>3. i > 1
    BY ONLY <2>2, <2>i, a \in Int
  <2> QED BY ONLY <2>1, <2>2, <2>3
<1>3. lenient => ClosesAt(s, w, "<")
  BY <1>1, <1>2 DEF ClosesAt
<1>4. ~lenient => ~HasWord(s, w)
  BY <1>1, <1>2 DEF HasWord
<1> QED BY <1>3, <1>4

LEMMA PairsAre ==
    ASSUME NEW t, TypeFits(t)
    PROVE  \A i \in DOMAIN t.attr :
               /\ t.attr[i][1][1] \in Int /\ t.attr[i][1][2] \in Int
               /\ t.attr[i][2][1] \in Int /\ t.attr[i][2][2] \in Int
<1>1. t.attr \in Seq((Int \X Int) \X (Int \X Int))
  BY DEF TypeFits
<1>2. \A i \in DOMAIN t.attr : t.attr[i] \in (Int \X Int) \X (Int \X Int)
  BY <1>1
<1>3. \A i \in DOMAIN t.attr : t.attr[i][1] \in Int \X Int /\ t.attr[i][2] \in Int \X Int
  BY ONLY <1>2
<1> QED BY ONLY <1>3

\* A token that was returned.
LEMMA TokenIs ==
    ASSUME TokenInv, Token
    PROVE  /\ Sound(z) /\ z.raw[1] < z.raw[2] /\ Inside(z.data, z.raw)
           /\ z.tt \in {"start", "selfClosing", "end"} =>
                  /\ NameFits(z) /\ AttrsFit(z) /\ Latest(z) = ">" /\ z.start = (z.tt # "end")
           /\ z.tt = "text" /\ z.markup /\ ~z.err => NoTags(z.buf, z.data[1], z.data[2])
<1>1. TypeFits(z) /\ RawFits(z) /\ AtReturn(z)
  BY DEF TokenInv, TokenFits, PlaceFits, Token
<1>2. Sound(z)
  BY <1>1, HasNumbers DEF Sound
<1> QED BY <1>1, <1>2 DEF AtReturn, Token

LEMMA Advances == ASSUME TokenInv PROVE TokensAdvance
<1>1. z.raw[2] <= Len(z.buf)
  BY DEF TokenInv, TokenFits, RawFits
<1>2. Token => z.raw[1] < z.raw[2] /\ Inside(z.data, z.raw)
  BY TokenIs
<1>3. ASSUME Token, z.tt \in {"start", "selfClosing"}, NEW i \in DOMAIN z.attr
      PROVE  Inside(z.attr[i][1], z.raw) /\ Inside(z.attr[i][2], z.raw)
  <2>1. Sound(z) /\ AttrsFit(z)
    BY <1>3, TokenIs
  <2> DEFINE k == z.attr[i][1]
             v == z.attr[i][2]
  <2>2. k[1] \in Int /\ k[2] \in Int /\ v[1] \in Int /\ v[2] \in Int /\ z.raw[1] \in Int
        /\ z.raw[2] \in Int
    BY <2>1, <1>3, PairsAre DEF Sound, Numbers
  <2>3. KeyFits(z.buf, z.raw[1], z.raw[2], k) /\ ValFits(z.buf, z.raw[1], z.raw[2], v)
    BY <2>1, <1>3 DEF AttrsFit
  <2> HIDE DEF k, v
  <2>4. Inside(k, z.raw) /\ Inside(v, z.raw)
    BY ONLY <2>2, <2>3 DEF KeyFits, ValFits, Inside
  <2> QED BY <2>4 DEF k, v
<1> QED BY <1>1, <1>2, <1>3 DEF TokensAdvance

LEMMA ByteIs ==
    ASSUME Sound(z), NEW k \in Int, 1 <= k, k <= Len(z.buf) PROVE ByteAt(k) = z.buf[k]
BY DEF ByteAt, Sound, TypeFits

\* The bytes of a span.
LEMMA SpanIsFree ==
    ASSUME Sound(z), NEW s, s[1] \in Int, s[2] \in Int, 0 <= s[1], s[1] <= s[2],
           s[2] <= Len(z.buf), NEW S, NoneOf(z.buf, s[1], s[2], S), NEW c \in S
    PROVE  ~HasWord(Part(s), <<c>>)
<1>1. PICK a \in Int, b \in Int : a = s[1] /\ b = s[2]
  OBVIOUS
<1>2. z.buf \in Seq(STRING) /\ 0 <= a /\ a <= b /\ b <= Len(z.buf) /\ NoneOf(z.buf, a, b, S)
  BY <1>1 DEF Sound, TypeFits
<1>3. ~HasWord(SubSeq(z.buf, a + 1, b), <<c>>)
  BY <1>2, FreeOf
<1> QED BY <1>1, <1>3 DEF Part

LEMMA KeyIsCut ==
    ASSUME Sound(z), NEW k, k[1] \in Int, k[2] \in Int, KeyFits(z.buf, z.raw[1], z.raw[2], k),
           k[1] # k[2]
    PROVE  /\ ByteAt(k[1]) \in TagEnd \cup Quotes \cup {"="}
           /\ ByteAt(k[2] + 1) \in TagEnd \cup {"="}
           /\ \A c \in TagEnd \cup {"="} : ~HasWord(Part(k), <<c>>)
<1>1. /\ z.raw[1] < k[1] /\ k[1] <= k[2] /\ k[2] <= z.raw[2] /\ k[2] < Len(z.buf)
      /\ NoneOf(z.buf, k[1], k[2], KeyEnd) /\ z.buf[k[2] + 1] \in KeyEnd
      /\ z.buf[k[1]] \in BeforeKey
  BY DEF KeyFits
<1>2. z.raw[1] \in Int /\ z.raw[2] \in Int /\ 0 <= z.raw[1] /\ Len(z.buf) \in Nat
  BY DEF Sound, Numbers, RawFits
<1>3. PICK a \in Int, b \in Int : a = k[1] /\ b = k[2] + 1
  OBVIOUS
<1>4. 1 <= a /\ a <= Len(z.buf) /\ 1 <= b /\ b <= Len(z.buf)
  BY <1>1, <1>2, <1>3
<1>5. ByteAt(a) = z.buf[a] /\ ByteAt(b) = z.buf[b]
  BY ONLY Sound(z), <1>3, <1>4, ByteIs
<1>6. ByteAt(k[1]) \in BeforeKey /\ ByteAt(k[2] + 1) \in KeyEnd
  BY <1>1, <1>3, <1>5
<1>7. 0 <= k[1] /\ k[1] <= k[2] /\ k[2] <= Len(z.buf)
  BY <1>1, <1>2
<1>8. \A c \in KeyEnd : ~HasWord(Part(k), <<c>>)
  BY <1>1, <1>7, SpanIsFree
<1> QED BY <1>6, <1>8 DEF BeforeKey, KeyEnd

LEMMA ValueIsCut ==
    ASSUME Sound(z), NEW v, v[1] \in Int, v[2] \in Int, ValFits(z.buf, z.raw[1], z.raw[2], v),
           NEW q, q = ByteAt(v[1])
    PROVE  \/ v[1] = v[2]
           \/ q \in Quotes /\ ByteAt(v[2] + 1) = q /\ ~HasWord(Part(v), <<q>>)
           \/ q \in Space \cup {"="} /\ ByteAt(v[2] + 1) \in TagEnd /\ ~HasWord(Part(v), <<">">>)
<1> SUFFICES ASSUME v[1] # v[2]
             PROVE  \/ q \in Quotes /\ ByteAt(v[2] + 1) = q /\ ~HasWord(Part(v), <<q>>)
                    \/ /\ q \in Space \cup {"="} /\ ByteAt(v[2] + 1) \in TagEnd
                       /\ ~HasWord(Part(v), <<">">>)
  OBVIOUS
<1>1. /\ z.raw[1] < v[1] /\ v[1] <= v[2] /\ v[2] <= z.raw[2] /\ v[2] < Len(z.buf)
      /\ \/ /\ z.buf[v[1]] \in Quotes /\ z.buf[v[2] + 1] = z.buf[v[1]]
            /\ NoneOf(z.buf, v[1], v[2], {z.buf[v[1]]})
         \/ /\ z.buf[v[1]] \in Space \cup {"="} /\ z.buf[v[2] + 1] \in TagEnd
            /\ NoneOf(z.buf, v[1], v[2], {">"})
  BY DEF ValFits
<1>2. z.raw[1] \in Int /\ z.raw[2] \in Int /\ 0 <= z.raw[1] /\ Len(z.buf) \in Nat
  BY DEF Sound, Numbers, RawFits
<1>3. PICK a \in Int, b \in Int : a = v[1] /\ b = v[2] + 1
  OBVIOUS
<1>4. 1 <= a /\ a <= Len(z.buf) /\ 1 <= b /\ b <= Len(z.buf)
  BY <1>1, <1>2, <1>3
<1>5. ByteAt(a) = z.buf[a] /\ ByteAt(b) = z.buf[b]
  BY ONLY Sound(z), <1>3, <1>4, ByteIs
<1>6. q = z.buf[v[1]] /\ ByteAt(v[2] + 1) = z.buf[v[2] + 1]
  BY <1>3, <1>5
<1>7. 0 <= v[1] /\ v[1] <= v[2] /\ v[2] <= Len(z.buf)
  BY <1>1, <1>2
<1>8. CASE /\ z.buf[v[1]] \in Quotes /\ z.buf[v[2] + 1] = z.buf[v[1]]
           /\ NoneOf(z.buf, v[1], v[2], {z.buf[v[1]]})
  <2>1. q \in {q} /\ NoneOf(z.buf, v[1], v[2], {q})
    BY <1>6, <1>8
  <2>2. ~HasWord(Part(v), <<q>>)
    BY <1>7, <2>1, SpanIsFree
  <2> QED BY <1>6, <1>8, <2>2
<1>9. CASE /\ z.buf[v[1]] \in Space \cup {"="} /\ z.buf[v[2] + 1] \in TagEnd
           /\ NoneOf(z.buf, v[1], v[2], {">"})
  <2>1. ">" \in {">"}
    OBVIOUS
  <2>2. ~HasWord(Part(v), <<">">>)
    BY <1>7, <1>9, <2>1, SpanIsFree
  <2> QED BY <1>6, <1>9, <2>2
<1> QED BY <1>1, <1>8, <1>9

LEMMA TagsAreCut == ASSUME TokenInv PROVE TagIsCut
<1> SUFFICES ASSUME Token, z.tt \in {"start", "selfClosing", "end"} PROVE TagIsCut
  BY DEF TagIsCut
<1>1. /\ Sound(z) /\ NameFits(z) /\ AttrsFit(z) /\ Latest(z) = ">" /\ z.start = (z.tt # "end")
      /\ z.raw[1] < z.raw[2]
  BY TokenIs
<1>2. /\ z.raw[1] \in Int /\ z.raw[2] \in Int /\ z.data[1] \in Int /\ z.data[2] \in Int
      /\ Len(z.buf) \in Nat /\ 0 <= z.raw[1] /\ z.raw[2] <= Len(z.buf)
  BY <1>1 DEF Sound, Numbers, RawFits
<1>3. /\ z.raw[1] < z.data[1] /\ z.data[1] < z.data[2]
      /\ z.data[2] <= z.raw[2] /\ NoneOf(z.buf, z.data[1], z.data[2], TagEnd)
      /\ z.buf[z.data[1]] = (IF z.start THEN "<" ELSE "/")
      /\ z.data[2] < Len(z.buf) /\ z.buf[z.data[2] + 1] \in TagEnd
  BY <1>1 DEF NameFits
<1>4. PICK a \in Int, b \in Int, e \in Int : a = z.data[1] /\ b = z.data[2] + 1 /\ e = z.raw[2]
  BY <1>2
<1>5. /\ 1 <= a /\ a <= Len(z.buf) /\ 1 <= b /\ b <= Len(z.buf)
      /\ 1 <= e /\ e <= Len(z.buf)
  <2>1. /\ 1 <= z.data[1] /\ z.data[1] <= Len(z.buf) /\ 1 <= z.data[2] + 1
        /\ z.data[2] + 1 <= Len(z.buf) /\ 1 <= z.raw[2]
    BY ONLY <1>2, <1>3
  <2> QED BY ONLY <1>2, <1>4, <2>1
<1>6. ByteAt(a) = z.buf[a] /\ ByteAt(b) = z.buf[b] /\ ByteAt(e) = z.buf[e]
  BY ONLY <1>1, <1>4, <1>5, ByteIs
<1>7. /\ ByteAt(z.data[1]) = (IF z.tt = "end" THEN "/" ELSE "<")
      /\ ByteAt(z.data[2] + 1) \in TagEnd /\ ByteAt(z.raw[2]) = ">"
  BY ONLY <1>1, <1>3, <1>4, <1>6 DEF Latest
<1>8. 0 <= z.data[1] /\ z.data[1] <= z.data[2] /\ z.data[2] <= Len(z.buf)
  BY <1>2, <1>3
<1>9. \A c \in TagEnd : ~HasWord(Part(z.data), <<c>>)
  BY <1>1, <1>2, <1>3, <1>8, SpanIsFree
<1>10. ASSUME NEW i \in DOMAIN z.attr
       PROVE  LET k == z.attr[i][1]
                  v == z.attr[i][2]
                  q == ByteAt(v[1])
              IN /\ ByteAt(k[1]) \in TagEnd \cup Quotes \cup {"="}
                 /\ ByteAt(k[2] + 1) \in TagEnd \cup {"="}
                 /\ \A c \in TagEnd \cup {"="} : ~HasWord(Part(k), <<c>>)
                 /\ \/ v[1] = v[2]
                    \/ q \in Quotes /\ ByteAt(v[2] + 1) = q /\ ~HasWord(Part(v), <<q>>)
                    \/ q \in Space \cup {"="} /\ ByteAt(v[2] + 1) \in TagEnd
                       /\ ~HasWord(Part(v), <<">">>)
  <2> DEFINE k == z.attr[i][1]
             v == z.attr[i][2]
             q == ByteAt(v[1])
  <2>1. k[1] \in Int /\ k[2] \in Int /\ v[1] \in Int /\ v[2] \in Int
    BY <1>1, PairsAre DEF Sound
  <2>2. /\ KeyFits(z.buf, z.raw[1], z.raw[2], k) /\ k[1] # k[2]
        /\ ValFits(z.buf, z.raw[1], z.raw[2], v)
    BY <1>1 DEF AttrsFit
  <2>3. q = ByteAt(v[1])
    OBVIOUS
  <2> HIDE DEF k, v, q
  <2>4. /\ ByteAt(k[1]) \in TagEnd \cup Quotes \cup {"="}
        /\ ByteAt(k[2] + 1) \in TagEnd \cup {"="}
        /\ \A c \in TagEnd \cup {"="} : ~HasWord(Part(k), <<c>>)
    BY <1>1, <2>1, <2>2, KeyIsCut
  <2>5. \/ v[1] = v[2]
        \/ q \in Quotes /\ ByteAt(v[2] + 1) = q /\ ~HasWord(Part(v), <<q>>)
        \/ q \in Space \cup {"="} /\ ByteAt(v[2] + 1) \in TagEnd /\ ~HasWord(Part(v), <<">">>)
    BY <1>1, <2>1, <2>2, <2>3, ValueIsCut
  <2> QED BY <2>4, <2>5 DEF k, v, q
<1>11. z.data[1] < z.data[2]
  BY <1>3
<1> QED BY <1>7, <1>9, <1>10, <1>11 DEF TagIsCut

LEMMA TextsAreText == ASSUME TokenInv PROVE TextIsText
<1> SUFFICES ASSUME Token, z.tt = "text", z.markup, ~z.err,
                    NEW c \in Letter \cup {"/", "!", "?"}
             PROVE  ~HasWord(Part(z.data), <<"<", c>>)
  BY DEF TextIsText
<1>1. Sound(z) /\ Inside(z.data, z.raw) /\ NoTags(z.buf, z.data[1], z.data[2])
  BY TokenIs
<1>2. PICK a \in Int, b \in Int : a = z.data[1] /\ b = z.data[2]
  BY <1>1 DEF Sound, Numbers
<1>3. z.buf \in Seq(STRING) /\ 0 <= a /\ a <= b /\ b <= Len(z.buf)
  BY <1>1, <1>2 DEF Sound, Numbers, RawFits, TypeFits, Inside
<1>4. c \in Begins /\ NoTags(z.buf, a, b)
  BY <1>1, <1>2 DEF Begins
<1>5. ~HasWord(SubSeq(z.buf, a + 1, b), <<"<", c>>)
  BY <1>3, <1>4, NoTagIn
<1> QED BY <1>2, <1>5 DEF Part

\* What was taken of a comment, of a CDATA section and of raw text.
LEMMA TakenIs ==
    ASSUME TokenInv, NEW a \in Int, a = z.data[1] \/ a = z.raw[1], z.raw[1] <= a, a <= z.raw[2]
    PROVE  \E b \in Int : /\ b = z.raw[2] /\ z.buf \in Seq(STRING) /\ 0 <= a /\ a <= b
                          /\ b <= Len(z.buf) /\ Taken(a) = SubSeq(z.buf, a + 1, b)
<1>1. TypeFits(z) /\ RawFits(z) /\ Numbers(z)
  BY HasNumbers DEF TokenInv, TokenFits
<1>2. PICK b \in Int : b = z.raw[2]
  BY <1>1 DEF Numbers
<1>3. z.buf \in Seq(STRING) /\ 0 <= a /\ a <= b /\ b <= Len(z.buf)
  BY <1>1, <1>2 DEF TypeFits, RawFits, Numbers
<1> QED BY <1>2, <1>3 DEF Taken

LEMMA CommentsEnd ==
    ASSUME TokenInv
    PROVE  /\ z.pc \in {"comment", "bang"} => ClosesAt(Taken(z.data[1]), <<"-", "-", ">">>, "!")
           /\ z.pc = "cdata" => ~HasWord(Taken(z.data[1]), <<"]", "]", ">">>)
<1>1. Numbers(z) /\ PlaceFits(z)
  BY HasNumbers DEF TokenInv, TokenFits
<1>2. PICK a \in Int : a = z.data[1]
  BY <1>1 DEF Numbers
<1>3. ASSUME z.pc \in {"comment", "bang"}
      PROVE  ClosesAt(Taken(a), <<"-", "-", ">">>, "!")
  <2>1. InMarkup(z) /\ NoArrow(z.buf, z.data[1], z.raw[2])
    BY <1>1, <1>3 DEF PlaceFits, AtComment, AtBang
  <2>2. z.raw[1] <= a /\ a <= z.raw[2]
    BY <1>1, <1>2, <2>1 DEF InMarkup, Numbers
  <2>3. PICK b \in Int : /\ b = z.raw[2] /\ z.buf \in Seq(STRING) /\ 0 <= a /\ a <= b
                         /\ b <= Len(z.buf) /\ Taken(a) = SubSeq(z.buf, a + 1, b)
    BY <1>2, <2>2, TakenIs
  <2>4. NoArrow(z.buf, a, b)
    BY <1>2, <2>1, <2>3
  <2>5. ClosesAt(SubSeq(z.buf, a + 1, b), <<"-", "-", ">">>, "!")
    BY ONLY a \in Int, b \in Int, <2>3, <2>4, ArrowsClose
  <2> QED BY <2>3, <2>5
<1>4. ASSUME z.pc = "cdata"
      PROVE  ~HasWord(Taken(a), <<"]", "]", ">">>)
  <2>1. InMarkup(z) /\ NoBrackets(z.buf, z.data[1], z.raw[2])
    BY <1>1, <1>4 DEF PlaceFits, AtCdata
  <2>2. z.raw[1] <= a /\ a <= z.raw[2]
    BY <1>1, <1>2, <2>1 DEF InMarkup, Numbers
  <2>3. PICK b \in Int : /\ b = z.raw[2] /\ z.buf \in Seq(STRING) /\ 0 <= a /\ a <= b
                         /\ b <= Len(z.buf) /\ Taken(a) = SubSeq(z.buf, a + 1, b)
    BY <1>2, <2>2, TakenIs
  <2>4. NoBrackets(z.buf, a, b)
    BY <1>2, <2>1, <2>3
  <2>5. ~HasWord(SubSeq(z.buf, a + 1, b), <<"]", "]", ">">>)
    BY ONLY a \in Int, b \in Int, <2>3, <2>4, BracketsClose
  <2> QED BY <2>3, <2>5
<1> QED BY <1>2, <1>3, <1>4

\* Where the raw text of a title, or of a script, is read.
LEMMA InTitle ==
    ASSUME TokenInv, z.pc \in {"raw", "rawLess", "rawName", "rawAfterName"}, z.rawTag = "t"
    PROVE  SoFar(z)
<1>1. PlaceFits(z)
  BY DEF TokenInv, TokenFits
<1>2. CASE z.pc = "raw"
  BY <1>1, <1>2 DEF PlaceFits, AtRaw
<1>3. CASE z.pc = "rawLess"
  BY <1>1, <1>3 DEF PlaceFits, AtRawLess
<1>4. CASE z.pc \in Closing
  <2>1. IsClosing(z)
    BY <1>1, <1>4 DEF PlaceFits, AtRawName, AtRawAfterName, Closing
  <2> QED BY <2>1 DEF IsClosing, InRaw
<1> QED BY <1>2, <1>3, <1>4 DEF Closing

LEMMA InScript ==
    ASSUME TokenInv, z.pc # "returned", z.rawTag = "s"
    PROVE  SoFar(z) \/ IsEscaped(z)
<1>1. PlaceFits(z) /\ z.pc \in Places
  BY DEF TokenInv, TokenFits, TypeFits
<1>2. ASSUME z.pc \in Plain \cup InTag PROVE FALSE
  <2>1. Outside(z)
    BY <1>1, <1>2
    DEF Plain, InTag, PlaceFits, AtText, AtLessThan, AtEndTag, AtName, AtWhite, AtKey, AtEquals,
        AtValue, AtQuoted, AtUnquoted, Keyed, Named
  <2> QED BY <2>1 DEF Outside
<1>3. ASSUME z.pc \in Declared PROVE FALSE
  <2>1. InMarkup(z)
    BY <1>1, <1>3 DEF Declared, PlaceFits, InWord, AtAngle, AtComment, AtBang, AtCdata
  <2> QED BY <2>1 DEF InMarkup
<1>4. ASSUME z.pc \in {"raw", "rawLess", "plaintext"} PROVE FALSE
  BY <1>1, <1>4 DEF PlaceFits, AtRaw, AtRawLess, InRaw
<1>5. CASE z.pc \in Closing
  <2>1. IsClosing(z)
    BY <1>1, <1>5 DEF PlaceFits, AtRawName, AtRawAfterName, Closing
  <2> QED BY <2>1 DEF IsClosing
<1>6. CASE z.pc \in {"scriptData", "less", "escapeStart", "escapeStartDash"}
  BY <1>1, <1>6
  DEF PlaceFits, AtScriptData, AtLess, AtEscapeStart, AtEscapeStartDash
<1>7. CASE z.pc \in ScriptStates \ {"scriptData", "less", "escapeStart", "escapeStartDash"}
  BY <1>1, <1>7 DEF ScriptStates, PlaceFits, AtEscapedLess, InEscaped
<1> QED BY <1>1, <1>2, <1>3, <1>4, <1>5, <1>6, <1>7 DEF Places

LEMMA RawsEnd == ASSUME TokenInv PROVE RawTextEnds
<1>1. Numbers(z) /\ RawFits(z)
  BY HasNumbers DEF TokenInv, TokenFits
<1>2. PICK a \in Int : a = z.raw[1]
  BY <1>1 DEF Numbers
<1>3. z.raw[1] <= a /\ a <= z.raw[2]
  BY <1>1, <1>2 DEF RawFits, Numbers
<1>4. PICK b \in Int : /\ b = z.raw[2] /\ z.buf \in Seq(STRING) /\ 0 <= a /\ a <= b
                       /\ b <= Len(z.buf) /\ Taken(a) = SubSeq(z.buf, a + 1, b)
  BY <1>2, <1>3, TakenIs
<1>5. ASSUME z.pc \in {"raw", "rawLess", "rawName", "rawAfterName"}, z.rawTag = "t",
             NEW c \in TagEnd
      PROVE  ClosesAt(Taken(z.raw[1]), <<"<", "/", "t", c>>, "<")
  <2>1. NoEndTag(z.buf, a, b, "t", TRUE)
    BY <1>2, <1>4, <1>5, InTitle DEF SoFar
  <2>2. ClosesAt(SubSeq(z.buf, a + 1, b), <<"<", "/", "t", c>>, "<")
    BY ONLY a \in Int, b \in Int, c \in TagEnd, <1>4, <2>1, EndTagsClose
  <2> QED BY <1>2, <1>4, <2>2
<1>6. ASSUME z.pc # "returned", z.rawTag = "s",
             ~HasWord(Taken(z.raw[1]), <<"<", "!", "-", "-">>), NEW c \in TagEnd
      PROVE  ~HasWord(Taken(z.raw[1]), <<"<", "/", "s", c>>)
  <2>1. ~Escaped(z.buf, a, b)
    BY <1>2, <1>4, <1>6, IsWord
  <2>2. SoFar(z)
    BY <1>2, <1>4, <1>6, <2>1, InScript DEF IsEscaped
  <2>3. NoEndTag(z.buf, a, b, "s", FALSE)
    BY <1>2, <1>4, <1>6, <2>2 DEF SoFar
  <2>4. ~HasWord(SubSeq(z.buf, a + 1, b), <<"<", "/", "s", c>>)
    BY ONLY a \in Int, b \in Int, c \in TagEnd, <1>4, <2>3, EndTagsClose
  <2> QED BY <1>2, <1>4, <2>4
<1> QED BY <1>5, <1>6, CommentsEnd DEF RawTextEnds

\* Whatever the pages, the tokens of the HTML tokenizer are a cut of the input:
\* each advances it, its spans lie within what it took and show what the tag
\* says, text holds no tag, and raw text, comments and CDATA sections end at
\* their first end.
THEOREM TokensStayRight ==
    TokenizerAssumed => (TokenizerSpec => []TokensAreRight)
<1> SUFFICES ASSUME TokenizerAssumed PROVE TokenizerSpec => []TokensAreRight
  OBVIOUS
<1>1. TokenizerInit => TokenInv /\ PageFits
  BY InitFits
<1>2. TokenInv /\ PageFits /\ [TokenizerNext]_tokenizerVars => TokenInv' /\ PageFits'
  BY TokenizerKeeps
<1>3. TokenInv => TokensAreRight
  BY Advances, TagsAreCut, TextsAreText, RawsEnd DEF TokensAreRight
<1> QED BY <1>1, <1>2, <1>3, PTL DEF TokenizerSpec
=============================================================================
