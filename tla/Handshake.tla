----------------------------- MODULE Handshake -----------------------------
(***************************************************************************)
(* The opening handshake of go.net/websocket, between this package's       *)
(* client and its server, or between one of them and a foreign end that    *)
(* sends any request or response.  The nonce stands for its hash as well:  *)
(* equal accepts come from equal keys.                                     *)
(***************************************************************************)
EXTENDS Naturals, Sequences, SequencesExt

CONSTANTS Protocols \* the names of subprotocols

Lists == SeqOf(Protocols, 2)
NoProtocol == "none"
NoMsg == [sent |-> FALSE]
Lost == [lost |-> TRUE]

ASSUME HandshakeAssumption == NoProtocol \notin Protocols

\* A request, in the order of the checks: what is wrong with it first, if
\* anything is.
HelloFaults == {"none", "method", "upgrade", "key", "version", "uri"}
Hello == [fault : HelloFaults, key : 0..1, protocols : Lists, origin : {"url", "null", "bad"}]

\* A response: status 101 or another, whether Upgrade and Connection are right,
\* whether there is an extension.
Welcome == [status : {101, 400, 403, 405}, upgrade : BOOLEAN, accept : 0..1,
            extensions : BOOLEAN, protocol : Protocols \cup {NoProtocol}]

VARIABLES
    mode,     \* which ends are this package's
    dialer,   \* the client: pc, config.Protocol, and what its config lacks
    upgrader, \* the server: pc, its config.Protocol, and whether it is a Handler
    hello,    \* the request on its way
    welcome   \* the response on its way

handshakeVars == <<mode, dialer, upgrader, hello, welcome>>

DialFaults == {"none", "location", "origin", "scheme", "version"}
OurKey == 1

HandshakeInit ==
    /\ mode \in {"both", "client", "server"}
    /\ dialer \in [pc : {"idle"}, protocols : Lists, fault : DialFaults]
    /\ mode = "server" => dialer.protocols = <<>> /\ dialer.fault = "none"
    /\ upgrader \in [pc : {"read"}, protocols : SeqOf(Protocols, 1),
                     kind : {"server", "handler"}]
    /\ upgrader.kind = "handler" => upgrader.protocols = <<>>
    /\ mode = "client" => upgrader.kind = "handler"
    /\ hello = NoMsg /\ welcome = NoMsg

-----------------------------------------------------------------------------
(* A mistake the code does not make. *)

BugKeepsProtocols(offered) == dialer.protocols

-----------------------------------------------------------------------------
(* The client. *)

DialEnds(pc) ==
    /\ dialer' = [dialer EXCEPT !.pc = pc]
    /\ UNCHANGED <<mode, upgrader, welcome>>

\* DialConfig and hybiClientHandshake up to the flush.  A bad version is found
\* when the first lines are in the buffer, and nothing is sent.
Dial ==
    /\ mode # "server" /\ dialer.pc = "idle"
    /\ \/ DialEnds("error") /\ UNCHANGED hello  \* a fault, or the network fails
       \/ /\ dialer.fault = "none"
          /\ hello' = [fault |-> "none", key |-> OurKey, protocols |-> dialer.protocols,
                       origin |-> "url"]
          /\ DialEnds("wait")

\* What config.Protocol is after the server named one.
Chosen(offered) == <<offered>>

\* The checks of the response.
GoodWelcome(w) ==
    /\ w # Lost
    /\ w.status = 101 /\ w.upgrade
    /\ w.accept = OurKey
    /\ ~w.extensions
    /\ w.protocol = NoProtocol \/ w.protocol \in ToSet(dialer.protocols)

ReadsResponse ==
    /\ dialer.pc = "wait" /\ welcome # NoMsg
    /\ dialer' = IF ~GoodWelcome(welcome) THEN [dialer EXCEPT !.pc = "error"]
                 ELSE [dialer EXCEPT !.pc = "ok",
                         !.protocols = IF welcome.protocol = NoProtocol THEN @
                                       ELSE Chosen(welcome.protocol)]
    /\ UNCHANGED <<mode, upgrader, hello, welcome>>

-----------------------------------------------------------------------------
(* The server. *)

\* ReadHandshake: the status for what is wrong.
Code(fault) == IF fault = "method" THEN 405 ELSE 400

Refusal(code) == [status |-> code, upgrade |-> FALSE, accept |-> 0, extensions |-> FALSE,
                  protocol |-> NoProtocol]

\* The connection closes after the response (defer rwc.Close()), which may be
\* lost on the way.
Rejects(code) ==
    /\ welcome' \in {Refusal(code), Lost}
    /\ upgrader' = [upgrader EXCEPT !.pc = "done"]
    /\ UNCHANGED <<mode, dialer, hello>>

\* ReadHandshake: the client's protocols come after those of the Server's Config.
ReadsHandshake ==
    /\ mode # "client" /\ upgrader.pc = "read" /\ hello # NoMsg
    /\ IF hello.fault # "none" THEN Rejects(Code(hello.fault))
       ELSE /\ upgrader' = [upgrader EXCEPT !.pc = "handshake", !.protocols = @ \o hello.protocols]
            /\ UNCHANGED <<mode, dialer, hello, welcome>>

\* The Handshake function of a Server, if there is one, may refuse the request
\* or choose protocols; that of a Handler checks the origin.
Handshakes ==
    /\ upgrader.pc = "handshake"
    /\ \/ /\ upgrader.kind = "handler" => hello.origin # "url"
          /\ Rejects(403)
       \/ /\ upgrader.kind = "handler" => hello.origin = "url"
          /\ \E chosen \in {upgrader.protocols}
                    \cup (IF upgrader.kind = "server"
                          THEN {<<>>} \cup {<<p>> : p \in ToSet(upgrader.protocols)} ELSE {}) :
                upgrader' = [upgrader EXCEPT !.pc = "accept", !.protocols = chosen]
          /\ UNCHANGED <<mode, dialer, hello, welcome>>

\* AcceptHandshake refuses more than one protocol, and the flush may fail.
AcceptsHandshake ==
    /\ upgrader.pc = "accept"
    /\ \/ Len(upgrader.protocols) > 1 /\ Rejects(400)
       \/ /\ Len(upgrader.protocols) <= 1
          /\ \/ /\ welcome' = [status |-> 101, upgrade |-> TRUE, accept |-> hello.key,
                               extensions |-> FALSE,
                               protocol |-> IF upgrader.protocols = <<>> THEN NoProtocol
                                            ELSE upgrader.protocols[1]]
                /\ upgrader' = [upgrader EXCEPT !.pc = "handler"]
             \/ /\ welcome' = Lost
                /\ upgrader' = [upgrader EXCEPT !.pc = "done"]
          /\ UNCHANGED <<mode, dialer, hello>>

\* The handler returns.
HandlerReturns ==
    /\ upgrader.pc = "handler"
    /\ upgrader' = [upgrader EXCEPT !.pc = "handled"]
    /\ UNCHANGED <<mode, dialer, hello, welcome>>

-----------------------------------------------------------------------------
(* The foreign ends. *)

ForeignRequest ==
    /\ mode = "server" /\ hello = NoMsg
    /\ hello' \in Hello
    /\ UNCHANGED <<mode, dialer, upgrader, welcome>>

ForeignResponse ==
    /\ mode = "client" /\ hello # NoMsg /\ welcome = NoMsg
    /\ welcome' \in Welcome \cup {Lost}
    /\ UNCHANGED <<mode, dialer, upgrader, hello>>

HandshakeStep ==
    \/ Dial \/ ReadsResponse
    \/ ReadsHandshake \/ Handshakes \/ AcceptsHandshake \/ HandlerReturns
    \/ ForeignRequest \/ ForeignResponse

HandshakeNext == HandshakeStep \/ (~ENABLED HandshakeStep /\ UNCHANGED handshakeVars)

HandshakeSpec == HandshakeInit /\ [][HandshakeNext]_handshakeVars

-----------------------------------------------------------------------------
(* Properties. *)

\* When a client of this package has its connection, the server of this package
\* that it reached runs the handler, with the protocol that the client takes the
\* connection to have; a refused client never reaches a handler.  And no handler
\* runs for a request with a fault, a choice of protocols, or, below a Handler,
\* another page's origin.
Handled == upgrader.pc \in {"handler", "handled"}
HandshakeAgrees ==
    /\ mode = "both" /\ dialer.pc = "ok" =>
          /\ Handled
          /\ IF welcome.protocol = NoProtocol THEN upgrader.protocols = <<>>
             ELSE dialer.protocols = upgrader.protocols
    /\ welcome # NoMsg /\ welcome # Lost /\ mode # "client" /\ welcome.status # 101 => ~Handled
    /\ Handled =>
          /\ hello.fault = "none" /\ Len(upgrader.protocols) <= 1
          /\ upgrader.kind = "handler" => hello.origin = "url"
=============================================================================
