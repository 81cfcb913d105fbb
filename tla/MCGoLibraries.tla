--------------------------- MODULE MCGoLibraries ---------------------------
(***************************************************************************)
(* The Go libraries of diego-release.  They share nothing: a behaviour is  *)
(* one of any of them.  The variables of the others stay as they are at    *)
(* the start, with one arbitrary input; those of the modules that are      *)
(* instantiated are unused, when another library runs.                     *)
(***************************************************************************)
EXTENDS Context, LimitListener, SuiteRunner, WebSocket, Handshake, SqliteDriver,
        SpdyFramer, HtmlRender, TLC,
        MCGoInputs

VARIABLES
    library, \* the one that runs
    \* of the modules that are instantiated
    page, z, call, text, task, answer, system, cflags, holder, setter, options,
    reading, socket, kernel, asked, last, rules, list, tree, texts, wanted, tries,
    trial, found, layout, domain, conv, coder, env, perHost, dial, conn, messages,
    stream, dictConn, caller, toServer, answers, question, reply, handle, table,
    stmt, scanned, backup, report, test, check, told, calls, forgiven

-----------------------------------------------------------------------------
(* Inputs. *)

OneHandshake == mode = "server" /\ upgrader.kind = "handler" /\ dialer.fault = "none"

\* Frames that the program sends over SPDY; some are refused, or by the reader.
MCFrames ==
    {Frame("SynStream", <<1, 0, 7, 0>>, {"A", "b"}, 1), Frame("SynStream", <<1, 0, 9, 0>>, {"a"}, 0),
     Frame("SynReply", <<1>>, {"a"}, 0), Frame("Headers", <<2>>, {"host"}, 0),
     Frame("Headers", <<1>>, {"host"}, 0), Frame("RstStream", <<1, 1>>, {}, 1),
     Frame("RstStream", <<1, 0>>, {}, 0), Frame("Settings", <<1, 4, 100>>, {}, 1),
     Frame("Ping", <<1>>, {}, 1), Frame("Ping", <<0>>, {}, 0), Frame("GoAway", <<0, 0>>, {}, 0),
     Frame("WindowUpdate", <<0, 5>>, {}, 0), Frame("Data", <<255, 15>>, {}, 1),
     Frame("Data", <<256, 7>>, {}, 0), Frame("Data", <<1, 16>>, {}, 0)}
\* Frames that only another implementation sends.
MCPeerFrames ==
    {Frame("SynStream", <<0, 0, 7, 0>>, {"a"}, 0), Frame("SynReply", <<1>>, {"A", "connection"}, 0),
     Frame("SynReply", <<1>>, {"connection"}, 0), Frame("Headers", <<0>>, {"b"}, 0),
     Frame("Headers", <<1>>, {"a"}, 0), Frame("Ping", <<1>>, {}, 1), Frame("Ping", <<0>>, {}, 0),
     Frame("GoAway", <<1, 0>>, {}, 1), Frame("WindowUpdate", <<1, 5>>, {}, 0),
     Frame("Data", <<0, 7>>, {}, 1), Frame("Credential", <<1, 2>>, {}, 0)}

\* Pages: every tag two deep, and groups of tags that play together, deeper.
Plain(tags) == {<<t, "none", FALSE>> : t \in tags}
In(start, end, context, max) ==
    [start |-> start, end |-> end, tagsOnly |-> FALSE, context |-> context,
     inForm |-> context = "form", max |-> max]
PageTags == {"html", "head", "body", "frameset", "frame", "noframes", "title", "p"}
TablePage == {"table", "tr", "td", "caption", "col", "select", "a"}
Styles == {"a", "b", "p", "table"}
FormPage == {"form", "isindex", "input", "table"}
\* resetInsertionMode takes the th of MathML for a cell.
CellPage ==
    [In(Plain({"table", "math", "th", "mo", "select"}), {"table"}, "none", 6) EXCEPT
       !.tagsOnly = TRUE]
ForeignTags == {"p", "svg", "foreignobject", "title", "mi", "source", "foo", "bar"}
OtherTags ==
    {"html", "head", "body", "frameset", "frame", "p", "pre", "form", "li", "dd", "button", "a",
     "nobr", "object", "img", "input", "select", "option", "optgroup", "table", "param", "image",
     "isindex", "textarea", "ruby", "rp", "math", "svg", "mi", "foreignobject", "foo", "bar",
     "hr", "keygen", "font"}
AllTags ==
    Plain(Blocks \cup Headings \cup Formatting \cup HeadTags \cup TableParts \cup RawTags
          \cup OtherTags)
    \cup {<<"input", "hidden", FALSE>>, <<"font", "face", FALSE>>, <<"svg", "none", TRUE>>,
          <<"annotation-xml", "html", FALSE>>}
Contexts ==
    {"table", "tr", "td", "select", "tbody", "colgroup", "caption", "head", "body", "frameset",
     "html", "textarea", "form"}
MCInputs ==
    {In(AllTags, {s[1] : s \in AllTags}, "none", 2),
     In(Plain(PageTags), {"html", "head", "body", "frameset", "title"}, "none", 4),
     In(Plain(TablePage), TablePage, "none", 4),
     In(Plain(Styles), Styles, "none", 4),
     In(Plain(ForeignTags), {"p", "svg", "foreignobject", "title", "foo"}, "none", 3),
     In(Plain(FormPage), {"form", "table"}, "none", 4), CellPage}
    \cup {In(Plain(TablePage), TablePage, c, 2) : c \in Contexts}
    \cup {[In(Plain(FormPage \cup {"frameset"}), {"form"}, c, 2) EXCEPT !.inForm = f] :
             c \in {"body", "td"}, f \in BOOLEAN}

-----------------------------------------------------------------------------
(* One library runs. *)

Unused == "unused"

Tokens == INSTANCE HtmlTokenizer
TextOps == INSTANCE HtmlText
IpPacket == INSTANCE IpPackets
IpSock == INSTANCE IpSocket
IpOption == INSTANCE IpOptions
SuffixRules == INSTANCE SuffixList
Atoms == INSTANCE AtomTable
Idn == INSTANCE Idna
Proxies == INSTANCE ProxyDialer
Dictionary == INSTANCE DictClient
Preferences == INSTANCE Negotiation
Statements == INSTANCE SqliteStmt
Checking == INSTANCE Checks

tokensVars ==
    <<page, z>>
textVars ==
    <<call, text>>
packetsVars ==
    <<task, answer>>
socketsVars ==
    <<system, cflags, holder, setter, options, reading>>
optionsVars ==
    <<socket, kernel, asked, last>>
suffixesVars ==
    <<rules, list, tree, texts>>
atomsVars ==
    <<wanted, tries, trial, found, layout>>
idnaVars ==
    <<domain, conv, coder>>
proxyVars ==
    <<env, perHost, dial, conn, messages, stream>>
dictVars ==
    <<dictConn, caller, toServer, answers>>
negotiationVars ==
    <<question, reply>>
statementsVars ==
    <<handle, table, stmt, scanned, backup, report>>
checksVars ==
    <<test, check, told, calls, forgiven>>

allVars ==
    <<ctxVars, listenerVars, suiteVars, webSocketVars, handshakeVars, sqlVars,
      spdyVars, htmlVars, tokensVars, textVars, packetsVars, socketsVars, optionsVars,
      suffixesVars, atomsVars, idnaVars, proxyVars, dictVars, negotiationVars,
      statementsVars, checksVars, library>>

AllInit ==
    /\ library \in {"context", "netutil", "gocheck", "websocket", "handshake",
                    "gosqlite", "spdy", "html", "tokens", "text", "packets", "sockets",
                    "options", "suffixes", "atoms", "idna", "proxy", "dict",
                    "negotiation", "statements", "checks"}
    /\ ContextInit
    /\ ListenerInit
    /\ SuiteInit
    /\ library # "gocheck" => suite.fixtures = {} /\ ~suite.bench /\ ~suite.wrongTest
    /\ WebSocketInit
    /\ HandshakeInit
    /\ library # "handshake" => OneHandshake
    /\ SqlInit
    /\ SpdyInit
    /\ library # "spdy" => ours
    /\ HtmlInit
    /\ library # "html" => input.max = 3
    /\ IF library = "tokens" THEN Tokens!TokenizerInit
       ELSE page = Unused /\ z = Unused
    /\ IF library = "text" THEN TextOps!TextInit
       ELSE call = Unused /\ text = Unused
    /\ IF library = "packets" THEN IpPacket!PacketInit
       ELSE task = Unused /\ answer = Unused
    /\ IF library = "sockets" THEN IpSock!SocketInit
       ELSE system = Unused /\ cflags = Unused /\ holder = Unused /\ setter = Unused
            /\ options = Unused /\ reading = Unused
    /\ IF library = "options" THEN IpOption!OptionInit
       ELSE socket = Unused /\ kernel = Unused /\ asked = Unused /\ last = Unused
    /\ IF library = "suffixes" THEN SuffixRules!SuffixInit
       ELSE rules = Unused /\ list = Unused /\ tree = Unused /\ texts = Unused
    /\ IF library = "atoms" THEN Atoms!AtomInit
       ELSE wanted = Unused /\ tries = Unused /\ trial = Unused /\ found = Unused
            /\ layout = Unused
    /\ IF library = "idna" THEN Idn!IdnaInit
       ELSE domain = Unused /\ conv = Unused /\ coder = Unused
    /\ IF library = "proxy" THEN Proxies!ProxyInit
       ELSE env = Unused /\ perHost = Unused /\ dial = Unused /\ conn = Unused
            /\ messages = Unused /\ stream = Unused
    /\ IF library = "dict" THEN Dictionary!DictInit
       ELSE dictConn = Unused /\ caller = Unused /\ toServer = Unused
            /\ answers = Unused
    /\ IF library = "negotiation" THEN Preferences!NegotiationInit
       ELSE question = Unused /\ reply = Unused
    /\ IF library = "statements" THEN Statements!StmtInit
       ELSE handle = Unused /\ table = Unused /\ stmt = Unused /\ scanned = Unused
            /\ backup = Unused /\ report = Unused
    /\ IF library = "checks" THEN Checking!CheckInit
       ELSE test = Unused /\ check = Unused /\ told = Unused /\ calls = Unused
            /\ forgiven = Unused

ContextRuns ==
    /\ library = "context"
    /\ UNCHANGED <<listenerVars, suiteVars, webSocketVars, handshakeVars, sqlVars,
                   spdyVars, htmlVars, tokensVars, textVars, packetsVars, socketsVars,
                   optionsVars, suffixesVars, atomsVars, idnaVars, proxyVars, dictVars,
                   negotiationVars, statementsVars, checksVars, library>>
    /\ ContextNext

ListenerRuns ==
    /\ library = "netutil"
    /\ UNCHANGED <<ctxVars, suiteVars, webSocketVars, handshakeVars, sqlVars,
                   spdyVars, htmlVars, tokensVars, textVars, packetsVars, socketsVars,
                   optionsVars, suffixesVars, atomsVars, idnaVars, proxyVars, dictVars,
                   negotiationVars, statementsVars, checksVars, library>>
    /\ ListenerNext

SuiteRuns ==
    /\ library = "gocheck"
    /\ UNCHANGED <<ctxVars, listenerVars, webSocketVars, handshakeVars, sqlVars,
                   spdyVars, htmlVars, tokensVars, textVars, packetsVars, socketsVars,
                   optionsVars, suffixesVars, atomsVars, idnaVars, proxyVars, dictVars,
                   negotiationVars, statementsVars, checksVars, library>>
    /\ SuiteNext

WebSocketRuns ==
    /\ library = "websocket"
    /\ UNCHANGED <<ctxVars, listenerVars, suiteVars, handshakeVars, sqlVars, spdyVars,
                   htmlVars, tokensVars, textVars, packetsVars, socketsVars,
                   optionsVars, suffixesVars, atomsVars, idnaVars, proxyVars, dictVars,
                   negotiationVars, statementsVars, checksVars, library>>
    /\ WebSocketNext

HandshakeRuns ==
    /\ library = "handshake"
    /\ UNCHANGED <<ctxVars, listenerVars, suiteVars, webSocketVars, sqlVars, spdyVars,
                   htmlVars, tokensVars, textVars, packetsVars, socketsVars,
                   optionsVars, suffixesVars, atomsVars, idnaVars, proxyVars, dictVars,
                   negotiationVars, statementsVars, checksVars, library>>
    /\ HandshakeNext

SqlRuns ==
    /\ library = "gosqlite"
    /\ UNCHANGED <<ctxVars, listenerVars, suiteVars, webSocketVars, handshakeVars,
                   spdyVars, htmlVars, tokensVars, textVars, packetsVars, socketsVars,
                   optionsVars, suffixesVars, atomsVars, idnaVars, proxyVars, dictVars,
                   negotiationVars, statementsVars, checksVars, library>>
    /\ SqlNext

SpdyRuns ==
    /\ library = "spdy"
    /\ UNCHANGED <<ctxVars, listenerVars, suiteVars, webSocketVars, handshakeVars,
                   sqlVars, htmlVars, tokensVars, textVars, packetsVars, socketsVars,
                   optionsVars, suffixesVars, atomsVars, idnaVars, proxyVars, dictVars,
                   negotiationVars, statementsVars, checksVars, library>>
    /\ SpdyNext

HtmlRuns ==
    /\ library = "html"
    /\ UNCHANGED <<ctxVars, listenerVars, suiteVars, webSocketVars, handshakeVars,
                   sqlVars, spdyVars, tokensVars, textVars, packetsVars, socketsVars,
                   optionsVars, suffixesVars, atomsVars, idnaVars, proxyVars, dictVars,
                   negotiationVars, statementsVars, checksVars, library>>
    /\ HtmlNext

TokenizerRuns ==
    /\ library = "tokens"
    /\ UNCHANGED <<ctxVars, listenerVars, suiteVars, webSocketVars, handshakeVars,
                   sqlVars, spdyVars, htmlVars, textVars, packetsVars, socketsVars,
                   optionsVars, suffixesVars, atomsVars, idnaVars, proxyVars, dictVars,
                   negotiationVars, statementsVars, checksVars, library>>
    /\ Tokens!TokenizerNext

TextRuns ==
    /\ library = "text"
    /\ UNCHANGED <<ctxVars, listenerVars, suiteVars, webSocketVars, handshakeVars,
                   sqlVars, spdyVars, htmlVars, tokensVars, packetsVars, socketsVars,
                   optionsVars, suffixesVars, atomsVars, idnaVars, proxyVars, dictVars,
                   negotiationVars, statementsVars, checksVars, library>>
    /\ TextOps!TextNext

PacketRuns ==
    /\ library = "packets"
    /\ UNCHANGED <<ctxVars, listenerVars, suiteVars, webSocketVars, handshakeVars,
                   sqlVars, spdyVars, htmlVars, tokensVars, textVars, socketsVars,
                   optionsVars, suffixesVars, atomsVars, idnaVars, proxyVars, dictVars,
                   negotiationVars, statementsVars, checksVars, library>>
    /\ IpPacket!PacketNext

SocketRuns ==
    /\ library = "sockets"
    /\ UNCHANGED <<ctxVars, listenerVars, suiteVars, webSocketVars, handshakeVars,
                   sqlVars, spdyVars, htmlVars, tokensVars, textVars, packetsVars,
                   optionsVars, suffixesVars, atomsVars, idnaVars, proxyVars, dictVars,
                   negotiationVars, statementsVars, checksVars, library>>
    /\ IpSock!SocketNext

OptionRuns ==
    /\ library = "options"
    /\ UNCHANGED <<ctxVars, listenerVars, suiteVars, webSocketVars, handshakeVars,
                   sqlVars, spdyVars, htmlVars, tokensVars, textVars, packetsVars,
                   socketsVars, suffixesVars, atomsVars, idnaVars, proxyVars, dictVars,
                   negotiationVars, statementsVars, checksVars, library>>
    /\ IpOption!OptionNext

SuffixRuns ==
    /\ library = "suffixes"
    /\ UNCHANGED <<ctxVars, listenerVars, suiteVars, webSocketVars, handshakeVars,
                   sqlVars, spdyVars, htmlVars, tokensVars, textVars, packetsVars,
                   socketsVars, optionsVars, atomsVars, idnaVars, proxyVars, dictVars,
                   negotiationVars, statementsVars, checksVars, library>>
    /\ SuffixRules!SuffixNext

AtomRuns ==
    /\ library = "atoms"
    /\ UNCHANGED <<ctxVars, listenerVars, suiteVars, webSocketVars, handshakeVars,
                   sqlVars, spdyVars, htmlVars, tokensVars, textVars, packetsVars,
                   socketsVars, optionsVars, suffixesVars, idnaVars, proxyVars,
                   dictVars, negotiationVars, statementsVars, checksVars, library>>
    /\ Atoms!AtomNext

IdnaRuns ==
    /\ library = "idna"
    /\ UNCHANGED <<ctxVars, listenerVars, suiteVars, webSocketVars, handshakeVars,
                   sqlVars, spdyVars, htmlVars, tokensVars, textVars, packetsVars,
                   socketsVars, optionsVars, suffixesVars, atomsVars, proxyVars,
                   dictVars, negotiationVars, statementsVars, checksVars, library>>
    /\ Idn!IdnaNext

DialerRuns ==
    /\ library = "proxy"
    /\ UNCHANGED <<ctxVars, listenerVars, suiteVars, webSocketVars, handshakeVars,
                   sqlVars, spdyVars, htmlVars, tokensVars, textVars, packetsVars,
                   socketsVars, optionsVars, suffixesVars, atomsVars, idnaVars,
                   dictVars, negotiationVars, statementsVars, checksVars, library>>
    /\ Proxies!ProxyNext

DictRuns ==
    /\ library = "dict"
    /\ UNCHANGED <<ctxVars, listenerVars, suiteVars, webSocketVars, handshakeVars,
                   sqlVars, spdyVars, htmlVars, tokensVars, textVars, packetsVars,
                   socketsVars, optionsVars, suffixesVars, atomsVars, idnaVars,
                   proxyVars, negotiationVars, statementsVars, checksVars, library>>
    /\ Dictionary!DictNext

ChoiceRuns ==
    /\ library = "negotiation"
    /\ UNCHANGED <<ctxVars, listenerVars, suiteVars, webSocketVars, handshakeVars,
                   sqlVars, spdyVars, htmlVars, tokensVars, textVars, packetsVars,
                   socketsVars, optionsVars, suffixesVars, atomsVars, idnaVars,
                   proxyVars, dictVars, statementsVars, checksVars, library>>
    /\ Preferences!NegotiationNext

StatementRuns ==
    /\ library = "statements"
    /\ UNCHANGED <<ctxVars, listenerVars, suiteVars, webSocketVars, handshakeVars,
                   sqlVars, spdyVars, htmlVars, tokensVars, textVars, packetsVars,
                   socketsVars, optionsVars, suffixesVars, atomsVars, idnaVars,
                   proxyVars, dictVars, negotiationVars, checksVars, library>>
    /\ Statements!StmtNext

ChecksRuns ==
    /\ library = "checks"
    /\ UNCHANGED <<ctxVars, listenerVars, suiteVars, webSocketVars, handshakeVars,
                   sqlVars, spdyVars, htmlVars, tokensVars, textVars, packetsVars,
                   socketsVars, optionsVars, suffixesVars, atomsVars, idnaVars,
                   proxyVars, dictVars, negotiationVars, statementsVars, library>>
    /\ Checking!CheckNext

AllNext ==
    \/ ContextRuns
    \/ ListenerRuns
    \/ SuiteRuns
    \/ WebSocketRuns
    \/ HandshakeRuns
    \/ SqlRuns
    \/ SpdyRuns
    \/ HtmlRuns
    \/ TokenizerRuns
    \/ TextRuns
    \/ PacketRuns
    \/ SocketRuns
    \/ OptionRuns
    \/ SuffixRuns
    \/ AtomRuns
    \/ IdnaRuns
    \/ DialerRuns
    \/ DictRuns
    \/ ChoiceRuns
    \/ StatementRuns
    \/ ChecksRuns

AllSpec == AllInit /\ [][AllNext]_allVars

Symmetry == Permutations(Callers) \cup Permutations(Readers)

\* The type invariants of the modules.
GoTypeOK ==
    /\ ContextTypeOK /\ ListenerTypeOK /\ SuiteTypeOK
    /\ WebSocketTypeOK /\ SqlTypeOK /\ HtmlTypeOK

\* The properties of the modules that are instantiated: of the library that runs.

\* html/token.go: tokens are the bytes of the page, whatever the reads and the mistakes.
TokensAreRight == library = "tokens" => Tokens!TokensAreRight

\* ipv4, ipv6, internal/icmp: headers, payloads and messages come back as they were; the
\* control message that is read matches what the flags and the kernel agreed on; options
\* and groups are those last asked for.
PacketsAreRight ==
    /\ library = "packets" => IpPacket!PacketsAreKept
    /\ library = "sockets" => IpSock!SocketIsSound
    /\ library = "options" => IpOption!OptionsAreKept

\* proxy, dict, gosqlite's earlier API: a connection is handed out in step or closed, a host
\* goes past the proxy only by a rule, a caller reads the answer to its own command, and the
\* rows that are read are whole and come back as they were bound.
ConversationsAreSound ==
    /\ library = "proxy" => Proxies!DialsAreSound
    /\ library = "dict" => Dictionary!DefinitionsAreRight
    /\ library = "statements" => Statements!StatementsAreSound

\* gocheck's checkers, html (escape, newlines, doctype), publicsuffix, html/atom, idna, goautoneg,
\* html/charset: what the functions return is what their format asks for.
FunctionsAreRight ==
    /\ library = "checks" => Checking!ChecksAreSound
    /\ library = "text" => TextOps!TextIsRight
    /\ library = "suffixes" => SuffixRules!SuffixListIsRight
    /\ library = "atoms" => Atoms!AtomsAreRight
    /\ library = "idna" => Idn!DomainsAreKept
    /\ library = "negotiation" => Preferences!ChoicesAreRight
=============================================================================
