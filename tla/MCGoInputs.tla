----------------------------- MODULE MCGoInputs -----------------------------
(***************************************************************************)
(* What the Go libraries are given in MCGoLibraries: the constants of the  *)
(* modules that it instantiates.                                           *)
(***************************************************************************)
EXTENDS Integers, Sequences, SequencesExt, FiniteSetsExt

-----------------------------------------------------------------------------
(* html. *)

\* Bytes for the tokenizer, after a beginning that leads to the states they test.
Bytes(start, chars, left, chunk, rawTag) ==
    [start |-> start, chars |-> chars, left |-> left, chunk |-> chunk, rawTag |-> rawTag,
     cdata |-> TRUE]
Pages ==
    {Bytes(<<"<">>, {"<", "/", ">", " ", "a"}, 4, 1, "none"),
     Bytes(<<"<">>, {"/", ">", "t", "?", "1", "p", "s"}, 4, 1, "none"),
     Bytes(<<"<", "a">>, {"/", ">", " ", "=", "'", "Q", "1"}, 4, 1, "none"),
     Bytes(<<"a", "<", "a", " ", "a", "=", "1", " ">>, {">", " ", "=", "Q", "a"}, 4, 1, "none"),
     Bytes(<<"<", "!">>, {"-", ">", "D", "T", "[", "C", "!"}, 4, 1, "none"),
     Bytes(<<"<", "!", "D", "T">>, {">", " ", "<"}, 3, 1, "none"),
     Bytes(<<"<", "!", "-", "-">>, {"-", ">", "!", "a"}, 5, 1, "none"),
     Bytes(<<"<", "!", "[", "C">>, {"]", ">", "<"}, 5, 1, "none"),
     Bytes(<<"<", "!", "-", "-", ">", "<", "!">>, {"-", ">", "a", "D"}, 4, 1, "none"),
     Bytes(<<"<", "s", " ", "a", "=", "'", "<", "/", "s">>, {">", "'", "<", "/", "s"}, 5, 1, "none"),
     Bytes(<<>>, {"<", "/", ">", "t", " "}, 5, 2, "t"),
     Bytes(<<>>, {"<", "/", ">", "!", "-", "s"}, 5, 1, "s"),
     Bytes(<<"<", "!", "-", "-">>, {"<", "/", ">", "-", "s"}, 5, 2, "s"),
     Bytes(<<"<", "!", "-", "-", "<", "s", ">">>, {"<", "/", ">", "-", "s"}, 5, 2, "s")}

\* Arguments of the text functions.
Calls(op, attrs, start, chars, n) ==
    {[op |-> op, attr |-> a, b |-> start \o s, plain |-> <<>>] :
        a \in attrs, s \in BoundedSeq(chars, n)}
Texts ==
    Calls("unescape", BOOLEAN, <<"&", "l">>, {"t", "r", "i", ";", "="}, 4)
    \cup Calls("unescape", {TRUE}, <<"&", "b", "n">>, {"e", ";", "a", "&"}, 3)
    \cup Calls("unescape", {TRUE}, <<"&", "#">>, {"x", "1", "0", ";"}, 4)
    \cup Calls("unescape", {FALSE}, <<"&", "#", "1", "3">>, {"0", "9", ";"}, 6)
    \cup Calls("escape", BOOLEAN, <<>>, {"&", "<", "r", "l", "t"}, 3)
    \cup Calls("newlines", {FALSE}, <<>>, {"r", "N", "a"}, 4)
    \cup Calls("doctype", {FALSE}, <<"html", " ">>, {"public", " ", "Q", "'", "id"}, 4)
    \cup Calls("doctype", {FALSE}, <<"html", " ", "system", "Q">>, {"id", "Q", "'", " "}, 3)
    \cup Calls("doctype", {FALSE}, <<"html", " ", "public", "Q", "loose", "Q", " ">>,
               {"Q", "'", "ibm", "id", " "}, 4)
    \cup Calls("doctype", {FALSE}, <<>>, {"html", "HTML", " ", "system"}, 3)

-----------------------------------------------------------------------------
(* ipv4, ipv6 and internal/icmp. *)

IPHeader(opts, x, y, z) ==
    [version |-> 4, len |-> 20, tos |-> x % 256, totalLen |-> y, id |-> y, flags |-> z,
     fragOff |-> y % 8192, ttl |-> x % 256, protocol |-> x % 256, checksum |-> y,
     src |-> IF z = 0 THEN <<>> ELSE <<10, 0, x % 256, z>>, dst |-> <<x % 256, 1, 2, 3>>,
     options |-> opts]
Datagram(n, words) == [i \in 1..n |-> IF i = 1 THEN 64 + words ELSE i]
PseudoHeader == [i \in 1..40 |-> CASE i <= 16 -> 255 - i [] i = 40 -> 58 [] i \in 33..39 -> 0 [] OTHER -> 16 * i % 256]
Packets ==
    {[op |-> "header", os |-> os, h |-> IPHeader(o, x, y, z)] :
        os \in {"linux", "darwin", "freebsd10"}, o \in {<<>>, <<1, 2, 3, 4>>, [i \in 1..40 |-> i]},
        x \in {0, 1, 255}, y \in {0, 255, 256, 8191, 65000}, z \in {0, 2, 7}}
    \cup {[op |-> "raw", os |-> "linux", packet |-> Datagram(n, k), size |-> s] :
            n \in {19, 20, 24, 25}, k \in {5, 6}, s \in {19, 20, 23, 24, 30}}
    \cup {[op |-> "payload", packet |-> Datagram(n, k), size |-> s] :
            n \in {24, 26}, k \in {5, 6}, s \in {0, 1, 2, 6}}
    \cup {[op |-> "icmp", psh |-> IF f = 6 /\ p THEN PseudoHeader ELSE <<>>,
           m |-> [family |-> f, type |-> t, code |-> c,
                  body |-> IF (f = 4 /\ t \in {0, 8}) \/ (f = 6 /\ t \in {128, 129})
                           THEN [kind |-> "echo", id |-> 65535, seq |-> c, data |-> d]
                           ELSE [kind |-> "other", id |-> 0, seq |-> 0, data |-> d]]] :
            f \in {4, 6}, p \in BOOLEAN, t \in {0, 3, 129}, c \in {0, 255},
            d \in BoundedSeq({0, 255, 7}, 3)}
    \cup {[op |-> "control", system |-> s,
           cm |-> [trafficClass |-> t, hopLimit |-> h, src |-> a, ifIndex |-> i, nextHop |-> n]] :
            s \in {"linux4", "unix6", "oldDarwin6", "bsd4"}, t \in {0, 255}, h \in {0, 1},
            a \in {"none", "v4", "v6"}, i \in {0, 2}, n \in BOOLEAN}

Setters == {"s1", "s2"}
Requests == {{"TTL", "TrafficClass", "Dst"}, {"HopLimit", "Interface", "Src"}, {"TTL", "Interface"}}
Unlocked == "none"

Sockets ==
    {[system |-> s, conn |-> c, interfaces |-> l, option |-> o] :
        s \in {"linux4", "bsd4", "openbsd4", "freebsd10", "windows4", "linux6", "bsd6", "windows6", "plan9"},
        c \in {"tcp", "udp", "ip", "other", "nil"},
        l \in {<<<<"v6">>, <<"v6", "a">>, <<"b", "a2">>>>, <<<<"a">>, <<"a">>>>},
        o \in {"tos", "ttl", "multicastTTL", "loopback", "interface", "group", "trafficClass",
                "hopLimit", "multicastHopLimit", "checksum"}}
    \cup {[system |-> s, conn |-> "ip", interfaces |-> <<>>, option |-> "filter"] : s \in {"linux6", "bsd6"}}
Numbers == {0, 1, 255, 256}
Types6 == {0, 31, 32, 128, 255}

-----------------------------------------------------------------------------
(* publicsuffix, html/atom and idna.  Labels, names and runes are numbers. *)

L1 == <<1>>
L12 == <<1, 2>>
L23 == <<2, 3>>
L31 == <<3, 1>>
SuffixRule(kind, name, icann) == [kind |-> kind, name |-> name, icann |-> icann]
TheRules ==
    <<SuffixRule("normal", <<L1>>, TRUE), SuffixRule("normal", <<L12>>, FALSE),
      SuffixRule("wildcard", <<L1>>, TRUE), SuffixRule("exception", <<L1, L23>>, TRUE),
      SuffixRule("normal", <<L1, L31>>, FALSE), SuffixRule("wildcard", <<L12, L1>>, FALSE),
      SuffixRule("exception", <<L12, L1, L31>>, FALSE), SuffixRule("normal", <<L1, L31, L12>>, FALSE),
      SuffixRule("wildcard", <<L1, L31>>, FALSE)>>
RuleLists ==
    {<<TheRules[i], TheRules[j]>> : i, j \in 1..9}
    \cup {SubSeq(TheRules, i, i + n) : i \in 1..4, n \in {0, 3, 4}}
    \cup {TheRules, Reverse(TheRules)}
Domains == UNION {[1..n -> {L1, L12, L23, L31}] : n \in 1..3}

AskedInOrder == <<<<1>>, <<1, 2>>, <<1, 3>>, <<2>>, <<2, 3>>, <<3, 1>>>>
Asked == ToSet(AskedInOrder)
MaxTries == 2
MaxK == 2
\* Of each name the two halves of its hash.
Hash(low, m) ==
    [s \in Asked |->
        LET i == low[SelectInSeq(AskedInOrder, LAMBDA t : t = s)] IN <<i, (i * m) % 4>>]
AtomInputs ==
    {[names |-> Asked \ n, hashes |-> {Hash(low, 1), Hash(low, 3)}] :
        n \in {{<<1>>, <<3, 1>>}, {<<2>>, <<2, 3>>}}, low \in {l \in [1..6 -> 0..2] : l[1] = 0 /\ l[2] < 2}}

Conversion(phase, labels) == [phase |-> phase, labels |-> labels]
Ace == <<120, 110, 45, 45>> \* xn--
Conversions ==
    {Conversion("ascii", <<l>>) : l \in BoundedSeq({97, 45, 128, 252, 65536, 1114111}, 3)}
    \cup {Conversion("ascii", <<l, m>>) :
            l, m \in {<<97>>, <<252>>, Ace \o <<57>>, Ace, <<97, 8364>>}}
    \cup {Conversion("unicode", <<Ace \o l>>) : l \in BoundedSeq({97, 45, 57, 66, 43}, 4)}
    \cup {Conversion("unicode", <<Ace \o <<57, 57, 57>> \o l>>) : l \in BoundedSeq({97, 57, 122}, 4)}

-----------------------------------------------------------------------------
(* proxy and dict. *)

IPAddress(family, nets) == [family |-> family, nets |-> nets]
ThisIP == IPAddress(4, {"n2"})
ThisNoIP == [family |-> 0, nets |-> {}]
ProxyRule(kind, name) == [kind |-> kind, name |-> name, net |-> "n1", ip |-> IF kind = "ip" THEN ThisIP ELSE ThisNoIP]
ProxyRules ==
    {ProxyRule(k, <<>>) : k \in {"net", "ip", "bad"}}
    \cup {ProxyRule("zone", z) : z \in {<<".", "a">>, <<".", "b", ".", "a", ".">>}}
    \cup {ProxyRule("host", h) : h \in {<<"b">>, <<"c", ".", "a", ".">>}}
Hosts ==
    {[ip |-> i, name |-> <<>>] : i \in {IPAddress(4, {"n1"}), ThisIP, IPAddress(6, {})}}
    \cup {[ip |-> ThisNoIP, name |-> n] :
            n \in {<<"a">>, <<"c", ".", "a">>, <<"d", "a">>, <<"b", ".", "a">>, <<"b">>, <<"b", ".">>}}
Environments ==
    {[all |-> a, user |-> u, password |-> p, no |-> <<>>] :
        a \in {"", "unknown", "socks5"}, u \in {0, 3, 256}, p \in {0, 300}}
    \cup {[all |-> "socks5", user |-> 0, password |-> 0, no |-> n] : n \in [1..2 -> ProxyRules]}

DictCallers == {"c1", "c2", "c3"}
DictCommands == [c \in DictCallers |-> IF c = "c1" THEN "dicts" ELSE "define"]
Quoted(w, q) ==
    <<q>> \o FlattenSeq([i \in DOMAIN w |-> IF w[i] \in {q, "E"} THEN <<"E", w[i]>> ELSE <<w[i]>>]) \o <<q>>
Headers ==
    {[words |-> <<w, <<"y">>, <<"E">>>>, line |-> Quoted(w, "Q") \o <<" ", "y", " ", " ", "'", "E", "E", "'">>] :
        w \in {<<>>, <<"'", " ">>, <<"Q", "x">>}}
    \cup {[words |-> <<>>, line |-> l] : l \in {<<"x">>, <<"x", "'", "y", "'">>}}

-----------------------------------------------------------------------------
(* The earlier API of gosqlite. *)

Stmts == {"s1"}
ScanTypes == {"bytes", "bool", "int"}
Arguments ==
    {[type |-> "bool", value |-> "true"], [type |-> "bytes", value |-> "x"],
     [type |-> "int", value |-> "5"]}
MaxTable == 2
MaxPages == 2

-----------------------------------------------------------------------------
(* gocheck. *)

MaxCalls == 2
GoValue(kind, type, n) ==
    [kind |-> kind, type |-> type, nil |-> FALSE, id |-> 0, text |-> <<>>, says |-> "nothing",
     n |-> n, panics |-> <<>>]
GoString(s) == [GoValue("string", "string", Len(s)) EXCEPT !.text = s]
GoError(s, id) ==
    [GoValue("ptr", "*Error", 0) EXCEPT !.text = s, !.says = "error", !.id = id]
GoFunc(args, panics) == [GoValue("func", "func", args) EXCEPT !.panics = panics]
GoStringer(s) == [GoValue("ptr", "*T", 0) EXCEPT !.text = s, !.says = "string", !.id = 1]
Obtained ==
    {GoValue("invalid", "none", 0), [GoStringer(<<>>) EXCEPT !.nil = TRUE, !.id = 0],
     GoStringer(<<"a", "b">>), [GoValue("slice", "[]int", 0) EXCEPT !.nil = TRUE],
     GoValue("slice", "[]int", 0), GoValue("struct", "struct", 0), GoValue("int", "int", 2),
     GoString(<<"a", "b">>), GoString(<<"a">>), GoError(<<"a", "b">>, 1), GoFunc(1, <<>>),
     GoFunc(0, <<>>), GoFunc(0, <<GoString(<<"a", "b">>)>>), GoFunc(0, <<GoError(<<"a">>, 2)>>),
     GoFunc(0, <<GoValue("int", "int", 2)>>)}
Expected ==
    {GoValue("invalid", "none", 0), GoValue("int", "int", 0), GoValue("int", "int", 2),
     GoString(<<"a", "b">>), GoString(<<"a", "|", "c">>), GoString(<<"(">>), GoError(<<"a", "b">>, 2),
     GoError(<<"a", "b">>, 1), GoValue("slice", "[]int", 0), GoStringer(<<"a", "b">>),
     [GoValue("ifaceptr", "*error", 0) EXCEPT !.text = <<"error">>],
     [GoValue("ifaceptr", "*Stringer", 0) EXCEPT !.text = <<"string">>]}

-----------------------------------------------------------------------------
(* goautoneg and html/charset. *)

Part(range, params) == [range |-> range, params |-> params]
Parts ==
    {Part(r, ps) : r \in {<<"a", "b">>, <<"a", "c">>, <<"a", "*">>, <<"*">>, <<"a">>},
                   ps \in {<<>>, <<<<"q", 5>>>>, <<<<"q", 0>>, <<"x">>>>}}
ThePage(bom, metas, bytes) == [bom |-> bom, metas |-> metas, bytes |-> bytes]
MetaAttrs ==
    {<<"http-equiv", <<"content-type">>>>, <<"charset", <<" ", "koi8-r">>>>, <<"charset", <<"bad">>>>,
     <<"content", <<"x", ";", "charset", " ", "=", "Q", "latin1", "Q">>>>,
     <<"content", <<"charset", "charset", "=", "utf-16", ";", "x">>>>,
     <<"content", <<"charset", "=", "'", "latin1">>>>}
Questions ==
    {[op |-> "accept", header |-> h, alternatives |-> a] :
        h \in BoundedSeq(Parts, 3), a \in {<<<<"a", "b">>, <<"a", "c">>>>, <<<<"d", "b">>, <<"a", "c">>>>}}
    \cup {[op |-> "charset", page |-> ThePage("none", <<>>, s), contentType |-> <<>>] :
            s \in BoundedSeq({"a", "L", "M", "c"}, 5)}
    \cup {[op |-> "charset", page |-> ThePage(b, <<m, n>>, <<"L", "c", "a">>), contentType |-> c] :
            b \in {"none", "utf-16be"}, m \in BoundedSeq(MetaAttrs, 2), n \in {<<>>, <<<<"charset", <<"koi8-r">>>>>>},
            c \in {<<>>, <<"utf-8">>, <<"bad">>}}
=============================================================================
