---------------------------- MODULE ProxyDialer ----------------------------
(***************************************************************************)
(* Package proxy: FromEnvironment makes a dialer, PerHost chooses between  *)
(* it and a direct connection, and a SOCKS5 dialer talks to its proxy and  *)
(* leaves a connection that the proxy relays.  The proxy may answer what   *)
(* it likes and stop at any byte.  A host name is a sequence of "." and    *)
(* letters; an IP address a record with its family and its networks.       *)
(***************************************************************************)
EXTENDS Integers, Sequences, SequencesExt, FiniteSetsExt

CONSTANTS
    Environments, \* [all, user, password, no]: the proxy variables; no, a sequence of rules
    Hosts         \* that are dialed: [ip, name]; of ip or name, one is used

VARIABLES
    env,
    perHost, \* the rules, and how many of env.no are read
    dial,    \* the call: [pc, host, through, error]
    conn,    \* "none", "open" or "closed"
    messages, \* the messages to the proxy
    stream   \* the bytes that the proxy has sent and the client has not read

proxyVars == <<env, perHost, dial, conn, messages, stream>>

NoIP == [family |-> 0, nets |-> {}]
IsIP(host) == host.ip # NoIP

-----------------------------------------------------------------------------
(* proxy.go and per_host.go. *)

\* A variable that is empty, does not parse or names no scheme: a direct connection.
Dialer(e) ==
    IF e.all # "socks5" THEN "direct" ELSE IF e.no = <<>> THEN "socks5" ELSE "perHost"

Trimmed(name) ==
    IF name # <<>> /\ name[Len(name)] = "." THEN SubSeq(name, 1, Len(name) - 1) ELSE name
AsZone(name) == IF name # <<>> /\ name[1] = "." THEN name ELSE <<".">> \o name

\* A rule is [kind, name, ip, net]; one that is a bad network is dropped.
AddsRule ==
    /\ dial.pc = "idle"
    /\ Dialer(env) = "perHost"
    /\ perHost.read < Len(env.no)
    /\ LET r == env.no[perHost.read + 1] IN
       perHost' =
           [CASE r.kind = "net" -> [perHost EXCEPT !.nets = @ \cup {r.net}]
              [] r.kind = "ip" -> [perHost EXCEPT !.ips = @ \cup {r.ip}]
              [] r.kind = "zone" -> [perHost EXCEPT !.zones = @ \cup {AsZone(Trimmed(r.name))}]
              [] r.kind = "host" -> [perHost EXCEPT !.hosts = @ \cup {Trimmed(r.name)}]
              [] r.kind = "bad" -> perHost
            EXCEPT !.read = @ + 1]
    /\ UNCHANGED <<env, dial, conn, messages, stream>>

\* (a mistake, for the properties to find)
BugZone(name) ==
    \E z \in perHost.zones : IsSuffix(Tail(z), name)

InZone(name) == \E z \in perHost.zones : IsSuffix(z, name) \/ name = Tail(z)

DialerForRequest(host) ==
    IF IF IsIP(host) THEN host.ip.nets \cap perHost.nets # {} \/ host.ip \in perHost.ips
       ELSE InZone(host.name) \/ host.name \in perHost.hosts
    THEN "direct" ELSE "socks5"

Dials ==
    /\ dial.pc = "idle"
    /\ Dialer(env) = "perHost" => perHost.read = Len(env.no)
    /\ \E h \in Hosts :
        LET through == IF Dialer(env) = "perHost" THEN DialerForRequest(h) ELSE Dialer(env) IN
        dial' = [dial EXCEPT !.host = h, !.through = through,
                             !.pc = IF through = "direct" THEN "done" ELSE "forward"]
    /\ UNCHANGED <<env, perHost, conn, messages, stream>>

-----------------------------------------------------------------------------
(* socks5.go. *)

Version == 5
AuthNone == 0
AuthPassword == 2
NoMethod == 255
Errors == 9 \* texts that the code has; the first, of no error, is empty
AddressLength == [t \in {1, 4} |-> IF t = 1 THEN 4 ELSE 16]

\* (a mistake, for the properties to find)
BugLeaks ==
    /\ dial' = [dial EXCEPT !.pc = "done", !.error = TRUE]
    /\ UNCHANGED <<env, perHost, conn, messages, stream>>

\* Every return but the last closes the connection.
Fails ==
    /\ dial' = [dial EXCEPT !.pc = "done", !.error = TRUE]
    /\ conn' = "closed"
    /\ UNCHANGED <<env, perHost, messages, stream>>

Offers == env.user \in 1..255 /\ env.password < 256
Methods == IF Offers THEN <<AuthNone, AuthPassword>> ELSE <<AuthNone>>

\* forward.Dial, and the greeting; the address may be one that has no good port.
Forwards ==
    /\ dial.pc = "forward"
    /\ \/ /\ dial' = [dial EXCEPT !.pc = "done", !.error = TRUE]
          /\ UNCHANGED <<conn, messages>>
       \/ /\ conn' = "open"
          /\ dial' = [dial EXCEPT !.pc = "greet"]
          /\ UNCHANGED messages
    /\ UNCHANGED <<env, perHost, stream>>

Writes(pc, message) ==
    \/ Fails
    \/ /\ messages' = Append(messages, message)
       /\ dial' = [dial EXCEPT !.pc = pc]
       /\ UNCHANGED <<env, perHost, conn, stream>>

Greets ==
    /\ dial.pc = "greet"
    /\ Writes("greeting", <<Version, Len(Methods)>> \o Methods)

\* io.ReadFull, once the proxy has sent the bytes; then the step may use them.
Has(n) == Len(stream) >= n
Took(n) == stream' = SubSeq(stream, n + 1, Len(stream))

\* A message of the proxy that does not come whole.
IsCutOff ==
    /\ dial.pc \in {"greeting", "status", "reply", "length", "address", "port"}
    /\ Fails

ReadsGreeting ==
    /\ dial.pc = "greeting"
    /\ Has(2)
    /\ IF stream[1] # Version \/ stream[2] = NoMethod THEN Fails
       ELSE /\ Took(2)
            /\ dial' = [dial EXCEPT !.pc = IF stream[2] = AuthPassword THEN "password" ELSE "connect"]
            /\ UNCHANGED <<env, perHost, conn, messages>>

\* The lengths are bytes.
SendsPassword ==
    /\ dial.pc = "password"
    /\ Writes("status", <<1, env.user % 256, env.user, env.password % 256, env.password>>)

ReadsStatus ==
    /\ dial.pc = "status"
    /\ Has(2)
    /\ IF stream[2] # 0 THEN Fails
       ELSE /\ Took(2)
            /\ dial' = [dial EXCEPT !.pc = "connect"]
            /\ UNCHANGED <<env, perHost, conn, messages>>

HostBytes(host) ==
    CASE host.ip.family = 4 -> <<1>>
      [] host.ip.family = 6 -> <<4>>
      [] OTHER -> <<3, Len(host.name)>>

Connects ==
    /\ dial.pc = "connect"
    /\ IF ~IsIP(dial.host) /\ Len(dial.host.name) > 255 THEN Fails
       ELSE Writes("reply", <<Version, 1, 0>> \o HostBytes(dial.host))

ReadsReply ==
    /\ dial.pc = "reply"
    /\ Has(4)
    /\ IF stream[2] # 0 \/ stream[4] \notin {1, 3, 4} THEN Fails
       ELSE /\ Took(4)
            /\ dial' = IF stream[4] = 3 THEN [dial EXCEPT !.pc = "length"]
                       ELSE [dial EXCEPT !.pc = "address", !.discard = AddressLength[stream[4]]]
            /\ UNCHANGED <<env, perHost, conn, messages>>

ReadsLength ==
    /\ dial.pc = "length"
    /\ Has(1)
    /\ Took(1)
    /\ dial' = [dial EXCEPT !.pc = "address", !.discard = stream[1]]
    /\ UNCHANGED <<env, perHost, conn, messages>>

DiscardsAddress ==
    /\ dial.pc = "address"
    /\ Has(dial.discard)
    /\ Took(dial.discard)
    /\ dial' = [dial EXCEPT !.pc = "port"]
    /\ UNCHANGED <<env, perHost, conn, messages>>

DiscardsPort ==
    /\ dial.pc = "port"
    /\ Has(2)
    /\ Took(2)
    /\ dial' = [dial EXCEPT !.pc = "done"]
    /\ UNCHANGED <<env, perHost, conn, messages>>

-----------------------------------------------------------------------------
(* The proxy (not in the repository). *)

Relayed == "data" \* what the other end sends, once it is connected
Bytes(n) == [i \in 1..n |-> 7]
Replies ==
    {<<Version, 0, 0, 1>> \o Bytes(4) \o Bytes(2), <<Version, 0, 0, 4>> \o Bytes(16) \o Bytes(2),
     <<Version, 0, 0, 3, 0>> \o Bytes(2), <<Version, 0, 0, 3, 3>> \o Bytes(3) \o Bytes(2)}

Awaited == stream = <<>> /\ dial.answered < Len(messages)
ProxySends(bytes) ==
    /\ stream' = bytes
    /\ dial' = [dial EXCEPT !.answered = Len(messages)]
    /\ UNCHANGED <<env, perHost, conn, messages>>

ProxyAnswers ==
    /\ Awaited
    /\ \/ /\ dial.pc = "greeting"
          /\ \E v \in {4, Version}, m \in {AuthNone, AuthPassword, NoMethod} : ProxySends(<<v, m>>)
       \/ /\ dial.pc = "status"
          /\ \E s \in {0, 1} : ProxySends(<<1, s>>)
       \/ /\ dial.pc = "reply"
          /\ \/ \E r \in Replies : ProxySends(r \o <<Relayed>>)
             \/ \E e \in {1, Errors}, t \in {1, 9} : ProxySends(<<Version, e, 0, t>>)
             \/ ProxySends(<<Version, 0, 0, 9>>)

-----------------------------------------------------------------------------

DialerOver == dial.pc = "done" /\ UNCHANGED proxyVars

ProxyNext ==
    \/ AddsRule \/ Dials
    \/ Forwards \/ Greets \/ IsCutOff \/ ReadsGreeting \/ SendsPassword \/ ReadsStatus
    \/ Connects \/ ReadsReply \/ ReadsLength \/ DiscardsAddress \/ DiscardsPort
    \/ ProxyAnswers \/ DialerOver

ProxyInit ==
    /\ env \in Environments
    /\ perHost = [read |-> 0, nets |-> {}, ips |-> {}, zones |-> {}, hosts |-> {}]
    /\ dial = [pc |-> "idle", host |-> [ip |-> NoIP, name |-> <<>>], through |-> "none",
               error |-> FALSE, discard |-> 0, answered |-> 0]
    /\ conn = "none"
    /\ messages = <<>>
    /\ stream = <<>>

ProxySpec == ProxyInit /\ [][ProxyNext]_proxyVars

-----------------------------------------------------------------------------
(* Properties. *)

\* Dial (socks5.go): a connection is handed out or closed; the one that is handed out
\* has nothing to read but what the other end sent; and the password goes whole to a
\* proxy that took it from the methods it was offered.
DialIsClean ==
    dial.pc = "done" /\ dial.through = "socks5" =>
        /\ dial.error => conn \in {"none", "closed"}
        /\ ~dial.error => conn = "open" /\ stream = <<Relayed>>
        /\ \A i \in DOMAIN messages :
                messages[i][1] = 1 /\ Offers => messages[i][2] = messages[i][3] /\ messages[i][4] = messages[i][5]

\* What a rule of no_proxy says of a host, without what AddFromString makes of it.
Exempts(r, host) ==
    CASE r.kind = "net" -> IsIP(host) /\ r.net \in host.ip.nets
      [] r.kind = "ip" -> r.ip = host.ip
      [] r.kind = "zone" ->
            LET base == Trimmed(IF r.name[1] = "." THEN Tail(r.name) ELSE r.name)
            IN ~IsIP(host) /\ (host.name = base \/ IsSuffix(<<".">> \o base, host.name))
      [] r.kind = "host" -> ~IsIP(host) /\ host.name = Trimmed(r.name)
      [] r.kind = "bad" -> FALSE

\* dialerForRequest (per_host.go): a host goes past the proxy if and only if some rule
\* exempts it.
HostIsRouted ==
    dial.pc # "idle" /\ Dialer(env) = "perHost" =>
        (dial.through = "direct") = (\E i \in DOMAIN env.no : Exempts(env.no[i], dial.host))

DialsAreSound == DialIsClean /\ HostIsRouted
=============================================================================
