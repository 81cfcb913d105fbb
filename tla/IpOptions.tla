------------------------------ MODULE IpOptions ------------------------------
(***************************************************************************)
(* The socket options of packages ipv4 and ipv6, set and read back: what a *)
(* setter hands to the kernel, in the type that the option has on the      *)
(* system the program was built for, and what the getter makes of it.  A   *)
(* behaviour is a series of calls about one option.                        *)
(***************************************************************************)
EXTENDS Integers, Sequences, FiniteSets, Functions

CONSTANTS
    Sockets, \* [system, conn, interfaces, option] to look at
    Numbers, \* to set an option to
    Types6   \* of ICMP, to filter

VARIABLES
    socket, \* the connection, the interfaces of the machine and the option
    kernel, \* what the kernel holds: <<>>, its default, or <<value>>
    asked,  \* likewise, by the last call that changed it (of groups and filters: by all)
    last    \* call, and its answer

optionVars == <<socket, kernel, asked, last>>

Unset == <<>>
NoInterface == 0 \* a nil *net.Interface
NoAddress == "0.0.0.0"

\* How an option is handed over, by system; one that has no entry is not supported.
Linux4 ==
    [tos |-> "int", ttl |-> "int", multicastTTL |-> "int", loopback |-> "int",
     interface |-> "mreqn", group |-> "mreqn"]
BSD4 ==
    [tos |-> "int", ttl |-> "int", multicastTTL |-> "byte", loopback |-> "int",
     interface |-> "address", group |-> "mreq"]
OpenBSD4 == [BSD4 EXCEPT !.loopback = "byte"]
FreeBSD10 == [BSD4 EXCEPT !.interface = "mreqn"]
Windows4 == [BSD4 EXCEPT !.multicastTTL = "int"]
Unix6 ==
    [trafficClass |-> "int", hopLimit |-> "int", multicastHopLimit |-> "int",
     loopback |-> "int", interface |-> "index", group |-> "index", checksum |-> "checksum",
     filter |-> "filter"]
Windows6 == [o \in DOMAIN Unix6 \ {"trafficClass", "checksum", "filter"} |-> Unix6[o]]
NoOptions == <<>>

Types ==
    [linux4 |-> Linux4, bsd4 |-> BSD4, openbsd4 |-> OpenBSD4, freebsd10 |-> FreeBSD10,
     windows4 |-> Windows4, linux6 |-> Unix6, bsd6 |-> Unix6, windows6 |-> Windows6, plan9 |-> NoOptions]
Supports == socket.option \in DOMAIN Types[socket.system]
Type == IF Supports THEN Types[socket.system][socket.option] ELSE "none"
Family == IF socket.system \in {"linux6", "bsd6", "windows6"} THEN 6 ELSE 4

-----------------------------------------------------------------------------
(* What every call begins with. *)

Generic == {"tos", "ttl", "trafficClass", "hopLimit"}

\* Methods of genericOpt take any connection of the Internet, those of dgramOpt
\* only datagrams.
Descriptor ==
    IF socket.conn = "nil" THEN "EINVAL"
    ELSE IF socket.system = "plan9" THEN "not supported"
    ELSE IF socket.conn \in {"udp", "ip"} \cup (IF socket.option \in Generic THEN {"tcp"} ELSE {})
         THEN "nil" ELSE "invalid conn type"

Reaches == IF Descriptor # "nil" THEN Descriptor ELSE IF Supports THEN "nil" ELSE "not supported"

\* setsockopt: the system may refuse what it likes (external).
Call(op, arg, error, value) == last' = [op |-> op, arg |-> arg, err |-> error, value |-> value]
Fails(op, arg, error) == Call(op, arg, error, <<>>) /\ UNCHANGED <<socket, kernel, asked>>
SystemRefuses(op, arg) == Fails(op, arg, "errno")

-----------------------------------------------------------------------------
(* Numbers. *)

\* (mistakes, for the properties to find)
BugBits(f, typ, block) == f \cup {<<typ \div 32, typ % 32>>}

boolint(b) == IF b THEN 1 ELSE 0
IsOn(v) == v = 1
ToKernel(v) == IF Type = "byte" THEN v % 256 ELSE v

SetInt(v) ==
    /\ socket.option \notin {"interface", "group", "checksum", "filter"}
    /\ LET i == IF socket.option = "loopback" THEN boolint(v) ELSE v IN
       IF Reaches # "nil" THEN Fails("set", v, Reaches)
       ELSE \/ Call("set", v, "nil", <<>>) /\ kernel' = <<ToKernel(i)>> /\ asked' = <<v>> /\ UNCHANGED socket
            \/ SystemRefuses("set", v)

GetInt ==
    /\ socket.option \notin {"interface", "group", "checksum", "filter"}
    /\ IF Reaches # "nil" THEN Fails("get", <<>>, Reaches)
       ELSE /\ Call("get", <<>>, "nil",
                    IF kernel # Unset /\ socket.option = "loopback" THEN <<IsOn(kernel[1])>> ELSE kernel)
            /\ UNCHANGED <<socket, kernel, asked>>

\* Off is an offset of -1.
SetChecksum(on, offset) ==
    /\ socket.option = "checksum"
    /\ IF Reaches # "nil" THEN Fails("set", <<on, offset>>, Reaches)
       ELSE \/ /\ Call("set", <<on, offset>>, "nil", <<>>)
               /\ kernel' = <<IF on THEN offset ELSE -1>>
               /\ asked' = <<<<on, offset>>>>
               /\ UNCHANGED socket
            \/ SystemRefuses("set", <<on, offset>>)

GetChecksum ==
    /\ socket.option = "checksum"
    /\ IF Reaches # "nil" THEN Fails("get", <<>>, Reaches)
       ELSE /\ Call("get", <<>>, "nil", IF kernel = Unset THEN Unset ELSE <<<<kernel[1] # -1, kernel[1]>>>>)
            /\ UNCHANGED <<socket, kernel, asked>>

-----------------------------------------------------------------------------
(* Interfaces: the i-th has index i, and addresses. *)

Interfaces == DOMAIN socket.interfaces
IsV4(a) == a # "v6"
AddressesOf(i) == {a \in DOMAIN socket.interfaces[i] : IsV4(socket.interfaces[i][a])}
First(S) == CHOOSE x \in S : \A y \in S : x <= y

\* The IPv4 address that stands for an interface.
netInterfaceToIP4(i) ==
    IF i = NoInterface THEN NoAddress
    ELSE IF AddressesOf(i) = {} THEN "no such interface"
    ELSE socket.interfaces[i][First(AddressesOf(i))]

\* The interfaces with an address: the first of them is the one.
Having(a) == {i \in Interfaces : a \in Range(socket.interfaces[i])}
netIP4ToInterface(a) == First(Having(a))

ToIndex(i) == i
ByAddress == Type \in {"address", "mreq"}
Handle(i) == IF ByAddress THEN netInterfaceToIP4(i) ELSE ToIndex(i)
HasHandle(i) == i = NoInterface \/ ~ByAddress \/ AddressesOf(i) # {}

SetMulticastInterface(i) ==
    /\ socket.option = "interface"
    /\ IF Reaches # "nil" THEN Fails("set", i, Reaches)
       ELSE IF ~HasHandle(i) THEN Fails("set", i, "no such interface")
       ELSE \/ Call("set", i, "nil", <<>>) /\ kernel' = <<Handle(i)>> /\ asked' = <<i>> /\ UNCHANGED socket
            \/ SystemRefuses("set", i)

MulticastInterface ==
    /\ socket.option = "interface"
    /\ IF Reaches # "nil" THEN Fails("get", <<>>, Reaches)
       ELSE /\ kernel # Unset
            /\ IF ByAddress /\ Having(kernel[1]) = {} THEN Fails("get", <<>>, "no such interface")
               ELSE /\ Call("get", <<>>, "nil",
                            IF ByAddress THEN <<netIP4ToInterface(kernel[1])>> ELSE kernel)
                    /\ UNCHANGED <<socket, kernel, asked>>

-----------------------------------------------------------------------------
(* Groups.  The kernel (external) has a member once, and knows it by the handle. *)

Members == kernel[1]

ChangesGroup(op, i, group) ==
    /\ socket.option = "group"
    /\ IF Reaches \in {"EINVAL", "invalid conn type"} \/ socket.system = "plan9"
       THEN Fails(op, <<i, group>>, Reaches)
       ELSE IF group # Family THEN Fails(op, <<i, group>>, "missing address")
       ELSE IF ~HasHandle(i) THEN Fails(op, <<i, group>>, "no such interface")
       ELSE IF (op = "join") = (Handle(i) \in Members) THEN Fails(op, <<i, group>>, "errno")
       ELSE /\ Call(op, <<i, group>>, "nil", <<>>)
            /\ kernel' = <<IF op = "join" THEN Members \cup {Handle(i)} ELSE Members \ {Handle(i)}>>
            /\ asked' = <<IF op = "join" THEN asked[1] \cup {i} ELSE asked[1] \ {i}>>
            /\ UNCHANGED socket

JoinGroup(i, group) == ChangesGroup("join", i, group)
LeaveGroup(i, group) == ChangesGroup("leave", i, group)

-----------------------------------------------------------------------------
(* An ICMP filter: eight words of bits.  On Linux a bit that is set blocks, *)
(* on the BSDs it passes.                                                   *)

BitOf(typ) == <<typ \div 32, typ % 32>>
AllBits == (0..7) \X (0..31)
SetBSD(f, typ, block) == IF block THEN f \ {BitOf(typ)} ELSE f \cup {BitOf(typ)}
SetLinux(f, typ, block) == IF block THEN f \cup {BitOf(typ)} ELSE f \ {BitOf(typ)}
SetAllBSD(block) == IF block THEN {} ELSE AllBits
SetAllLinux(block) == IF block THEN AllBits ELSE {}
WillBlockBSD(f, typ) == BitOf(typ) \notin f
WillBlockLinux(f, typ) == BitOf(typ) \in f

LinuxFilter == socket.system = "linux6"
Filter == kernel[1]

FilterSet(typ, block) ==
    /\ socket.option = "filter"
    /\ kernel' = <<IF LinuxFilter THEN SetLinux(Filter, typ, block) ELSE SetBSD(Filter, typ, block)>>
    /\ asked' = [asked EXCEPT ![1][typ] = block]
    /\ Call("set", <<typ, block>>, "nil", <<>>)
    /\ UNCHANGED socket

FilterSetAll(block) ==
    /\ socket.option = "filter"
    /\ kernel' = <<IF LinuxFilter THEN SetAllLinux(block) ELSE SetAllBSD(block)>>
    /\ asked' = <<[t \in Types6 |-> block]>>
    /\ Call("set", block, "nil", <<>>)
    /\ UNCHANGED socket

WillBlock(typ) == IF LinuxFilter THEN WillBlockLinux(Filter, typ) ELSE WillBlockBSD(Filter, typ)

-----------------------------------------------------------------------------

Values == IF socket.option = "loopback" THEN BOOLEAN ELSE Numbers

OptionNext ==
    \/ \E v \in Values : SetInt(v)
    \/ GetInt
    \/ \E on \in BOOLEAN, offset \in {0, 2} : SetChecksum(on, offset)
    \/ GetChecksum
    \/ \E i \in {NoInterface} \cup Interfaces : SetMulticastInterface(i)
    \/ MulticastInterface
    \/ \E i \in {NoInterface} \cup Interfaces, group \in {4, 6} :
          JoinGroup(i, group) \/ LeaveGroup(i, group)
    \/ \E typ \in Types6, block \in BOOLEAN : FilterSet(typ, block)
    \/ \E block \in BOOLEAN : FilterSetAll(block)

OptionInit ==
    /\ socket \in Sockets
    /\ kernel = IF socket.option \in {"group", "filter"} THEN <<{}>> ELSE Unset
    /\ asked = IF socket.option = "filter" THEN <<[t \in Types6 |-> ~LinuxFilter]>> ELSE kernel
    /\ last = [op |-> "none", arg |-> <<>>, err |-> "nil", value |-> <<>>]

OptionSpec == OptionInit /\ [][OptionNext]_optionVars

-----------------------------------------------------------------------------
(* Properties. *)

\* The address that stands for an interface belongs to no other.
OwnAddresses ==
    \A i, j \in Interfaces :
        i # j /\ AddressesOf(i) # {} =>
            \A k \in DOMAIN socket.interfaces[j] : socket.interfaces[j][k] # netInterfaceToIP4(i)

\* The getters and setters (sockopt_unix.go, sockopt_asmreq.go, sockopt_rfc3493_unix.go):
\* what was set is read back, a number in the range of its type, an interface when
\* its address is its own; only "no interface" cannot be read back by address.
OptionIsKept ==
    last.op = "get" /\ asked # Unset /\ Reaches = "nil" =>
        CASE Type = "int" \/ socket.option = "loopback" -> last.value = asked
          [] Type = "byte" /\ socket.option # "loopback" ->
                asked[1] \in 0..255 => last.value = asked
          [] Type = "checksum" ->
                last.value[1] = <<asked[1][1], IF asked[1][1] THEN asked[1][2] ELSE -1>>
          [] Type \in {"index", "mreqn"} -> last.value = asked
          [] Type = "address" /\ asked[1] = NoInterface -> last.err = "no such interface"
          [] Type = "address" /\ asked[1] # NoInterface /\ OwnAddresses -> last.value = asked
          [] OTHER -> TRUE

\* JoinGroup, LeaveGroup (dgramopt_posix.go): one interface's membership is not taken
\* for another's, when their addresses are their own.
GroupsAreApart ==
    socket.option = "group" /\ (ByAddress => OwnAddresses) =>
        /\ Cardinality(Members) = Cardinality(asked[1])
        /\ \A i \in asked[1] : Handle(i) \in Members

\* ICMPFilter (icmp_linux.go, icmp_bsd.go): WillBlock tells of every type what was
\* last said about it, whichever way round the bits are.
FilterIsKept ==
    socket.option = "filter" => \A typ \in Types6 : WillBlock(typ) = asked[1][typ]

OptionsAreKept == OptionIsKept /\ GroupsAreApart /\ FilterIsKept
=============================================================================
