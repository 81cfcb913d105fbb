------------------------------ MODULE IpPackets -----------------------------
(***************************************************************************)
(* The packets of package ipv4 and of internal/icmp as bytes: the header   *)
(* of an IPv4 packet (Marshal, ParseHeader), what ReadFrom makes of a      *)
(* packet that was received, and ICMP messages with their checksum.  Every *)
(* task is one call, or a call and its inverse.                            *)
(***************************************************************************)
EXTENDS Integers, Sequences, SequencesExt, FiniteSetsExt

CONSTANT Packets \* the tasks

VARIABLES
    task,  \* what is asked
    answer \* <<>> until the call returns

packetVars == <<task, answer>>

HeaderLen == 20
MaxHeaderLen == 60
Nil == <<>> \* net.IP
Result(err, value) == [err |-> err, value |-> value]

-----------------------------------------------------------------------------
(* Bytes. *)

Byte(x) == x % 256
Word16(x) == <<Byte(x \div 256), Byte(x)>>
Host16(x) == <<Byte(x), Byte(x \div 256)>> \* the build is for a little-endian machine
Number(b) == 256 * b[1] + b[2]
At(b, pos) == SubSeq(b, pos + 1, pos + 2)
Take(s, n) == SubSeq(s, 1, IF n < Len(s) THEN n ELSE Len(s))
Drop(s, n) == SubSeq(s, n + 1, Len(s))

\* Linux and OpenBSD take and give the packet as it is on the wire.
SupportsNewIPInput(os) == os \in {"linux", "openbsd"}
Order(os, x) == IF SupportsNewIPInput(os) THEN Word16(x) ELSE Host16(x)
Ordered(os, b) == IF SupportsNewIPInput(os) THEN Number(b) ELSE Number(Reverse(b))

-----------------------------------------------------------------------------
(* The header of an IPv4 packet. *)

\* (mistakes, for the properties to find)
BugLength(h) == h.len
BugOddByte(b) ==
    FoldSeq(LAMBDA x, y : x + y, 0, [i \in 1..Len(b) \div 2 |-> 256 * b[2 * i] + b[2 * i - 1]])

\* The length that the header says is that of its options, not h.len.
HeaderLength(h) == HeaderLen + Len(h.options)

FlagsAndFragOff(h) == (h.fragOff % 8192) + 8192 * h.flags

Marshal(os, h) ==
    IF h.len < HeaderLen THEN Result("header too short", <<>>)
    ELSE IF h.dst = Nil THEN Result("missing address", <<>>)
    ELSE Result("nil",
            <<64 + ((HeaderLength(h) \div 4) % 16), Byte(h.tos)>> \o Order(os, h.totalLen)
            \o Word16(h.id) \o Order(os, FlagsAndFragOff(h))
            \o <<Byte(h.ttl), Byte(h.protocol)>> \o Word16(h.checksum)
            \o (IF h.src = Nil THEN <<0, 0, 0, 0>> ELSE h.src) \o h.dst \o h.options)

\* The kernel of the BSDs, but for FreeBSD 10, takes the header off the length.
TotalLength(os, b, hdrlen) ==
    Ordered(os, At(b, 2)) + (IF SupportsNewIPInput(os) \/ os = "freebsd10" THEN 0 ELSE hdrlen)

LengthIn(b) == 4 * (b[1] % 16)

ParseHeader(os, b) ==
    IF Len(b) < HeaderLen THEN Result("header too short", <<>>)
    ELSE IF LengthIn(b) > Len(b) THEN Result("buffer too short", <<>>)
    ELSE LET off == Ordered(os, At(b, 6)) IN
         Result("nil",
            [version |-> b[1] \div 16, len |-> LengthIn(b), tos |-> b[2],
             totalLen |-> TotalLength(os, b, LengthIn(b)), id |-> Number(At(b, 4)),
             flags |-> off \div 8192, fragOff |-> off % 8192, ttl |-> b[9],
             protocol |-> b[10], checksum |-> Number(At(b, 10)),
             src |-> SubSeq(b, 13, 16), dst |-> SubSeq(b, 17, 20),
             options |-> SubSeq(b, 21, LengthIn(b))])

\* What RawConn.ReadFrom gets of a packet, through a buffer of some size.
\* (It slices before it parses: a header that does not fit is a panic.)
SlicePacket(b) ==
    IF Len(b) < HeaderLen THEN Result("header too short", <<>>)
    ELSE IF LengthIn(b) > Len(b) THEN Result("panic", <<>>)
    ELSE Result("nil", [h |-> Take(b, LengthIn(b)), p |-> Drop(b, LengthIn(b))])

ReadFromRaw(os, packet, size) ==
    LET s == SlicePacket(Take(packet, size)) IN
    IF s.err # "nil" THEN s
    ELSE LET h == ParseHeader(os, s.value.h) IN
         IF h.err # "nil" THEN h ELSE Result("nil", [h |-> h.value, p |-> s.value.p])

\* PacketConn.ReadFrom of an IPConn reads the header too, into a buffer of its
\* own, and takes it off.
ReadFromPayload(packet, size) ==
    LET nb == Take(packet, MaxHeaderLen + size) IN
    Result("nil", [n |-> Len(nb) - LengthIn(nb), b |-> Take(Drop(nb, LengthIn(nb)), size)])

-----------------------------------------------------------------------------
(* ICMP messages. *)

EchoTypes(family) == IF family = 4 THEN {0, 8} ELSE {128, 129}
Echo(id, seq, data) == [kind |-> "echo", id |-> id, seq |-> seq, data |-> data]
Other(data) == [kind |-> "other", id |-> 0, seq |-> 0, data |-> data]

MarshalBody(body) ==
    (IF body.kind = "echo" THEN Word16(body.id) \o Word16(body.seq) ELSE <<>>) \o body.data

ParseEcho(b) ==
    IF Len(b) < 4 THEN Result("message too short", <<>>)
    ELSE Result("nil", Echo(Number(b), Number(At(b, 2)), Drop(b, 4)))

IPv6PseudoHeader(src, dst) == src \o dst \o <<0, 0, 0, 0, 0, 0, 0, 58>>

\* The sum of the pairs of bytes, the second of a pair as the high one.
SumOfPairs(b) ==
    FoldSeq(LAMBDA x, y : x + y, 0, [i \in 1..Len(b) \div 2 |-> 256 * b[2 * i] + b[2 * i - 1]])
    + (IF Len(b) % 2 = 1 THEN b[Len(b)] ELSE 0)
Checksum(b) ==
    LET s == SumOfPairs(b)
        t == (s \div 65536) + (s % 65536)
        u == t + (t \div 65536)
    IN <<255 - Byte(u), 255 - Byte(u \div 256)>>

\* Of an ICMPv6 message without a pseudo header there is no checksum.
MarshalMessage(m, psh) ==
    LET b == <<m.type, m.code, 0, 0>> \o MarshalBody(m.body)
        len == <<0, 0>> \o Word16(Len(b))
        covered == IF psh = Nil THEN b ELSE Take(psh, 32) \o len \o Drop(psh, 36) \o b
        sum == Checksum(covered)
    IN IF m.family = 6 /\ psh = Nil THEN b ELSE Take(b, 2) \o sum \o Drop(b, 4)

ParseMessage(family, b) ==
    IF Len(b) < 4 THEN Result("message too short", <<>>)
    ELSE LET body == IF b[1] \in EchoTypes(family) THEN ParseEcho(Drop(b, 4))
                     ELSE Result("nil", Other(Drop(b, 4)))
         IN IF body.err # "nil" THEN body
            ELSE Result("nil", [family |-> family, type |-> b[1], code |-> b[2],
                                checksum |-> Number(At(b, 2)), body |-> body.value])

-----------------------------------------------------------------------------
(* The control message of WriteTo: messages of a number of words each, put  *)
(* into a buffer whose length is computed before.                           *)

AsksPacketInfo4(cm) == cm.src = "v4" \/ cm.ifIndex # 0
AsksPacketInfo6(cm) == cm.src = "v6" \/ cm.ifIndex # 0
Part(asked, option, words, value) ==
    IF asked THEN <<[option |-> option, words |-> words, value |-> value]>> ELSE <<>>

PacketInfo(cm, family) == [src |-> IF cm.src = family THEN cm.src ELSE "none", ifIndex |-> cm.ifIndex]

MarshalPacketInfo4(cm) == Part(AsksPacketInfo4(cm), "pktinfo", 4, PacketInfo(cm, "v4"))
Marshal2292(cm) ==
    Part(cm.hopLimit > 0, "hoplimit", 3, Byte(cm.hopLimit))
    \o Part(AsksPacketInfo6(cm), "pktinfo", 5, PacketInfo(cm, "v6"))
    \o Part(cm.nextHop, "nexthop", 6, cm.ifIndex)
Marshal3542(cm) ==
    Part(cm.trafficClass > 0, "tclass", 3, Byte(cm.trafficClass)) \o Marshal2292(cm)

\* (IP_RECVDSTADDR and IP_RECVIF are for receiving only.)
MarshalControlMessage(system, cm) ==
    CASE system = "linux4" -> MarshalPacketInfo4(cm)
      [] system = "unix6" -> Marshal3542(cm)
      [] system = "oldDarwin6" -> Marshal2292(cm)
      [] OTHER -> <<>>

-----------------------------------------------------------------------------
(* One call. *)

Answers(op, value) ==
    /\ answer = <<>>
    /\ task.op = op
    /\ answer' = <<value>>
    /\ UNCHANGED task

MarshalsHeader == Answers("header", Marshal(task.os, task.h))
ReadsRaw == Answers("raw", ReadFromRaw(task.os, task.packet, task.size))
ReadsPayload == Answers("payload", ReadFromPayload(task.packet, task.size))
MarshalsMessage == Answers("icmp", MarshalMessage(task.m, task.psh))
MarshalsControl == Answers("control", MarshalControlMessage(task.system, task.cm))
PacketOver == answer # <<>> /\ UNCHANGED packetVars

PacketNext == MarshalsHeader \/ ReadsRaw \/ ReadsPayload \/ MarshalsMessage
              \/ MarshalsControl \/ PacketOver

PacketInit == task \in Packets /\ answer = <<>>

PacketSpec == PacketInit /\ [][PacketNext]_packetVars

-----------------------------------------------------------------------------
(* Properties. *)

Done(op) == task.op = op /\ answer # <<>>

\* Marshal (header.go): what it writes, ParseHeader reads back; where the kernel
\* takes the header off the length, the two differ by just that.
HeaderIsKept ==
    Done("header") /\ answer[1].err = "nil" =>
        LET h == task.h
            r == ParseHeader(task.os, answer[1].value)
            taken == IF task.os = "darwin" THEN HeaderLength(h) ELSE 0
        IN /\ r.err = "nil"
           /\ r.value = [h EXCEPT !.len = HeaderLength(h), !.totalLen = @ + taken,
                                  !.src = IF @ = Nil THEN <<0, 0, 0, 0>> ELSE @]

\* ReadFrom (packet.go, payload_cmsg.go): header and payload are a cut of what was
\* received, and a payload that fits arrives whole.
PacketIsCut ==
    /\ Done("raw") /\ answer[1].err = "nil" =>
        LET r == answer[1].value IN
            /\ r.h.len + Len(r.p) = Len(Take(task.packet, task.size))
            /\ r.p = Drop(Take(task.packet, task.size), r.h.len)
            /\ Len(r.h.options) = r.h.len - HeaderLen
    /\ Done("payload") =>
        LET payload == Drop(task.packet, LengthIn(task.packet))
            r == answer[1].value
        IN /\ r.b = Take(payload, task.size)
           /\ Len(payload) <= task.size => r.n = Len(payload)

\* The sum of the big-endian words of a message, as its receiver computes it.
OnesSum(b) ==
    LET even == IF Len(b) % 2 = 1 THEN b \o <<0>> ELSE b IN
    FoldSeq(LAMBDA x, y : x + y, 0, [i \in 1..Len(even) \div 2 |-> 256 * even[2 * i - 1] + even[2 * i]])

\* Message.Marshal (message.go): the receiver of the message, who adds the pseudo
\* header with the length of what it got, finds the checksum right, and
\* ParseMessage gives back the message.
MessageIsKept ==
    Done("icmp") =>
        LET b == answer[1]
            whole == IF task.psh = Nil THEN b
                     ELSE Take(task.psh, 32) \o <<0, 0, 0, Len(b)>> \o <<0, 0, 0, 58>> \o b
            r == ParseMessage(task.m.family, b)
        IN /\ task.m.family = 4 \/ task.psh # Nil => OnesSum(whole) % 65535 = 0
           /\ r.err = "nil"
           /\ [k \in DOMAIN task.m |-> r.value[k]] = task.m

\* WriteTo (payload_cmsg.go): the kernel is told every field that the caller gave and
\* the system has an option for, once, and nothing else.
ControlIsTold ==
    Done("control") /\ task.system # "bsd4" =>
        LET cm == task.cm
            v6 == task.system # "linux4"
            told(option) == {answer[1][i].value : i \in {j \in DOMAIN answer[1] : answer[1][j].option = option}}
            address == IF cm.src = (IF v6 THEN "v6" ELSE "v4") THEN cm.src ELSE "none"
        IN /\ told("hoplimit") = IF v6 /\ cm.hopLimit > 0 THEN {cm.hopLimit} ELSE {}
           /\ told("tclass") = IF task.system = "unix6" /\ cm.trafficClass > 0
                               THEN {cm.trafficClass} ELSE {}
           /\ told("pktinfo") = IF address # "none" \/ cm.ifIndex # 0
                                THEN {[src |-> address, ifIndex |-> cm.ifIndex]} ELSE {}
           /\ told("nexthop") = IF v6 /\ cm.nextHop THEN {cm.ifIndex} ELSE {}

PacketsAreKept == HeaderIsKept /\ PacketIsCut /\ MessageIsKept /\ ControlIsTold
=============================================================================
