------------------------------- MODULE IpSocket ------------------------------
(***************************************************************************)
(* Control messages of packages ipv4 and ipv6: SetControlMessage tells the *)
(* kernel, and remembers in cflags, what is to come with every datagram;   *)
(* ReadFrom makes a buffer for what cflags says and only then receives, so *)
(* that the kernel may by then send more, or less, than there is room for. *)
(* What the systems differ in is which flags stand for which options.      *)
(***************************************************************************)
EXTENDS Integers, Sequences, SequencesExt, FiniteSetsExt

CONSTANTS
    Setters,  \* goroutines that call SetControlMessage
    Requests, \* sets of flags that they ask for
    Unlocked

VARIABLES
    system,   \* the kind of system the program was built for
    cflags,   \* rawOpt
    holder,   \* of the mutex of rawOpt
    setter,   \* of every setter, its arguments and the group it is at (0: it is not calling)
    options,  \* that are on in the kernel
    reading    \* the goroutine in ReadFrom

socketVars == <<system, cflags, holder, setter, options, reading>>

\* A socket option, the flags it stands for and its room in a buffer, in words.
Group(option, flags, space) == [option |-> option, flags |-> flags, space |-> space]
HeaderWords == 2 \* of a message
Lesser(m, n) == IF m <= n THEN m ELSE n

PacketInfo4 ==
    <<Group("ttl", {"TTL"}, 3), Group("pktinfo", {"Src", "Dst", "Interface"}, 4)>>
DstAddr4 ==
    <<Group("ttl", {"TTL"}, 3), Group("dst", {"Dst"}, 3), Group("interface", {"Interface"}, 5)>>
Rfc3542 ==
    <<Group("tclass", {"TrafficClass"}, 3), Group("hoplimit", {"HopLimit"}, 3),
      Group("pktinfo", {"Dst", "Interface"}, 5), Group("pathmtu", {"PathMTU"}, 6)>>
Rfc2292 == <<Group("hoplimit", {"HopLimit"}, 3), Group("pktinfo", {"Dst", "Interface"}, 5)>>
NotImplemented == <<>>

Systems ==
    [linux4 |-> PacketInfo4, bsd4 |-> DstAddr4, unix6 |-> Rfc3542, oldDarwin6 |-> Rfc2292,
     windows |-> NotImplemented]
Groups == Systems[system]
\* The room that some of the groups take together: no system has more than four.
Share(js, j) == IF j \in js THEN Groups[j].space ELSE 0
RoomFor(js) == Share(js, 1) + Share(js, 2) + Share(js, 3) + Share(js, 4)

\* What a message of a kind tells.
FieldsOf(option) ==
    CASE option = "ttl" -> {"TTL"}
      [] option = "tclass" -> {"TrafficClass"}
      [] option = "hoplimit" -> {"HopLimit"}
      [] option = "pktinfo" -> {"IfIndex", "Dst"}
      [] option = "dst" -> {"Dst"}
      [] option = "interface" -> {"IfIndex"}
      [] option = "pathmtu" -> {"Dst", "IfIndex", "MTU"}
Space(option) == (CHOOSE g \in ToSet(Groups) : g.option = option).space

-----------------------------------------------------------------------------
(* SetControlMessage. *)

\* The next group after the i-th that flags cf are in, or 0.
NextGroup(cf, i) ==
    LET later == {j \in i + 1..Len(Groups) : Groups[j].flags \cap cf # {}}
    IN IF later = {} THEN 0 ELSE Min(later)

NotCalling == [at |-> 0, cf |-> {}, on |-> FALSE]
CallEnds(s) == setter' = [setter EXCEPT ![s] = NotCalling] /\ holder' = Unlocked

\* (mistakes, for the properties to find)
BugSets(g, cf, on) == cflags' = cflags

Remembers(g, cf, on) ==
    cflags' = IF on THEN cflags \cup (cf \cap g.flags) ELSE cflags \ (cf \cap g.flags)

SetControlMessage(s, cf, on) ==
    /\ setter[s].at = 0
    /\ holder = Unlocked
    /\ NextGroup(cf, 0) # 0 \* without any there is nothing to do, or it is not supported
    /\ holder' = s
    /\ setter' = [setter EXCEPT ![s] = [at |-> NextGroup(cf, 0), cf |-> cf, on |-> on]]
    /\ UNCHANGED <<system, cflags, options, reading>>

Stale == reading' = [reading EXCEPT !.stale = @ \/ reading.at = "armed"]

SetsGroup(s) ==
    /\ setter[s].at # 0
    /\ LET g == Groups[setter[s].at]
           next == NextGroup(setter[s].cf, setter[s].at)
       IN /\ options' = IF setter[s].on THEN options \cup {g.option} ELSE options \ {g.option}
          /\ Remembers(g, setter[s].cf, setter[s].on)
          /\ IF next = 0 THEN CallEnds(s)
             ELSE setter' = [setter EXCEPT ![s].at = next] /\ UNCHANGED holder
    /\ Stale
    /\ UNCHANGED system

\* setsockopt returns an error: what was set before stays.
SetFails(s) ==
    /\ setter[s].at # 0
    /\ CallEnds(s)
    /\ UNCHANGED <<system, cflags, options, reading>>

-----------------------------------------------------------------------------
(* ReadFrom. *)

Room(flags) == RoomFor({j \in DOMAIN Groups : Groups[j].flags \cap flags # {}})

NewControlMessage ==
    /\ reading.at # "armed"
    /\ holder = Unlocked
    /\ reading' = [at |-> "armed", room |-> Room(cflags), stale |-> FALSE, cm |-> <<>>, sent |-> {}]
    /\ UNCHANGED <<system, cflags, holder, setter, options>>

\* The messages that the kernel puts into so much room: one that does not fit is
\* cut, and one whose header does not fit is left out, as are the later ones.
Before(msgs, i) ==
    RoomFor({j \in DOMAIN Groups : \E k \in DOMAIN msgs : k < i /\ msgs[k] = Groups[j].option})
Delivers(msgs, room) ==
    LET words(i) == Lesser(Space(msgs[i]), room - Before(msgs, i))
    IN [i \in {k \in DOMAIN msgs : Before(msgs, k) + HeaderWords <= room} |->
           [option |-> msgs[i], words |-> words(i)]]

\* What a field is after a message was read: what was sent, or, of a message that
\* was cut, the memory behind the buffer.
Value(m) == IF m.words = Space(m.option) THEN "sent" ELSE "garbage"

\* No data at all is an index out of range; of a field in several messages the
\* last one is kept.
Parse(msgs) ==
    LET told(i) == FieldsOf(msgs[i].option)
        later(i) == {j \in DOMAIN msgs : j > i}
    IN IF \E i \in DOMAIN msgs : msgs[i].words = HeaderWords THEN "panic"
       ELSE IF DOMAIN msgs = {} THEN "nil"
       ELSE UNION {(told(i) \ UNION {told(j) : j \in later(i)}) \X {Value(msgs[i])} :
                      i \in DOMAIN msgs}

\* A datagram comes, or the news of another path MTU.
Receives(report) ==
    /\ reading.at = "armed"
    /\ report => "pathmtu" \in options
    /\ LET due == IF report THEN {"pathmtu"} ELSE options \ {"pathmtu"}
       IN \E msgs \in Bijection(1..Cardinality(due), due) :
            reading' = [at |-> "done", room |-> 0, stale |-> reading.stale, sent |-> due,
                        cm |-> <<Parse(Delivers(msgs, reading.room))>>]
    /\ UNCHANGED <<system, cflags, holder, setter, options>>

-----------------------------------------------------------------------------

SocketNext ==
    \/ \E s \in Setters, cf \in Requests, on \in BOOLEAN : SetControlMessage(s, cf, on)
    \/ \E s \in Setters : SetsGroup(s)
    \/ \E s \in Setters : SetFails(s)
    \/ NewControlMessage
    \/ \E report \in BOOLEAN : Receives(report)

SocketInit ==
    /\ system \in DOMAIN Systems
    /\ cflags = {}
    /\ options = {}
    /\ holder = Unlocked
    /\ setter = [s \in Setters |-> NotCalling]
    /\ reading = [at |-> "idle", room |-> 0, stale |-> FALSE, cm |-> <<>>, sent |-> {}]

SocketSpec == SocketInit /\ [][SocketNext]_socketVars

-----------------------------------------------------------------------------
(* Properties. *)

\* setControlMessage (control_unix.go): whatever failed half way, an option that is
\* on in the kernel has a flag, so that ReadFrom makes room for it; and an option
\* of one flag is on just when the flag is set.
FlagsMatchKernel ==
    holder = Unlocked =>
        \A i \in DOMAIN Groups :
            LET g == Groups[i] IN
            /\ g.option \in options => g.flags \cap cflags # {}
            /\ Cardinality(g.flags) = 1 => (g.option \in options <=> g.flags \subseteq cflags)

\* ReadFrom (payload_cmsg.go): when nobody changed the options while it waited, the
\* control message is just what the kernel had to tell, in whatever order it came.
ReadIsSound ==
    reading.at = "done" /\ ~reading.stale =>
        reading.cm[1] = IF reading.sent = {} THEN "nil"
                       ELSE (UNION {FieldsOf(o) : o \in reading.sent}) \X {"sent"}

SocketIsSound == FlagsMatchKernel /\ ReadIsSound
=============================================================================
