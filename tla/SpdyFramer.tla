----------------------------- MODULE SpdyFramer -----------------------------
(***************************************************************************)
(* A connection between a Framer of package spdy that writes and one that  *)
(* reads.  The wire is a sequence of cells, one for each value the code    *)
(* writes: a word, a byte, the two words of a frame's header, the data or  *)
(* a header block.  A block is known by its place in the stream of the     *)
(* compressor, which all blocks of a connection share.                     *)
(***************************************************************************)
EXTENDS Naturals, Sequences, SequencesExt

CONSTANTS
    Frames,    \* what the program gives to WriteFrame
    PeerFrames,   \* what another implementation may send instead
    MaxSpdyFrames, \* how many frames are sent (a bound)
    HighBit,   \* of a word: 2^31, which tells a control frame from a data frame
    MaxDataLength

VARIABLES
    ours,   \* whether the writer is a Framer
    wire,   \* cells that are not read yet
    sent,   \* frames that were written whole
    returned,    \* what ReadFrame returned
    outEnd, \* headerBuf, the blocks compressed, the frames that were cut off, and
            \* whether w is broken
    inEnd, \* the headerDecompressor's input, and the blocks it has decoded
    lost    \* the reader takes cells for what they are not

spdyVars == <<ours, wire, sent, returned, outEnd, inEnd, lost>>

\* Header names; one has a capital, one must not be in a frame.
Lower(name) == IF name = "A" THEN "a" ELSE name
Invalid == {"connection"}

HasHeaders == {"SynStream", "SynReply", "Headers"}
Control == HasHeaders \cup {"RstStream", "Settings", "Ping", "GoAway", "WindowUpdate"}

\* The frames have the fields of their Go types; only a header frame has names.
\* SETTINGS has its number of settings, then the words of each; the data of a data
\* frame, its second word, is known by its length.
WordsIn(f) ==
    CASE f.type = "SynStream" -> 4
      [] f.type \in {"SynReply", "Headers", "Ping"} -> 1
      [] f.type = "Settings" -> 1 + 2 * f.words[1]
      [] f.type \in {"RstStream", "GoAway", "WindowUpdate", "Data"} -> 2
      [] OTHER -> Len(f.words)
\* A data frame that cannot be told from a control frame, or has too long data.
InvalidData(f) == f.type = "Data" /\ (f.words[1] >= HighBit \/ f.words[2] > MaxDataLength)
ASSUME FramesFit ==
    /\ HighBit \in Nat /\ MaxDataLength \in Nat
    /\ \A f \in PeerFrames : ~InvalidData(f)
    /\ \A f \in Frames \cup PeerFrames :
          /\ f = [type |-> f.type, words |-> f.words, names |-> f.names, flags |-> f.flags]
          /\ f.words \in Seq(Nat) /\ f.flags \in Nat
          /\ Len(f.words) = WordsIn(f) /\ (f.type = "Settings" => f.words # <<>>)
          /\ f.type \in HasHeaders \/ f.names = {}

ErrorOf(code) == [type |-> code, words |-> <<>>, names |-> {}, flags |-> 0]
Harmless == {"ZeroStreamId", "InvalidHeaderPresent", "UnlowercasedHeaderName"}
NoError(result) == result.type \in Control \cup {"Data"}

-----------------------------------------------------------------------------
(* Mistakes the code does not make; each must break a property. *)

BugForgetsReset(buf) == buf

-----------------------------------------------------------------------------
(* Writing. *)

\* What is refused before anything is written.
Refused(f) ==
    \/ f.type \in HasHeaders \cup {"RstStream", "Ping", "Data"} /\ f.words[1] = 0
    \/ InvalidData(f)
\* (RST_STREAM looks at its status when the stream is on the wire.)
StopsAt(f, cells) ==
    IF ours /\ f.type = "RstStream" /\ f.words[2] = 0 THEN 3 ELSE Len(cells)

Block(n, names) == <<"block", n, names>>

\* The length of a frame's payload; a block counts for eight bytes.
Fixed(type) == IF type = "SynStream" THEN 10 ELSE 4
PayloadLength(f, blocks) ==
    IF f.type \in HasHeaders THEN Fixed(f.type) + 8 * Len(blocks) ELSE 4 * Len(f.words)

\* WriteFrame clears the flags that a type does not have.
FlagsOf(f) ==
    IF ours /\ f.type \in {"RstStream", "Ping", "GoAway", "WindowUpdate"} THEN 0 ELSE f.flags

\* A priority has three bits, at the top of its byte.
Body(f, blocks) ==
    CASE f.type = "SynStream" ->
           <<<<"word", f.words[1]>>, <<"word", f.words[2]>>, <<"byte", (f.words[3] * 32) % 256>>,
             <<"byte", f.words[4]>>>> \o blocks
      [] f.type \in HasHeaders \ {"SynStream"} -> <<<<"word", f.words[1]>>>> \o blocks
      [] f.type = "Data" -> <<<<"data", f.words[2]>>>>
      [] OTHER -> [i \in DOMAIN f.words |-> <<"word", f.words[i]>>]

Cells(f, blocks) ==
    IF f.type = "Data"
    THEN <<<<"stream", f.words[1]>>, <<"length", FlagsOf(f), f.words[2]>>>> \o Body(f, blocks)
    ELSE <<<<"control", f.type>>, <<"length", FlagsOf(f), PayloadLength(f, blocks)>>>>
         \o Body(f, blocks)

\* The headers as they are marshalled.
Marshalled(f) ==
    IF f.type \notin HasHeaders THEN outEnd.buf
    ELSE Append(outEnd.buf, Block(outEnd.blocks + 1,
                                  IF ours THEN {Lower(n) : n \in f.names} ELSE f.names))
AfterReset(buf) == <<>>

\* The frame goes to w cell by cell; w may fail at any of them, for ever.
Puts(f) ==
    LET cells == Cells(f, Marshalled(f))
        whole == StopsAt(f, cells)
        marshals == [outEnd EXCEPT !.buf = Marshalled(f),
                                   !.blocks = IF f.type \in HasHeaders THEN @ + 1 ELSE @]
    IN \/ /\ wire' = wire \o SubSeq(cells, 1, whole)
          /\ outEnd' = [marshals EXCEPT !.buf = AfterReset(@),
                                        !.torn = IF whole < Len(cells) THEN @ + 1 ELSE @]
          /\ sent' = IF whole < Len(cells) THEN sent ELSE Append(sent, f)
       \/ /\ \E k \in 0..whole - 1 : wire' = wire \o SubSeq(cells, 1, k)
          /\ outEnd' = [marshals EXCEPT !.broken = TRUE]
          /\ UNCHANGED sent

\* WriteFrame
WriteFrame(f) ==
    /\ ours /\ ~outEnd.broken /\ Len(sent) + outEnd.torn < MaxSpdyFrames
    /\ IF Refused(f) THEN UNCHANGED <<wire, outEnd, sent>> ELSE Puts(f)
    /\ UNCHANGED <<ours, returned, inEnd, lost>>

PeerWrites(f) ==
    /\ ~ours /\ ~outEnd.broken /\ Len(sent) + outEnd.torn < MaxSpdyFrames
    /\ Puts(f)
    /\ UNCHANGED <<ours, returned, inEnd, lost>>

-----------------------------------------------------------------------------
(* Reading. *)

\* The cells of the payload that a reader of the type takes, before the blocks
\* of a header frame, which are as many as the length says.
NumSettings == IF Len(wire) >= 3 /\ wire[3][1] = "word" THEN wire[3][2] ELSE 0
Wants(type) ==
    CASE type = "SynStream" -> <<"word", "word", "byte", "byte">>
      [] type \in {"SynReply", "Headers"} -> <<"word">>
      [] type \in {"RstStream", "GoAway", "WindowUpdate"} -> <<"word", "word">>
      [] type = "Ping" -> <<"word">>
      [] type = "Settings" -> <<"word">> \o [i \in 1..2 * NumSettings |-> "word"]
      [] OTHER -> <<>>

\* GOAWAY and WINDOW_UPDATE with flags, or of another length, are left at the
\* second word; a frame of an unknown type is left at its payload.
Leaves(type, flags, length) ==
    type \in {"GoAway", "WindowUpdate"} /\ (flags # 0 \/ length # 8)
Takes(type, flags, length) ==
    IF Leaves(type, flags, length) THEN <<"word">> ELSE Wants(type)
BlocksIn(type, length) == IF type \in HasHeaders THEN (length - Fixed(type)) \div 8 ELSE 0

Kinds(cells) == [i \in DOMAIN cells |-> cells[i][1]]
Words(cells) == [i \in DOMAIN cells |-> cells[i][2]]
Decoded(type, words) ==
    IF type = "SynStream" THEN [words EXCEPT ![3] = @ \div 32] ELSE words

\* The decompressor reads ahead: all of the payload is in its buffer when the
\* first block is decoded.
Input(blocks) == inEnd.input \o blocks

\* The checks that follow when everything is read.
BadHeader(type, id, names) ==
    \E n \in names : n \in Invalid \/ (n = "host" /\ (type = "SynStream"
                                                     \/ (type = "Headers" /\ id % 2 = 0)))
Verdict(type, words, flags, names) ==
    IF \E n \in names : Lower(n) # n THEN "UnlowercasedHeaderName"
    ELSE IF type \in HasHeaders /\ BadHeader(type, words[1], names) THEN "InvalidHeaderPresent"
    ELSE IF type = "RstStream" /\ words[2] = 0 THEN "InvalidControlFrame"
    ELSE IF type \in HasHeaders \cup {"RstStream", "Ping"} /\ words[1] = 0 THEN "ZeroStreamId"
    ELSE IF type = "Ping" /\ flags # 0 THEN "InvalidControlFrame"
    ELSE "none"

Returns(result) == returned' = Append(returned, result)
Frame(type, words, names, flags) ==
    [type |-> type, words |-> words, names |-> names, flags |-> flags]

\* A header frame or another control frame whose cells are all there.
ReadsPayload(type, flags, length) ==
    LET kinds == Takes(type, flags, length)
        n == Len(kinds) + BlocksIn(type, length)
        fixed == SubSeq(wire, 3, Len(kinds) + 2)
        blocks == SubSeq(wire, Len(kinds) + 3, n + 2)
        words == Decoded(type, Words(fixed))
        input == Input(blocks)
        names == IF type \in HasHeaders THEN Head(input)[3] ELSE {}
        verdict == Verdict(type, words, flags, names)
    IN /\ Len(wire) >= n + 2
       /\ IF Kinds(fixed) # kinds \/ \E i \in DOMAIN blocks : blocks[i][1] # "block"
          THEN lost' = TRUE /\ UNCHANGED <<wire, returned, inEnd>>
          ELSE /\ UNCHANGED lost
               /\ wire' = SubSeq(wire, n + 3, Len(wire))
               /\ inEnd' = IF type \in HasHeaders
                            THEN [input |-> Tail(input), blocks |-> inEnd.blocks + 1] ELSE inEnd
               /\ Returns(IF Leaves(type, flags, length) THEN ErrorOf("InvalidControlFrame")
                          ELSE IF verdict # "none" THEN ErrorOf(verdict)
                          ELSE Frame(type, words, names, flags))

ReadsControl ==
    /\ wire[1][1] = "control" /\ wire[2][1] = "length"
    /\ IF wire[1][2] \in Control THEN ReadsPayload(wire[1][2], wire[2][2], wire[2][3])
       ELSE /\ Returns(ErrorOf("UnknownType"))
            /\ wire' = SubSeq(wire, 3, Len(wire))
            /\ UNCHANGED <<inEnd, lost>>

\* parseDataFrame
ReadsData ==
    /\ wire[1][1] = "stream" /\ Len(wire) >= 3
    /\ wire' = SubSeq(wire, 4, Len(wire))
    /\ Returns(IF wire[1][2] = 0 THEN ErrorOf("ZeroStreamId")
               ELSE Frame("Data", <<wire[1][2], wire[3][2]>>, {}, wire[2][2]))
    /\ UNCHANGED <<inEnd, lost>>

\* Anything else at the place of a frame's first word.
TakesForHeader ==
    /\ wire[1][1] \notin {"control", "stream"}
    /\ lost' = TRUE
    /\ UNCHANGED <<wire, returned, inEnd>>

\* ReadFrame
ReadFrame ==
    /\ Len(wire) >= 2 /\ ~lost
    /\ ReadsControl \/ ReadsData \/ TakesForHeader
    /\ UNCHANGED <<ours, sent, outEnd>>

SpdyNext ==
    \/ \E f \in Frames : WriteFrame(f)
    \/ \E f \in PeerFrames : PeerWrites(f)
    \/ ReadFrame
    \/ UNCHANGED spdyVars \* the connection is idle

SpdyInit ==
    /\ ours \in BOOLEAN
    /\ wire = <<>> /\ sent = <<>> /\ returned = <<>> /\ lost = FALSE
    /\ outEnd = [buf |-> <<>>, blocks |-> 0, torn |-> 0, broken |-> FALSE]
    /\ inEnd = [input |-> <<>>, blocks |-> 0]

SpdySpec == SpdyInit /\ [][SpdyNext]_spdyVars

-----------------------------------------------------------------------------
(* Properties. *)

\* What the other end should make of a frame: names are in lower case, and a
\* priority has three bits.
Means(f) ==
    Frame(f.type, IF f.type = "SynStream" THEN [f.words EXCEPT ![3] = @ % 8] ELSE f.words,
          {Lower(n) : n \in f.names}, FlagsOf(f))

\* Each frame is read as it was written, in order, none of them twice or from
\* pieces of two, as long as no frame left its payload behind; errors about the
\* contents of a frame cost that frame only, and the two ends' compression
\* stays in step.
FramesAreKept ==
    LET safe(n) == \A i \in 1..n : NoError(returned[i]) \/ returned[i].type \in Harmless
    IN outEnd.torn = 0 =>
        /\ \A i \in DOMAIN returned :
              safe(i) => i <= Len(sent) /\ (NoError(returned[i]) => returned[i] = Means(sent[i]))
        /\ safe(Len(returned)) => ~lost /\ inEnd.input = <<>>
        /\ safe(Len(returned)) /\ wire = <<>> /\ ~outEnd.broken =>
              Len(returned) = Len(sent) /\ inEnd.blocks = outEnd.blocks
=============================================================================
