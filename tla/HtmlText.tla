------------------------------ MODULE HtmlText ------------------------------
(***************************************************************************)
(* The text functions of go.net/html: escape and unescape (escape.go),     *)
(* convertNewlines (token.go), which like unescape works in place, and     *)
(* parseDoctype (doctype.go) with the doctype of render (render.go).       *)
(*                                                                         *)
(* Bytes are characters: r is the carriage return, N the newline, Q the    *)
(* double quote.  A rune of n bytes is a u with n - 1 times + after it; an *)
(* ASCII rune that no property tells from others is c.  Hexadecimal digits *)
(* above 9 are left out, and numbers that overflow an int32.  A word of a  *)
(* doctype is a single element.                                            *)
(***************************************************************************)
EXTENDS Integers, Sequences, SequencesExt, TLC

CONSTANT Texts \* records [op, attr, b, plain]: what is called with which bytes

VARIABLES
    call, \* the call: the function, and its argument
    text  \* the buffer with its two cursors, and whether the call has returned

textVars == <<call, text>>

Digit == {"0", "1", "3", "8", "9"}
Value(c) == CASE c = "0" -> 0 [] c = "1" -> 1 [] c = "3" -> 3 [] c = "8" -> 8 [] c = "9" -> 9
Alphanumeric == Digit \cup {"l", "t", "r", "i", "b", "n", "e", "a", "m", "p", "g", "x"}

-----------------------------------------------------------------------------
(* Mistakes the code does not make; each must break a property. *)

BugForgetsAmp(c) == IF c = "<" THEN <<"&", "l", "t", ";">> ELSE <<c>>
BugKeepsNewline(b, src) == src + 1
BugOneQuote(s) == <<"Q">> \o s \o <<"Q">>

-----------------------------------------------------------------------------
(* unescapeEntity. *)

Rune(n) == <<"u">> \o [i \in 1..n - 1 |-> "+"]

\* utf8.EncodeRune; what is no rune becomes U+FFFD, three bytes long.
Encoded(x) ==
    CASE x = 13 -> <<"r">> [] x = 34 -> <<"Q">> [] x = 38 -> <<"&">> [] x = 39 -> <<"'">>
      [] x = 60 -> <<"<">> [] x = 62 -> <<">">>
      [] x \in 0..127 \ {13, 34, 38, 39, 60, 62} -> <<"c">>
      [] x \in 128..2047 -> Rune(2)
      [] x \in 65536..1114111 -> Rune(4)
      [] OTHER -> Rune(3)

\* Windows-1252 for 128 to 159, of which these stay as they are.
Replaced(x) == IF x \in 128..159 \ {129, 141, 143, 144, 157} THEN 8364 ELSE x
Numeric(x) ==
    IF x \in 128..159 THEN Encoded(Replaced(x))
    ELSE IF x = 0 \/ x \in 55296..57343 THEN Rune(3) ELSE Encoded(x)

\* Entities that are prefixes of one another, with and without a semicolon, and
\* one of two runes.
BugWideEntities == <<"b", "n", "e", ";">> :> Rune(3) \o Rune(3) \* as nGt; would be
EntityTable ==
    (<<"l", "t">> :> <<"<">>) @@ (<<"l", "t", ";">> :> <<"<">>)
    @@ (<<"l", "t", "r", "i", ";">> :> Rune(3)) @@ (<<"g", "t", ";">> :> <<">">>)
    @@ (<<"b", "n", "e", ";">> :> <<"=">> \o Rune(3)) @@ (<<"a", "m", "p", ";">> :> <<"&">>)
    @@ (<<"a", "m", "p">> :> <<"&">>)
LongestWithoutSemicolon == 6

\* How many elements of s from the i-th on are in a set.
RunLength(s, i, set) ==
    LET Stops == {k \in i..Len(s) : s[k] \notin set}
    IN (IF Stops = {} THEN Len(s) + 1 ELSE CHOOSE k \in Stops : \A m \in Stops : k <= m) - i

Reference(cells, n) == [cells |-> cells, n |-> n]
Ampersand == Reference(<<"&">>, 1)

\* "&#13;": s[i] is the first byte after "&#" or "&#x".
NumericReference(s) ==
    LET hex == s[3] = "x"
        i == IF hex THEN 4 ELSE 3
        k == RunLength(s, i, Digit)
        x == FoldLeft(LAMBDA v, c : (IF hex THEN 16 ELSE 10) * v + Value(c), 0,
                      SubSeq(s, i, i + k - 1))
        n == i + k - 1 + (IF i + k <= Len(s) /\ s[i + k] = ";" THEN 1 ELSE 0)
    IN IF Len(s) <= 3 \/ n <= 3 THEN Ampersand ELSE Reference(Numeric(x), n)

\* "&lt;": the longest name, or in text the longest beginning of it.
NamedReference(s, attribute) ==
    LET k == RunLength(s, 2, Alphanumeric)
        n == 1 + k + (IF 2 + k <= Len(s) /\ s[2 + k] = ";" THEN 1 ELSE 0)
        name == SubSeq(s, 2, n)
        Known == DOMAIN EntityTable
        Shorter == {j \in 2..(IF Len(name) - 1 > LongestWithoutSemicolon
                              THEN LongestWithoutSemicolon ELSE Len(name) - 1) :
                        SubSeq(name, 1, j) \in Known}
        longest == CHOOSE j \in Shorter : \A m \in Shorter : m <= j
    IN CASE name = <<>> -> Reference(SubSeq(s, 1, n), n)
         [] name # <<>> /\ attribute /\ Last(name) # ";" /\ Len(s) > n /\ s[n + 1] = "=" ->
              Reference(SubSeq(s, 1, n), n)
         [] OTHER ->
              CASE name \in Known -> Reference(EntityTable[name], n)
                [] name \notin Known /\ ~attribute /\ Shorter # {} ->
                     Reference(EntityTable[SubSeq(name, 1, longest)], longest + 1)
                [] OTHER -> Reference(SubSeq(s, 1, n), n)

Entity(s, attribute) ==
    IF Len(s) <= 1 THEN Ampersand
    ELSE IF s[2] = "#" THEN (IF Len(s) <= 3 THEN Ampersand ELSE NumericReference(s))
    ELSE NamedReference(s, attribute)

-----------------------------------------------------------------------------
(* unescape and convertNewlines, a byte or a reference per step. *)

\* The bytes written from dst on; beyond the buffer they panic.
Written(b, dst, cells) ==
    [i \in 1..Len(b) |-> IF i > dst /\ i <= dst + Len(cells) THEN cells[i - dst] ELSE b[i]]
Puts(cells, n) ==
    text' = [text EXCEPT !.b = Written(@, text.dst, cells), !.dst = @ + Len(cells), !.src = @ + n]

From(b, src) == SubSeq(b, src + 1, Len(b))

Unescape ==
    /\ call.op = "unescape" /\ ~text.done /\ text.src < Len(text.b)
    /\ LET s == From(text.b, text.src)
           e == Entity(s, call.attr)
       IN IF s[1] = "&" THEN Puts(e.cells, e.n) ELSE Puts(<<s[1]>>, 1)

\* The newline after a carriage return goes with it.
AfterReturn(b, src) == IF src + 1 < Len(b) /\ b[src + 2] = "N" THEN src + 2 ELSE src + 1
ConvertNewlines ==
    /\ call.op = "newlines" /\ ~text.done /\ text.src < Len(text.b)
    /\ IF text.b[text.src + 1] = "r"
       THEN Puts(<<"N">>, AfterReturn(text.b, text.src) - text.src)
       ELSE Puts(<<text.b[text.src + 1]>>, 1)

ReturnsText ==
    /\ ~text.done /\ text.src = Len(text.b)
    /\ text' = [text EXCEPT !.done = TRUE]

-----------------------------------------------------------------------------
(* escape. *)

Escape(c) ==
    CASE c = "&" -> <<"&", "a", "m", "p", ";">> [] c = "'" -> <<"&", "#", "3", "9", ";">>
      [] c = "<" -> <<"&", "l", "t", ";">>      [] c = ">" -> <<"&", "g", "t", ";">>
      [] c = "Q" -> <<"&", "#", "3", "4", ";">> [] c = "r" -> <<"&", "#", "1", "3", ";">>
      [] OTHER   -> <<c>>
Escaped(s) == FlattenSeq([i \in DOMAIN s |-> Escape(s[i])])

\* EscapeString, whose result the same client unescapes.
EscapeString ==
    /\ call.op = "escape"
    /\ call' = [call EXCEPT !.op = "unescape", !.b = Escaped(@), !.plain = call.b]
    /\ text' = [text EXCEPT !.b = Escaped(call.b)]

-----------------------------------------------------------------------------
(* Doctypes. *)

White == {" "}
TrimLeft(s) == From(s, RunLength(s, 1, White))
Words == {"html", "HTML", "public", "system", "id", "quirky", "loose", "ibm", "Q", "'", " "}
Lower(c) == IF c = "HTML" THEN "html" ELSE c
Keys == {"public", "system"}

\* The identifiers after a key; what is left makes quirks.
QuotedId(s) ==
    LET k == RunLength(Tail(s), 1, Words \ {s[1]})
    IN [id |-> SubSeq(s, 2, 1 + k), rest |-> From(s, 2 + k)]
Identifiers(key, s) ==
    LET First(k, r) == LET t == TrimLeft(r)
                       IN IF t = <<>> \/ t[1] \notin {"Q", "'"}
                          THEN [key |-> k, ids |-> <<>>, rest |-> t]
                          ELSE [key |-> IF k = "public" THEN "system" ELSE "",
                                ids |-> <<<<k, QuotedId(t).id>>>>, rest |-> QuotedId(t).rest]
        one == First(key, s)
        two == First(one.key, one.rest)
    IN IF one.key = "system" /\ one.ids # <<>>
       THEN [two EXCEPT !.ids = one.ids \o @] ELSE one

HasPrefix(s, words) == s # <<>> /\ s[1] \in words
IsQuirky(ids) ==
    /\ ids # <<>>
    /\ \/ ids[1][1] = "public"
          /\ (HasPrefix(ids[1][2], {"quirky"}) \/ (Len(ids) = 1 /\ HasPrefix(ids[1][2], {"loose"})))
       \/ Last(ids)[1] = "system" /\ Last(ids)[2] = <<"ibm">>

ParseDoctype(s) ==
    LET k == RunLength(s, 1, Words \ White)
        name == SubSeq(s, 1, k)
        rest == TrimLeft(From(s, k))
        r == IF rest # <<>> /\ rest[1] \in Keys THEN Identifiers(rest[1], Tail(rest))
             ELSE [key |-> "", ids |-> <<>>, rest |-> rest]
    IN [name |-> [i \in DOMAIN name |-> Lower(name[i])], ids |-> r.ids,
        quirks |-> name # <<"html">> \/ r.key # "" \/ r.rest # <<>> \/ IsQuirky(r.ids)]

\* writeQuoted, and the doctype of render.
WriteQuoted(s) ==
    LET q == IF \E i \in DOMAIN s : s[i] = "Q" THEN <<"'">> ELSE <<"Q">> IN q \o s \o q
IdOf(d, key) ==
    IF \E i \in DOMAIN d.ids : d.ids[i][1] = key
    THEN d.ids[CHOOSE i \in DOMAIN d.ids : d.ids[i][1] = key][2] ELSE <<>>
RenderDoctype(d) ==
    LET p == IdOf(d, "public")
        s == IdOf(d, "system")
    IN d.name
       \o (IF p # <<>> THEN <<" ", "public", " ">> \o WriteQuoted(p)
                            \o (IF s # <<>> THEN <<" ">> \o WriteQuoted(s) ELSE <<>>)
           ELSE IF s # <<>> THEN <<" ", "system", " ">> \o WriteQuoted(s) ELSE <<>>)

-----------------------------------------------------------------------------

TextOver == (call.op = "doctype" \/ text.done) /\ UNCHANGED textVars

TextNext ==
    \/ (Unescape \/ ConvertNewlines \/ ReturnsText) /\ UNCHANGED call
    \/ EscapeString
    \/ TextOver

TextInit ==
    /\ call \in Texts
    /\ text = [b |-> call.b, dst |-> 0, src |-> 0, done |-> FALSE]

TextSpec == TextInit /\ [][TextNext]_textVars

-----------------------------------------------------------------------------
(* Properties. *)

Result == SubSeq(text.b, 1, text.dst)

\* The functions that work in place never write what they have not yet read,
\* although a reference may be shorter than the bytes it stands for, nor past the
\* end of the buffer.
UnreadIsKept ==
    /\ text.dst <= text.src /\ text.src <= Len(text.b)
    /\ call.op \in {"unescape", "newlines"} => From(text.b, text.src) = From(call.b, text.src)

\* UnescapeString(EscapeString(s)) == s.
EscapeIsUndone == call.op = "unescape" /\ call.plain # <<>> /\ text.done => Result = call.plain

\* Every end of a line, "\n", "\r" or "\r\n", is one "\n" afterwards.
LineEnds(s) ==
    [i \in DOMAIN s |-> CASE s[i] = "r" -> <<"N">>
                          [] s[i] = "N" /\ i > 1 -> IF s[i - 1] = "r" THEN <<>> ELSE <<"N">>
                          [] OTHER -> <<s[i]>>]
NewlinesAreNormal ==
    call.op = "newlines" /\ text.done => Result = FlattenSeq(LineEnds(call.b))

\* A doctype that is read, rendered and read again has the same name and the
\* same identifiers, those that are empty apart.
DoctypeIsKept ==
    LET d == ParseDoctype(call.b)
        e == ParseDoctype(RenderDoctype(d))
    IN call.op = "doctype" /\ d.name # <<>> =>
           /\ e.name = d.name
           /\ (\A i \in DOMAIN d.ids : d.ids[i][2] # <<>>) => e.ids = d.ids

\* The text functions undo one another and never overtake themselves.
TextIsRight == UnreadIsKept /\ EscapeIsUndone /\ NewlinesAreNormal /\ DoctypeIsKept
=============================================================================
