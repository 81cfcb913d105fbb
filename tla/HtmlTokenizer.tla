--------------------------- MODULE HtmlTokenizer ---------------------------
(***************************************************************************)
(* The HTML tokenizer of go.net/html (token.go).  One step is one call of  *)
(* readByte with what the reader function that called it does with the     *)
(* byte; the place in those functions, the labels of readScript among      *)
(* them, is z.pc.  Spans are offsets in a buffer that readByte shifts when *)
(* it needs another byte.                                                  *)
(*                                                                         *)
(* Bytes are single characters.  The names "title", "script" and           *)
(* "plaintext" are the letters t, s and p; "DOCTYPE" is the word DT and    *)
(* "[CDATA[" the word [C; any other letter is a and any other byte 1.      *)
(* SetMaxBuf is left out (the parser does not call it).                    *)
(***************************************************************************)
EXTENDS Integers, Sequences

CONSTANT Pages \* records [start, chars, left, chunk, rawTag, cdata]: see TokenizerInit

VARIABLES
    page, \* what the reader delivers: any left bytes of chars after those of start
    z     \* the Tokenizer

tokenizerVars == <<page, z>>

Space == {" "}
Letter == {"a", "t", "s", "p", "D", "T", "C"}
RawNames == {"t", "s", "p"}
Doctype == <<"D", "T">>
Cdata == <<"[", "C">>
TagEnd == Space \cup {"/", ">"}
Quotes == {"'", "Q"}

\* The bytes of a span of the buffer.
Part(s) == SubSeq(z.buf, s[1] + 1, s[2])

-----------------------------------------------------------------------------
(* Mistakes the code does not make; each must break a property. *)

BugAttrsStay(attrs, x) == attrs
BugStartsAnew(t) == [t EXCEPT !.n = 1]
-----------------------------------------------------------------------------
(* readByte. *)

Shift(s, x) == <<s[1] - x, s[2] - x>>
ShiftAttrs(attrs, x) == [i \in DOMAIN attrs |-> <<Shift(attrs[i][1], x), Shift(attrs[i][2], x)>>]

\* The live bytes go to the start of the buffer, and the spans with them.
Moved(t) ==
    LET x == t.raw[1]
    IN [t EXCEPT !.buf = SubSeq(@, x + 1, t.raw[2]), !.raw = Shift(@, x), !.data = Shift(@, x),
                 !.key = Shift(@, x), !.val = Shift(@, x), !.attr = ShiftAttrs(@, x)]

\* Another byte is in the buffer, or Read has delivered some.
Buffered == z.raw[2] < Len(z.buf)
AtEnd == ~Buffered /\ z.eof
Delivers(bytes, eof) ==
    /\ ~Buffered /\ ~z.eof
    /\ page.left >= Len(bytes)
    /\ page' = [page EXCEPT !.left = @ - Len(bytes)]
    /\ z' = [Moved(z) EXCEPT !.buf = @ \o bytes, !.eof = eof]

\* Read returns a byte or a few, with or without io.EOF, or io.EOF alone.
ReadsInput ==
    /\ z.pc # "returned"
    /\ \/ \E b \in page.chars, eof \in BOOLEAN : page.chunk = 1 /\ Delivers(<<b>>, eof)
       \/ \E b, c \in page.chars : page.chunk = 2 /\ Delivers(<<b, c>>, FALSE)
       \/ Delivers(<<>>, TRUE)

Back(t, n) == [t EXCEPT !.raw[2] = @ - n]
Unread(t) == Back(t, 1)
Goto(t, pc) == [t EXCEPT !.pc = pc]
Returns(t, tt) == [t EXCEPT !.pc = "returned", !.tt = tt]
DataStarts(t) == [t EXCEPT !.data[1] = t.raw[2]]
DataEnds(t, n) == [t EXCEPT !.data[2] = t.raw[2] - n]
\* A comment without data.
NotBefore(t) == [t EXCEPT !.data[2] = IF @ < t.data[1] THEN t.data[1] ELSE @]

-----------------------------------------------------------------------------
(* Next. *)

EndOfText(t) ==
    IF t.raw[1] < t.raw[2] THEN Returns(DataEnds(t, 0), "text") ELSE Returns(t, "error")

\* The end of readRawOrRCDATA.
EndOfRaw(t) ==
    LET u == [DataEnds(t, 0) EXCEPT !.rawTag = "none"]
    IN IF u.data[2] > u.data[1] THEN Returns([u EXCEPT !.markup = FALSE], "text")
       ELSE IF u.err THEN Returns(u, "error") ELSE Goto(u, "text")

Next ==
    /\ z.pc = "returned"
    /\ z.tt # "error"
    /\ z' = LET e == z.raw[2]
                t == [z EXCEPT !.raw = <<e, e>>, !.data = <<e, e>>, !.markup = TRUE, !.n = 0]
            IN IF z.err THEN Returns(t, "error")
               ELSE Goto(t, CASE z.rawTag = "none"  -> "text"
                              [] z.rawTag = "p" -> "plaintext"
                              [] z.rawTag = "s" -> "scriptData"
                              [] z.rawTag = "t" -> "raw")
    /\ UNCHANGED page

\* The byte after a "<": what the loop of Next has read before it is a token first.
AfterLess(t, c) ==
    IF c \notin Letter \cup {"/", "!", "?"} THEN Goto(Unread(t), "text")
    ELSE IF t.raw[1] < t.raw[2] - 2 THEN Returns(DataEnds(Back(t, 2), 0), "text")
    ELSE CASE c \in Letter -> [t EXCEPT !.pc = "name", !.data[1] = t.raw[2] - 1, !.attr = <<>>,
                                        !.start = TRUE]
           [] c = "/"      -> Goto(t, "endTag")
           [] c = "!"      -> Goto(DataStarts(t), "declaration")
           [] c = "?"      -> [DataStarts(Unread(t)) EXCEPT !.pc = "angle", !.tt = "comment"]

AfterEndTagOpen(t, c) ==
    CASE c = ">"      -> Returns(t, "comment")
      [] c \in Letter -> [t EXCEPT !.pc = "name", !.data[1] = t.raw[2] - 1, !.attr = <<>>,
                                   !.start = FALSE]
      [] OTHER        -> [DataStarts(Unread(t)) EXCEPT !.pc = "angle", !.tt = "comment"]

-----------------------------------------------------------------------------
(* readTag. *)

TagDone(t) ==
    LET name == SubSeq(t.buf, t.data[1] + 1, t.data[2])
    IN IF ~t.start THEN Returns(t, "end")
       ELSE Returns([t EXCEPT !.rawTag = IF Len(name) = 1 /\ name[1] \in RawNames
                                         THEN name[1] ELSE "none"],
                    IF t.buf[t.raw[2] - 1] = "/" THEN "selfClosing" ELSE "start")

NameEnds(t, c) ==
    CASE c \in Space      -> Goto(DataEnds(t, 1), "white")
      [] c \in {"/", ">"} -> Goto(DataEnds(Unread(t), 0), "white")
      [] OTHER            -> t

\* The white space before an attribute or the end of the tag.
White(t, c) ==
    CASE c \in Space -> t
      [] c = ">"     -> TagDone(t)
      [] OTHER       -> [Unread(t) EXCEPT !.pc = "key", !.key[1] = t.raw[2] - 1]

KeyEnds(t, n) ==
    LET e == t.raw[2]
    IN [t EXCEPT !.pc = "equals", !.key[2] = e - n, !.val = <<e, e>>]
Key(t, c) ==
    CASE c \in Space \cup {"/"} -> KeyEnds(t, 1)
      [] c \in {"=", ">"}       -> KeyEnds(Unread(t), 0)
      [] OTHER                  -> t

SavesAttr(t) ==
    [t EXCEPT !.pc = "white",
              !.attr = IF t.start /\ t.key[1] # t.key[2] THEN Append(@, <<t.key, t.val>>) ELSE @]

Equals(t, c) ==
    CASE c \in Space -> t
      [] c = "="     -> Goto(t, "value")
      [] OTHER       -> SavesAttr(Unread(t))

Value(t, c) ==
    CASE c \in Space  -> t
      [] c = ">"      -> SavesAttr(Unread(t))
      [] c \in Quotes -> [t EXCEPT !.pc = "quoted", !.val[1] = t.raw[2], !.quote = c]
      [] OTHER        -> [t EXCEPT !.pc = "unquoted", !.val[1] = t.raw[2] - 1]

ValueEnds(t, n) == SavesAttr([t EXCEPT !.val[2] = t.raw[2] - n])
Quoted(t, c) == IF c = t.quote THEN ValueEnds(t, 1) ELSE t
Unquoted(t, c) ==
    CASE c \in Space -> ValueEnds(t, 1)
      [] c = ">"     -> ValueEnds(Unread(t), 0)
      [] OTHER       -> t

-----------------------------------------------------------------------------
(* Comments, doctypes and CDATA sections. *)

\* readMarkupDeclaration looks at two bytes; z.n counts those of the word it tries.
Declaration(t, c) ==
    IF t.n = 0 THEN [t EXCEPT !.n = 1]
    ELSE LET u == [t EXCEPT !.n = 0]
         IN IF c = "-" /\ t.buf[t.raw[2] - 1] = "-"
            THEN [DataStarts(u) EXCEPT !.pc = "comment", !.n = 2]
            ELSE Goto(Back(u, 2), "doctype")

BogusComment(t) == [DataStarts(t) EXCEPT !.pc = "angle", !.tt = "comment", !.n = 0]
\* The next byte of the word, or back to where the word is looked for.
Word(t, c, word, matched, otherwise) ==
    IF c # word[t.n + 1] THEN otherwise
    ELSE IF t.n + 1 = Len(word) THEN matched ELSE [t EXCEPT !.n = @ + 1]
BackToData(t) == [t EXCEPT !.raw[2] = t.data[1], !.n = 0]

DoctypeWord(t, c) ==
    Word(t, c, Doctype, [t EXCEPT !.pc = "doctypeWhite", !.n = 0],
         IF t.cdata THEN Goto(BackToData(t), "cdataWord") ELSE BogusComment(BackToData(t)))
CdataWord(t, c) ==
    Word(t, c, Cdata, [DataStarts(t) EXCEPT !.pc = "cdata", !.n = 0], BogusComment(BackToData(t)))
DoctypeWhite(t, c) ==
    IF c \in Space THEN t
    ELSE [DataStarts(Unread(t)) EXCEPT !.pc = "angle", !.tt = "doctype"]

Angle(t, c) == IF c = ">" THEN Returns(DataEnds(t, 1), t.tt) ELSE t

\* In a comment z.n counts dashes, and in a CDATA section brackets, up to two.
Counts(t) == [t EXCEPT !.n = IF @ = 2 THEN 2 ELSE @ + 1]
InComment(t, c) ==
    CASE c = "-"             -> Counts(t)
      [] c = ">" /\ t.n = 2  -> Returns(NotBefore(DataEnds(t, 3)), "comment")
      [] c = "!" /\ t.n = 2  -> Goto(t, "bang")
      [] OTHER               -> [t EXCEPT !.n = 0]
Bang(t, c) ==
    IF c = ">" THEN Returns(NotBefore(DataEnds(t, 4)), "comment")
    ELSE [t EXCEPT !.pc = "comment", !.n = 0]
InCdata(t, c) ==
    CASE c = "]"            -> Counts(t)
      [] c = ">" /\ t.n = 2 -> Returns([DataEnds(t, 3) EXCEPT !.markup = FALSE], "text")
      [] OTHER              -> [t EXCEPT !.n = 0]

-----------------------------------------------------------------------------
(* Raw text: readRawOrRCDATA, readRawEndTag and readScript. *)

Raw(t, c) == IF c = "<" THEN Goto(t, "rawLess") ELSE t
RawLess(t, c) == IF c = "/" THEN [t EXCEPT !.pc = "rawName", !.else = "raw"] ELSE Goto(t, "raw")

\* readRawEndTag; t.else is where its caller goes on when it returns false.
RawName(t, c) == IF c = t.rawTag THEN Goto(t, "rawAfterName") ELSE Goto(Unread(t), t.else)
RawAfterName(t, c) ==
    IF c \notin TagEnd THEN Goto(Unread(t), t.else)
    ELSE IF t.else = "doubleEscaped" THEN Goto(t, "escaped")
    ELSE EndOfRaw(Back(t, 4))

EndTagOr(t, else) == [t EXCEPT !.pc = "rawName", !.else = else]

\* The labels of readScript.
ScriptStates ==
    {"scriptData", "less", "escapeStart", "escapeStartDash", "escaped", "escapedDash",
     "escapedDashDash", "escapedLess", "doubleStart", "doubleStartEnd", "doubleEscaped",
     "doubleDash", "doubleDashDash", "doubleLess"}
Script(t, c) ==
    CASE t.pc = "scriptData" -> IF c = "<" THEN Goto(t, "less") ELSE t
      [] t.pc = "less" ->
           CASE c = "/" -> EndTagOr(t, "scriptData")
             [] c = "!" -> Goto(t, "escapeStart")
             [] OTHER   -> Goto(Unread(t), "scriptData")
      [] t.pc = "escapeStart" ->
           IF c = "-" THEN Goto(t, "escapeStartDash") ELSE Goto(Unread(t), "scriptData")
      [] t.pc = "escapeStartDash" ->
           IF c = "-" THEN Goto(t, "escapedDashDash") ELSE Goto(Unread(t), "scriptData")
      [] t.pc \in {"escaped", "escapedDash", "escapedDashDash"} ->
           CASE c = "-" -> Goto(t, IF t.pc = "escaped" THEN "escapedDash" ELSE "escapedDashDash")
             [] c = "<" -> Goto(t, "escapedLess")
             [] c = ">" /\ t.pc = "escapedDashDash" -> Goto(t, "scriptData")
             [] OTHER   -> Goto(t, "escaped")
      [] t.pc = "escapedLess" ->
           CASE c = "/"      -> EndTagOr(t, "escaped")
             [] c \in Letter -> Goto(Unread(t), "doubleStart")
             [] OTHER        -> Goto(Unread(t), "scriptData")
      [] t.pc = "doubleStart" ->
           IF c = "s" THEN Goto(t, "doubleStartEnd") ELSE Goto(Unread(t), "escaped")
      [] t.pc = "doubleStartEnd" ->
           IF c \in TagEnd THEN Goto(t, "doubleEscaped") ELSE Goto(Unread(t), "escaped")
      [] t.pc \in {"doubleEscaped", "doubleDash", "doubleDashDash"} ->
           CASE c = "-" -> Goto(t, IF t.pc = "doubleEscaped" THEN "doubleDash" ELSE "doubleDashDash")
             [] c = "<" -> Goto(t, "doubleLess")
             [] c = ">" /\ t.pc = "doubleDashDash" -> Goto(t, "scriptData")
             [] OTHER   -> Goto(t, "doubleEscaped")
      [] t.pc = "doubleLess" ->
           IF c = "/" THEN EndTagOr(t, "doubleEscaped") ELSE Goto(Unread(t), "doubleEscaped")

-----------------------------------------------------------------------------
(* A byte, or the end of the input, for whoever called readByte. *)

Takes(t, c) ==
    CASE t.pc = "text"         -> IF c = "<" THEN Goto(t, "lessThan") ELSE t
      [] t.pc = "lessThan"     -> AfterLess(t, c)
      [] t.pc = "endTag"       -> AfterEndTagOpen(t, c)
      [] t.pc = "name"         -> NameEnds(t, c)
      [] t.pc = "white"        -> White(t, c)
      [] t.pc = "key"          -> Key(t, c)
      [] t.pc = "equals"       -> Equals(t, c)
      [] t.pc = "value"        -> Value(t, c)
      [] t.pc = "quoted"       -> Quoted(t, c)
      [] t.pc = "unquoted"     -> Unquoted(t, c)
      [] t.pc = "declaration"  -> Declaration(t, c)
      [] t.pc = "doctype"      -> DoctypeWord(t, c)
      [] t.pc = "cdataWord"    -> CdataWord(t, c)
      [] t.pc = "doctypeWhite" -> DoctypeWhite(t, c)
      [] t.pc = "angle"        -> Angle(t, c)
      [] t.pc = "comment"      -> InComment(t, c)
      [] t.pc = "bang"         -> Bang(t, c)
      [] t.pc = "cdata"        -> InCdata(t, c)
      [] t.pc = "plaintext"    -> t
      [] t.pc = "raw"          -> Raw(t, c)
      [] t.pc = "rawLess"      -> RawLess(t, c)
      [] t.pc = "rawName"      -> RawName(t, c)
      [] t.pc = "rawAfterName" -> RawAfterName(t, c)
      [] t.pc \in ScriptStates -> Script(t, c)

\* readByte returns z.err.
Ends(t) ==
    CASE t.pc \in {"text", "lessThan", "endTag"} -> EndOfText(t)
      [] t.pc \in {"name", "white", "key", "equals", "value", "quoted", "unquoted"} ->
           Returns(t, "error")
      [] t.pc = "declaration"  -> Returns(DataEnds(t, 0), "comment")
      [] t.pc \in {"doctype", "cdataWord"} ->
           Returns(DataEnds(DataStarts(t), 0), "comment")
      [] t.pc = "doctypeWhite" -> Returns(DataEnds(DataStarts(t), 0), "doctype")
      [] t.pc = "angle"        -> Returns(DataEnds(t, 0), t.tt)
      [] t.pc = "comment"      -> Returns(NotBefore(DataEnds(t, t.n)), "comment")
      [] t.pc = "bang"         -> Returns(DataEnds(t, 0), "comment")
      [] t.pc = "cdata"        -> Returns([DataEnds(t, 0) EXCEPT !.markup = FALSE], "text")
      [] OTHER                 -> EndOfRaw(t)

ReadByte ==
    /\ z.pc # "returned"
    /\ \/ Buffered /\ z' = Takes([z EXCEPT !.raw[2] = @ + 1], z.buf[z.raw[2] + 1])
       \/ AtEnd /\ z' = Ends([z EXCEPT !.err = TRUE])
    /\ UNCHANGED page

InputOver == z.pc = "returned" /\ z.tt = "error"

TokenizerNext == Next \/ ReadsInput \/ ReadByte \/ (InputOver /\ UNCHANGED tokenizerVars)

\* NewTokenizerFragment, with the first bytes read.
TokenizerInit ==
    /\ page \in Pages
    /\ z = [pc |-> "returned", tt |-> "none", buf |-> page.start, raw |-> <<0, 0>>,
            data |-> <<0, 0>>, key |-> <<0, 0>>, val |-> <<0, 0>>, attr |-> <<>>, start |-> FALSE,
            quote |-> "'", n |-> 0, else |-> "raw", rawTag |-> page.rawTag, markup |-> TRUE,
            cdata |-> page.cdata, eof |-> FALSE, err |-> FALSE]

TokenizerSpec == TokenizerInit /\ [][TokenizerNext]_tokenizerVars

-----------------------------------------------------------------------------
(* Properties. *)

Token == z.pc = "returned" /\ z.tt \notin {"none", "error"}
Inside(s, t) == t[1] <= s[1] /\ s[1] <= s[2] /\ s[2] <= t[2]
ByteAt(k) == IF k \in DOMAIN z.buf THEN z.buf[k] ELSE "none"
HasWord(s, word) == \E i \in 1..Len(s) - Len(word) + 1 : SubSeq(s, i, i + Len(word) - 1) = word

\* Every token takes at least a byte of the input, so that a client that calls
\* Next until the error ends, and its spans lie within what it took, wherever
\* readByte moved the bytes in between.
TokensAdvance ==
    /\ Token => z.raw[1] < z.raw[2] /\ Inside(z.data, z.raw)
    /\ z.raw[2] <= Len(z.buf)
    /\ z.tt \in {"start", "selfClosing"} /\ Token =>
           \A i \in DOMAIN z.attr : Inside(z.attr[i][1], z.raw) /\ Inside(z.attr[i][2], z.raw)

\* The spans of a tag show its name, keys and values: the name follows "<" or
\* "</", a key the bytes that end something, a value its quote, and none holds a
\* byte that ends it.
TagIsCut ==
    Token /\ z.tt \in {"start", "selfClosing", "end"} =>
        /\ ByteAt(z.data[1]) = (IF z.tt = "end" THEN "/" ELSE "<")
        /\ z.data[1] < z.data[2] /\ \A c \in TagEnd : ~HasWord(Part(z.data), <<c>>)
        /\ ByteAt(z.data[2] + 1) \in TagEnd
        /\ ByteAt(z.raw[2]) = ">"
        /\ \A i \in DOMAIN z.attr :
               LET k == z.attr[i][1]
                   v == z.attr[i][2]
                   q == ByteAt(v[1])
               IN /\ ByteAt(k[1]) \in TagEnd \cup Quotes \cup {"="}
                  /\ ByteAt(k[2] + 1) \in TagEnd \cup {"="}
                  /\ \A c \in TagEnd \cup {"="} : ~HasWord(Part(k), <<c>>)
                  /\ \/ v[1] = v[2]
                     \/ q \in Quotes /\ ByteAt(v[2] + 1) = q /\ ~HasWord(Part(v), <<q>>)
                     \/ q \in Space \cup {"="} /\ ByteAt(v[2] + 1) \in TagEnd
                        /\ ~HasWord(Part(v), <<">">>)

\* Text that is not raw holds no byte sequence that begins a tag, a comment or a
\* declaration, unless the input ends in it.
TextIsText ==
    Token /\ z.tt = "text" /\ z.markup /\ ~z.err =>
        \A c \in Letter \cup {"/", "!", "?"} : ~HasWord(Part(z.data), <<"<", c>>)

\* Raw text ends at the first end tag of its element, and comments and CDATA
\* sections at their end, except where the byte that would begin the end was
\* already taken: the "<" of "<</title>", and the "-" of "--!-->".
ClosesAt(s, word, before) ==
    \A i \in 1..Len(s) - Len(word) + 1 :
        SubSeq(s, i, i + Len(word) - 1) = word => i > 1 /\ s[i - 1] = before
Taken(from) == SubSeq(z.buf, from + 1, z.raw[2])
RawTextEnds ==
    /\ z.pc \in {"comment", "bang"} => ClosesAt(Taken(z.data[1]), <<"-", "-", ">">>, "!")
    /\ z.pc = "cdata" => ~HasWord(Taken(z.data[1]), <<"]", "]", ">">>)
    /\ z.pc \in {"raw", "rawLess", "rawName", "rawAfterName"} /\ z.rawTag = "t" =>
           \A c \in TagEnd : ClosesAt(Taken(z.raw[1]), <<"<", "/", "t", c>>, "<")
    /\ z.pc # "returned" /\ z.rawTag = "s" /\ ~HasWord(Taken(z.raw[1]), <<"<", "!", "-", "-">>) =>
           \A c \in TagEnd : ~HasWord(Taken(z.raw[1]), <<"<", "/", "s", c>>)

\* What the tokenizer returns is a cut of the input into tokens.
TokensAreRight == TokensAdvance /\ TagIsCut /\ TextIsText /\ RawTextEnds
=============================================================================
