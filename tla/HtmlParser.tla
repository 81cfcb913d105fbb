----------------------------- MODULE HtmlParser -----------------------------
(***************************************************************************)
(* The HTML5 parser of package html of go.net.  A step runs the insertion  *)
(* mode on the current token, which it consumes, or leaves to be processed *)
(* again, perhaps after tokens that it implies.  The tokenizer gives any   *)
(* token that the text mode it was put in allows.                          *)
(***************************************************************************)
EXTENDS HtmlTree

\* What the input is made of: its start tags, as <<tag, attr, self-closing>>, the
\* tags of its end tags, whether there are other tokens, ParseFragment's context
\* element ("none" for Parse), whether that is a form or in one, and a bound on the
\* input's length in tokens.
CONSTANT Inputs

ASSUME HtmlAssumption ==
    /\ \A i \in Inputs : i.max \in Nat
    /\ UnknownTags \cap {"none", ""} = {}

VARIABLES
    input,  \* one of the Inputs
    parser, \* the parser, with its tree
    tokens, \* how many tokens were read
    turns   \* steps since the last token was consumed

htmlVars == <<input, parser, tokens, turns>>

Token(type, tag, attr, self) == [type |-> type, tag |-> tag, attr |-> attr, self |-> self]
StartTag(tag) == Token("start", tag, "none", FALSE)
EndTag(tag) == Token("end", tag, "none", FALSE)
TextToken(look) == Token("text", look, "none", FALSE)
EOF == Token("error", "", "none", FALSE)
Prompt == Token("prompt", "", "none", FALSE)

Tok(p) == Head(p.toks)
Is(p, type) == Tok(p).type = type
TokAtom(p) == Atom(Tok(p).tag)
Start(p, tags) == Is(p, "start") /\ TokAtom(p) \in tags
End(p, tags) == Is(p, "end") /\ TokAtom(p) \in tags

-----------------------------------------------------------------------------
(* Mistakes the code does not make; each must break a property. *)

BugStays(p, tok) == p
BugNoReset(p) == p

-----------------------------------------------------------------------------
(* How a step ends. *)

Consume(p) == [p EXCEPT !.toks = Tail(@)]
\* The tokens are parsed before the current one is processed again.
Implies(p, toks) == [p EXCEPT !.toks = toks \o @]
Becomes(p, tok) == [p EXCEPT !.toks[1] = tok]
Mode(p, im) == [p EXCEPT !.im = im]
NotFrameset(p) == [p EXCEPT !.framesetOK = FALSE]

AddElement(p) == AddChild(p, Element(Tok(p).tag, Tok(p).attr))
AddVoid(p) == Pop(AddElement(p))
AddComment(p) == Consume(AddChild(p, Comment))
AddToDocument(p, type) ==
    LET q == MakeNode(p, NewNode(type, "", "none")) IN AppendChild(q, Doc, Newest(q))

\* The space at the start of a text; what is left is all of it that comes next.
IsSpace(p) == Is(p, "text") /\ Tok(p).tag = "space"
TrimLeft(p) ==
    IF Is(p, "text") /\ Tok(p).tag = "mixed" THEN Becomes(p, TextToken("word")) ELSE p
\* Modes that keep the space and leave the word to the next.
KeepsSpace(p) ==
    IF Is(p, "text") /\ Tok(p).tag = "mixed" THEN TrimLeft(AddText(p, "space")) ELSE p

\* setOriginalIM panics if it is called twice.
ToText(p) ==
    IF p.originalIM # "none" THEN Panic(p) ELSE [p EXCEPT !.originalIM = p.im, !.im = "text"]

\* resetInsertionMode does not look at namespaces.
ModeFor(tag) ==
    CASE tag = "select"                    -> "inSelect"
      [] tag \in {"td", "th"}              -> "inCell"
      [] tag = "tr"                        -> "inRow"
      [] tag \in {"tbody", "thead", "tfoot"} -> "inTableBody"
      [] tag = "caption"                   -> "inCaption"
      [] tag = "colgroup"                  -> "inColumnGroup"
      [] tag = "table"                     -> "inTable"
      [] tag \in {"head", "body"}          -> "inBody"
      [] tag = "frameset"                  -> "inFrameset"
      [] tag = "html"                      -> "beforeHead"
      [] OTHER                             -> "none"
ResetInsertionMode(p) ==
    LET mode(i) == ModeFor(IF i = 1 /\ p.context # "none" THEN Atom(p.context)
                           ELSE AtomOf(p, p.oe[i]))
        at == Greatest({i \in DOMAIN p.oe : mode(i) # "none"})
        foreign == at # 0 /\ NsOf(p, p.oe[at]) # ""
    IN [p EXCEPT !.im = IF at = 0 THEN "inBody" ELSE mode(at), !.misled = @ \/ foreign]

-----------------------------------------------------------------------------
(* Foreign content. *)

IsSpecial(p, n) ==
    CASE NsOf(p, n) = ""    -> TagOf(p, n) \in
           {"address", "applet", "area", "article", "aside", "base", "basefont", "bgsound",
            "blockquote", "body", "br", "button", "caption", "center", "col", "colgroup",
            "command", "dd", "details", "dir", "div", "dl", "dt", "embed", "fieldset",
            "figcaption", "figure", "footer", "form", "frame", "frameset", "h1", "h2", "h3",
            "h4", "h5", "h6", "head", "header", "hgroup", "hr", "html", "iframe", "img",
            "input", "isindex", "li", "link", "listing", "marquee", "menu", "meta", "nav",
            "noembed", "noframes", "noscript", "object", "ol", "p", "param", "plaintext",
            "pre", "script", "section", "select", "style", "summary", "table", "tbody", "td",
            "textarea", "tfoot", "th", "thead", "title", "tr", "ul", "wbr", "xmp"}
      [] NsOf(p, n) = "svg" -> TagOf(p, n) = "foreignObject"
      [] OTHER              -> FALSE

HtmlIntegrationPoint(p, n) ==
    CASE NsOf(p, n) = "math" -> TagOf(p, n) = "annotation-xml" /\ p.node[n].attr = "html"
      [] NsOf(p, n) = "svg"  -> TagOf(p, n) \in {"desc", "foreignObject", "title"}
      [] OTHER               -> FALSE
MathMLTextIntegrationPoint(p, n) ==
    NsOf(p, n) = "math" /\ TagOf(p, n) \in {"mi", "mo", "mn", "ms", "mtext"}

InForeignContent(p) ==
    LET n == Top(p)
    IN /\ p.oe # <<>> /\ NsOf(p, n) # ""
       /\ ~(/\ MathMLTextIntegrationPoint(p, n)
            /\ Is(p, "text") \/ (Is(p, "start") /\ TokAtom(p) \notin {"mglyph", "malignmark"}))
       /\ ~(AtomOf(p, n) = "annotation-xml" /\ NsOf(p, n) = "math" /\ Start(p, {"svg"}))
       /\ ~(HtmlIntegrationPoint(p, n) /\ (Is(p, "start") \/ Is(p, "text")))
       /\ ~Is(p, "error")

Breakout ==
    {"b", "big", "blockquote", "body", "br", "center", "code", "dd", "div", "dl", "dt", "em",
     "embed", "h1", "h2", "h3", "h4", "h5", "h6", "head", "hr", "i", "img", "li", "listing",
     "menu", "meta", "nobr", "ol", "p", "pre", "ruby", "s", "small", "span", "strong",
     "strike", "sub", "sup", "table", "tt", "u", "ul", "var"}
BreaksOut(p) ==
    Is(p, "start") /\ (Tok(p).tag \in Breakout \/ (Tok(p).tag = "font" /\ Tok(p).attr = "face"))

\* Of the tag names with capitals in SVG one matters to the parser.
Adjusted(ns, tag) == IF ns = "svg" /\ tag = "foreignobject" THEN "foreignObject" ELSE tag
Fold(tag) == IF tag = "foreignObject" THEN "foreignobject" ELSE tag

\* A new element gets its namespace, and may be closed at once.
Foreign(p, ns) ==
    LET q == AddChild(p, Element(Adjusted(ns, Tok(p).tag), Tok(p).attr))
        r == [q EXCEPT !.node[Top(q)].ns = ns]
    IN IF Tok(p).self THEN Pop(r) ELSE r

\* The html element or integration point that a breakout tag goes back to.
BackToHtml(p) ==
    LET stops(n) ==
          NsOf(p, n) = "" \/ HtmlIntegrationPoint(p, n) \/ MathMLTextIntegrationPoint(p, n)
    IN [p EXCEPT !.oe = Upto(@, Greatest({i \in DOMAIN p.oe : stops(p.oe[i])}))]

ForeignText(p) ==
    Consume(AddText(IF IsSpace(p) THEN p ELSE NotFrameset(p), Tok(p).tag))

\* The open element that an end tag names, if no html element is above it.
ForeignClosed(p) ==
    Greatest({i \in DOMAIN p.oe :
                NsOf(p, p.oe[i]) = "" \/ Fold(TagOf(p, p.oe[i])) = Fold(Tok(p).tag)})

-----------------------------------------------------------------------------
(* The adoption agency. *)

EndTagOther(p, atom) ==
    LET i == Greatest({k \in DOMAIN p.oe : AtomOf(p, p.oe[k]) = atom \/ IsSpecial(p, p.oe[k])})
    IN IF i # 0 /\ AtomOf(p, p.oe[i]) = atom THEN [p EXCEPT !.oe = Upto(@, i - 1)] ELSE p

\* An open element is replaced by its clone, in both lists.
Swap(stack, n, m) == [i \in DOMAIN stack |-> IF i = IndexOf(stack, n) THEN m ELSE stack[i]]
Replace(p, n, clone) ==
    [Clone(p, n) EXCEPT !.afe = Swap(@, n, clone), !.oe = Swap(@, n, clone)]
\* Node n becomes the last child of a newer one.
GoesUnder(p, n, parent) == AppendChild(Detach(p, n), parent, n)

\* The inner loop; s.x is its place in the stack, s.last the node to move.
AdoptStep(s, block, fe) ==
    LET x == s.x - 1
        node == s.p.oe[x]
        clone == Newest(s.p) + 1
    IN IF s.over THEN s
       ELSE IF IndexOf(s.p.afe, node) = 0 THEN [s EXCEPT !.p.oe = Without(@, node), !.x = x]
       ELSE IF node = fe THEN [s EXCEPT !.over = TRUE]
       ELSE [p |-> GoesUnder(Replace(s.p, node, clone), s.last, clone), x |-> x, last |-> clone,
             mark |-> IF s.last = block THEN IndexOf(s.p.afe, node) + 1 ELSE s.mark,
             over |-> FALSE]

\* Node n, detached, goes to the common ancestor, or before the table.
Reparents(p, n, ancestor) ==
    IF AtomOf(p, ancestor) \in TableTags THEN FosterParent(p, n) ELSE AppendChild(p, ancestor, n)
\* The newest node takes the children of the block, and its place in it.
TakesChildren(p, block) ==
    AppendChild(ReparentChildren(p, Newest(p), block), block, Newest(p))
\* It is listed in place of fe: at the bookmark, and open above the block.
Relists(p, fe, block, mark) ==
    LET at == IndexOf(p.afe, fe)
    IN [p EXCEPT
          !.afe = InsertAt(Without(@, fe), IF at # 0 /\ at < mark THEN mark - 1 ELSE mark, Newest(p)),
          !.oe = LET oe == Without(@, fe) IN InsertAt(oe, IndexOf(oe, block) + 1, Newest(p))]

\* One turn: fe is the formatting element, block the furthest block above it.
Adopt(p, fe, block) ==
    LET ancestor == p.oe[IndexOf(p.oe, fe) - 1]
        inner[j \in 0..3] ==
            IF j > 0 THEN AdoptStep(inner[j - 1], block, fe)
            ELSE [p |-> p, x |-> IndexOf(p.oe, block), last |-> block,
                  mark |-> IndexOf(p.afe, fe), over |-> FALSE]
        Outer(s) == Reparents(Detach(s.p, s.last), s.last, ancestor)
    IN Relists(TakesChildren(Clone(Outer(inner[3]), fe), block), fe, block, inner[3].mark)

\* The outer loop's body; done tells that it has returned.
AgencyTurn(s, atom) ==
    LET p == s.p
        f == Greatest({i \in DOMAIN p.afe : p.afe[i] = Marker \/ AtomOf(p, p.afe[i]) = atom})
        fe == p.afe[f]
        at == IndexOf(p.oe, fe)
        blocks == {i \in at..Len(p.oe) : IsSpecial(p, p.oe[i])}
        block == p.oe[CHOOSE i \in blocks : \A j \in blocks : i <= j]
        Ends(q) == [p |-> q, done |-> TRUE]
    IN IF s.done THEN s
       ELSE IF f = 0 \/ p.afe[f] = Marker THEN Ends(EndTagOther(p, atom))
       ELSE IF at = 0 THEN Ends([p EXCEPT !.afe = Without(@, fe)])
       ELSE IF ~InScope(p, "default", {atom}) THEN Ends(p)
       ELSE IF blocks = {}
            THEN Ends([p EXCEPT !.oe = Upto(@, at - 1), !.afe = Without(@, fe)])
       ELSE [p |-> Adopt(p, fe, block), done |-> FALSE]

EndTagFormatting(p, atom) ==
    LET outer[i \in 0..8] ==
            IF i = 0 THEN [p |-> p, done |-> FALSE] ELSE AgencyTurn(outer[i - 1], atom)
    IN outer[8].p

-----------------------------------------------------------------------------
(* In body. *)

Blocks ==
    {"address", "article", "aside", "blockquote", "center", "details", "dir", "div", "dl",
     "fieldset", "figcaption", "figure", "footer", "header", "hgroup", "menu", "nav", "ol",
     "section", "summary", "ul"}
Headings == {"h1", "h2", "h3", "h4", "h5", "h6"}
Formatting ==
    {"b", "big", "code", "em", "font", "i", "s", "small", "strike", "strong", "tt", "u"}
HeadTags ==
    {"base", "basefont", "bgsound", "command", "link", "meta", "noframes", "script", "style",
     "title"}
TableParts == {"caption", "col", "colgroup", "tbody", "td", "tfoot", "th", "thead", "tr"}
TableBodies == {"tbody", "tfoot", "thead"}

\* What the rules of an insertion mode make of the token: they may hand it to those of
\* another mode.
RECURSIVE Rules(_, _)

\* <html> adds its attributes to the element that is there.
HtmlStart(p) == Start(p, {"html"})

InHead(p) ==
    CASE IsSpace(p)   -> Consume(AddText(p, "space"))
      [] HtmlStart(p) -> Consume(p)
      [] Start(p, {"base", "basefont", "bgsound", "command", "link", "meta"}) ->
           Consume(AddVoid(p))
      [] Start(p, {"script", "title", "noscript", "noframes", "style"}) ->
           Consume(ToText(AddElement(p)))
      [] End(p, {"head"}) ->
           IF TopIs(p, {"head"}) THEN Consume(Mode(Pop(p), "afterHead")) ELSE Panic(p)
      [] Start(p, {"head"}) \/ (Is(p, "end") /\ TokAtom(p) \notin {"head", "body", "html", "br"})
            \/ Is(p, "doctype") -> Consume(p)
      [] Is(p, "comment") -> AddComment(p)
      [] OTHER -> Implies(KeepsSpace(p), <<EndTag("head")>>)

BodyText(p) ==
    LET q == AddText(ReconstructFormatting(p), Tok(p).tag)
    IN Consume(IF IsSpace(p) THEN q ELSE NotFrameset(q))

\* <li>, and <dd> or <dt>, close the last one that nothing special is above.
ClosesItem(p, tags) ==
    LET stops(n) ==
          AtomOf(p, n) \in tags \/ (IsSpecial(p, n) /\ AtomOf(p, n) \notin {"address", "div", "p"})
        i == Greatest({k \in DOMAIN p.oe : stops(p.oe[k])})
    IN IF i # 0 /\ AtomOf(p, p.oe[i]) \in tags THEN [p EXCEPT !.oe = Upto(@, i - 1)] ELSE p

\* (A mistake: the stack keeps the body that is removed.)
BugKeepsBody(p) ==
    IF ~p.framesetOK \/ Len(p.oe) < 2 \/ AtomOf(p, p.oe[2]) # "body" THEN Consume(p)
    ELSE Consume(Mode(AddElement(Detach(p, p.oe[2])), "inFrameset"))

\* <frameset> takes the place of a body in which nothing is seen.
FramesetInBody(p) ==
    IF ~p.framesetOK \/ Len(p.oe) < 2 \/ AtomOf(p, p.oe[2]) # "body" THEN Consume(p)
    ELSE LET q == [Detach(p, p.oe[2]) EXCEPT !.oe = Upto(@, 1)]
         IN Consume(Mode(AddElement(q), "inFrameset"))

\* Start tags that close a p element.
BodyBlock(p) ==
    LET q == ClosesP(p)
    IN CASE Start(p, Blocks \cup {"p", "plaintext"}) -> AddElement(q)
         [] Start(p, Headings) -> AddElement(IF TopIs(q, Headings) THEN Pop(q) ELSE q)
         [] Start(p, {"pre", "listing"}) -> NotFrameset(AddElement(q))
         [] Start(p, {"form"}) ->
              IF p.form # 0 THEN p ELSE [AddElement(q) EXCEPT !.form = Len(p.node) + 1]
         [] Start(p, {"li"}) -> NotFrameset(AddElement(ClosesP(ClosesItem(p, {"li"}))))
         [] Start(p, {"dd", "dt"}) -> NotFrameset(AddElement(ClosesP(ClosesItem(p, {"dd", "dt"}))))
         [] Start(p, {"hr"}) -> NotFrameset(AddVoid(q))

\* A second <a> ends the first.
EndsAnchor(p) ==
    LET i == Greatest({k \in DOMAIN p.afe : p.afe[k] = Marker \/ AtomOf(p, p.afe[k]) = "a"})
        a == p.afe[i]
        q == EndTagFormatting(p, "a")
    IN IF i = 0 \/ p.afe[i] = Marker THEN p
       ELSE [q EXCEPT !.oe = Without(@, a), !.afe = Without(@, a)]
EndsNobr(p) ==
    IF InScope(p, "default", {"nobr"})
    THEN ReconstructFormatting(EndTagFormatting(p, "nobr")) ELSE p

BodyFormatting(p) ==
    LET q == CASE Start(p, {"a"})      -> ReconstructFormatting(EndsAnchor(p))
               [] Start(p, {"nobr"})   -> EndsNobr(ReconstructFormatting(p))
               [] Start(p, Formatting) -> ReconstructFormatting(p)
    IN AddFormattingElement(q, Tok(p).tag, Tok(p).attr)

\* Start tags that reopen the formatting elements and hide what was visible.
BodyInline(p) ==
    LET q == ReconstructFormatting(p)
    IN CASE Start(p, {"button"}) ->
              NotFrameset(AddElement(ReconstructFormatting(PopUntil(p, "default", {"button"}))))
         [] Start(p, {"applet", "marquee", "object"}) -> NotFrameset(PushMarker(AddElement(q)))
         [] Start(p, {"area", "br", "embed", "img", "input", "keygen", "wbr"}) ->
              IF Start(p, {"input"}) /\ Tok(p).attr = "hidden" THEN AddVoid(q)
              ELSE NotFrameset(AddVoid(q))
         [] Start(p, {"select"}) -> Mode(NotFrameset(AddElement(q)), "inSelect")
         [] Start(p, {"optgroup", "option"}) ->
              AddElement(ReconstructFormatting(IF TopIs(p, {"option"}) THEN Pop(p) ELSE p))

\* Elements whose content is text.
BodyRaw(p) ==
    CASE Start(p, {"textarea", "iframe"}) -> ToText(NotFrameset(AddElement(p)))
      [] Start(p, {"xmp"}) ->
           ToText(AddElement(NotFrameset(ReconstructFormatting(ClosesP(p)))))
      [] Start(p, {"noembed", "noscript"}) -> ToText(AddElement(p))

\* <isindex> stands for a form with a label.  The prompt and the input in it are added
\* as they are, by no mode; in a table the form's rules have ended foster parenting.
Isindex(p) ==
    IF p.form # 0 THEN Consume(p)
    ELSE Implies(Consume(ClosesP(p)),
                 <<StartTag("form"), StartTag("hr"), StartTag("label"), Prompt,
                   EndTag("label"), StartTag("hr"), EndTag("form")>>)
AddsPrompt(p) == Consume(Pop(AddChild(AddText(p, "word"), Element("input", "none"))))

BodyStart(p) ==
    CASE HtmlStart(p) -> Consume(p)
      [] Start(p, HeadTags) -> Rules("inHead", p)
      [] Start(p, {"body"}) ->
           Consume(IF Len(p.oe) >= 2 /\ AtomOf(p, p.oe[2]) = "body" THEN NotFrameset(p) ELSE p)
      [] Start(p, {"frameset"}) -> FramesetInBody(p)
      [] Start(p, Blocks \cup Headings
                  \cup {"p", "plaintext", "pre", "listing", "form", "li", "dd", "dt", "hr"}) ->
           Consume(BodyBlock(p))
      [] Start(p, Formatting \cup {"a", "nobr"}) -> Consume(BodyFormatting(p))
      [] Start(p, {"button", "applet", "marquee", "object", "area", "br", "embed", "img",
                   "input", "keygen", "wbr", "select", "optgroup", "option"}) ->
           Consume(BodyInline(p))
      [] Start(p, {"table"}) ->
           Consume(Mode(NotFrameset(AddElement(IF p.quirks THEN p ELSE ClosesP(p))), "inTable"))
      [] Start(p, {"param", "source", "track"}) -> Consume(AddVoid(p))
      [] Start(p, {"image"}) -> Becomes(p, [Tok(p) EXCEPT !.tag = "img"])
      [] Start(p, {"isindex"}) -> Isindex(p)
      [] Start(p, {"textarea", "xmp", "iframe", "noembed", "noscript"}) -> Consume(BodyRaw(p))
      [] Start(p, {"rp", "rt"}) ->
           Consume(AddElement(IF InScope(p, "default", {"ruby"})
                              THEN GenerateImpliedEndTags(p) ELSE p))
      [] Start(p, {"math", "svg"}) -> Consume(Foreign(ReconstructFormatting(p), Tok(p).tag))
      [] Start(p, (TableParts \cup {"frame", "head"})) -> Consume(p)
      [] OTHER -> Consume(AddElement(ReconstructFormatting(p)))

EndForm(p) ==
    LET i == IndexInScope(p, "default", {"form"})
        q == [p EXCEPT !.form = 0]
    IN IF p.form = 0 \/ i = 0 \/ p.oe[i] # p.form THEN q
       ELSE [GenerateImpliedEndTags(q) EXCEPT !.oe = Without(@, p.form)]

BodyEnd(p) ==
    CASE End(p, {"body"}) ->
           Consume(IF InScope(p, "default", {"body"}) THEN Mode(p, "afterBody") ELSE p)
      [] End(p, {"html"}) ->
           IF InScope(p, "default", {"body"}) THEN Implies(p, <<EndTag("body")>>) ELSE Consume(p)
      [] End(p, Blocks \cup {"button", "listing", "pre", "dd", "dt"}) ->
           Consume(PopUntil(p, "default", {TokAtom(p)}))
      [] End(p, {"form"}) -> Consume(EndForm(p))
      [] End(p, {"p"}) ->
           IF InScope(p, "button", {"p"}) THEN Consume(ClosesP(p)) ELSE Implies(p, <<StartTag("p")>>)
      [] End(p, {"li"}) -> Consume(PopUntil(p, "listItem", {"li"}))
      [] End(p, Headings) -> Consume(PopUntil(p, "default", Headings))
      [] End(p, Formatting \cup {"a", "nobr"}) -> Consume(EndTagFormatting(p, TokAtom(p)))
      [] End(p, {"applet", "marquee", "object"}) ->
           Consume(IF InScope(p, "default", {TokAtom(p)})
                   THEN ClearFormatting(PopUntil(p, "default", {TokAtom(p)})) ELSE p)
      [] End(p, {"br"}) -> Becomes(p, [Tok(p) EXCEPT !.type = "start"])
      [] OTHER -> Consume(EndTagOther(p, TokAtom(p)))

InBody(p) ==
    CASE Is(p, "text")    -> BodyText(p)
      [] Is(p, "start")   -> BodyStart(p)
      [] Is(p, "end")     -> BodyEnd(p)
      [] Is(p, "comment") -> AddComment(p)
      [] OTHER            -> Consume(p)

-----------------------------------------------------------------------------
(* The other insertion modes. *)

Initial(p) ==
    CASE IsSpace(p)       -> Consume(p)
      [] Is(p, "comment") -> Consume(AddToDocument(p, "comment"))
      [] Is(p, "doctype") ->
           Consume([Mode(AddToDocument(p, "doctype"), "beforeHTML") EXCEPT
                      !.quirks = Tok(p).attr = "quirks"])
      [] OTHER -> [Mode(TrimLeft(p), "beforeHTML") EXCEPT !.quirks = TRUE]

\* An end tag that stands for the tags before it, or is ignored.
IgnoredEnd(p) == Is(p, "end") /\ TokAtom(p) \notin {"head", "body", "html", "br"}

BeforeHTML(p) ==
    CASE IsSpace(p) \/ Is(p, "doctype") \/ IgnoredEnd(p) -> Consume(p)
      [] HtmlStart(p)     -> Consume(Mode(AddElement(p), "beforeHead"))
      [] Is(p, "comment") -> Consume(AddToDocument(p, "comment"))
      [] OTHER            -> Implies(TrimLeft(p), <<StartTag("html")>>)

BeforeHead(p) ==
    CASE IsSpace(p) \/ Is(p, "doctype") \/ IgnoredEnd(p) \/ HtmlStart(p) -> Consume(p)
      [] Start(p, {"head"}) ->
           Consume([Mode(AddElement(p), "inHead") EXCEPT !.head = Len(p.node) + 1])
      [] Is(p, "comment") -> AddComment(p)
      [] OTHER            -> Implies(TrimLeft(p), <<StartTag("head")>>)

\* (The body that is implied leaves framesetOK set: see BodyImplied.)
AfterHead(p) ==
    CASE IsSpace(p) -> Consume(AddText(p, "space"))
      [] Start(p, {"body"}) ->
           Consume([Mode(AddElement(p), "inBody") EXCEPT !.framesetOK = Tok(p).attr = "implied"])
      [] Start(p, {"frameset"}) -> Consume(Mode(AddElement(p), "inFrameset"))
      [] Start(p, HeadTags \ {"command"}) ->
           [Rules("inHead", [p EXCEPT !.oe = Append(@, p.head)]) EXCEPT !.oe = Without(@, p.head)]
      [] HtmlStart(p) \/ Start(p, {"head"}) \/ Is(p, "doctype")
            \/ (Is(p, "end") /\ TokAtom(p) \notin {"body", "html", "br"}) -> Consume(p)
      [] Is(p, "comment") -> AddComment(p)
      [] OTHER -> Implies(KeepsSpace(p), <<Token("start", "body", "implied", FALSE)>>)

TextMode(p) ==
    IF Is(p, "text") THEN Consume(AddText(p, Tok(p).tag))
    ELSE LET q == [IF Is(p, "error") \/ Is(p, "end") THEN Pop(p) ELSE p EXCEPT
                     !.im = p.originalIM, !.originalIM = "none"]
         IN IF Is(p, "end") THEN Consume(q) ELSE q

InTableByBody(p) == [Rules("inBody", [p EXCEPT !.foster = TRUE]) EXCEPT !.foster = FALSE]

SelectInTable(p) ==
    LET q == ReconstructFormatting(p)
        r == [AddElement([q EXCEPT !.foster = TopIs(q, TableTags)]) EXCEPT !.foster = FALSE]
    IN Consume(Mode(NotFrameset(r), "inSelectInTable"))

\* The table ends, by its end tag or by another table.
EndsTable(p) == ResetInsertionMode(PopUntil(p, "table", {"table"}))

InTable(p) ==
    LET q == ClearStack(p, {"html", "table"})
    IN CASE Is(p, "error") \/ Is(p, "doctype") -> Consume(p)
         [] IsSpace(p) /\ TopIs(p, TableTags) -> Consume(AddText(p, "space"))
         [] Start(p, {"caption"}) -> Consume(Mode(AddElement(PushMarker(q)), "inCaption"))
         [] Start(p, {"colgroup"}) -> Consume(Mode(AddElement(q), "inColumnGroup"))
         [] Start(p, {"col"}) -> Implies(p, <<StartTag("colgroup")>>)
         [] Start(p, TableBodies) -> Consume(Mode(AddElement(q), "inTableBody"))
         [] Start(p, {"td", "th", "tr"}) -> Implies(p, <<StartTag("tbody")>>)
         [] Start(p, {"table"}) /\ InScope(p, "table", {"table"}) -> EndsTable(p)
         [] End(p, {"table"}) /\ InScope(p, "table", {"table"}) -> Consume(EndsTable(p))
         [] Start(p, {"style", "script"}) -> Rules("inHead", p)
         [] Start(p, {"input"}) /\ Tok(p).attr = "hidden" -> Consume(AddVoid(p))
         [] Start(p, {"form"}) ->
              IF p.form # 0 THEN Consume(p)
              ELSE InTableByBody([AddVoid(p) EXCEPT !.form = Len(p.node) + 1])
         [] Start(p, {"select"}) -> SelectInTable(p)
         [] \/ /\ Start(p, {"table"}) \/ End(p, {"table"})
               /\ ~InScope(p, "table", {"table"})
            \/ End(p, TableParts \cup {"body", "html"}) -> Consume(p)
         [] Is(p, "comment") -> AddComment(p)
         [] OTHER -> InTableByBody(p)

\* Pop the innermost of the tags, if it is in table scope, and go on in mode im;
\* otherwise ignore the token.
Leave(p, tags, im) ==
    IF InScope(p, "table", tags) THEN Mode(PopUntil(p, "table", tags), im) ELSE Consume(p)
\* The same, but the token is consumed.
LeaveBy(p, tags, im) ==
    IF InScope(p, "table", tags) THEN Consume(Leave(p, tags, im)) ELSE Consume(p)
\* A caption or a cell has its own formatting elements.
Forgets(p, q) == IF q.im # p.im THEN ClearFormatting(q) ELSE q

SelectInPart(p) ==
    Consume(Mode(NotFrameset(AddElement(ReconstructFormatting(p))), "inSelectInTable"))

InCaption(p) ==
    CASE Start(p, TableParts \ {"th"}) \/ End(p, {"table"}) ->
           Forgets(p, Leave(p, {"caption"}, "inTable"))
      [] Start(p, {"select"}) -> SelectInPart(p)
      [] End(p, {"caption"}) -> Forgets(p, LeaveBy(p, {"caption"}, "inTable"))
      [] End(p, (TableParts \ {"caption"}) \cup {"body", "html"}) -> Consume(p)
      [] OTHER -> Rules("inBody", p)

InColumnGroup(p) ==
    LET pops == ~TopIs(p, {"html"})
    IN CASE IsSpace(p) -> Consume(AddText(p, "space"))
         [] Is(p, "comment") -> AddComment(p)
         [] Is(p, "doctype") \/ HtmlStart(p) \/ End(p, {"col"}) -> Consume(p)
         [] Start(p, {"col"}) -> Consume(AddVoid(p))
         [] End(p, {"colgroup"}) -> Consume(IF pops THEN Mode(Pop(p), "inTable") ELSE p)
         [] OTHER ->
              IF pops THEN Mode(Pop(KeepsSpace(p)), "inTable") ELSE Consume(KeepsSpace(p))

InTableBody(p) ==
    LET q == ClearStack(p, TableBodies \cup {"html"})
    IN CASE Start(p, {"tr"}) -> Consume(Mode(AddElement(q), "inRow"))
         [] Start(p, {"td", "th"}) -> Implies(p, <<StartTag("tr")>>)
         [] Start(p, {"caption", "col", "colgroup"} \cup TableBodies) \/ End(p, {"table"}) ->
              Leave(p, TableBodies, "inTable")
         [] End(p, TableBodies) ->
              Consume(IF InScope(p, "table", {TokAtom(p)}) THEN Mode(Pop(q), "inTable") ELSE p)
         [] End(p, {"body", "caption", "col", "colgroup", "html", "td", "th", "tr"}) -> Consume(p)
         [] Is(p, "comment") -> AddComment(p)
         [] OTHER -> Rules("inTable", p)

InRow(p) ==
    LET q == ClearStack(p, {"html", "tr"})
    IN CASE Start(p, {"td", "th"}) -> Consume(Mode(PushMarker(AddElement(q)), "inCell"))
         [] Start(p, TableParts \ {"td", "th"}) \/ End(p, {"table"}) ->
              Leave(p, {"tr"}, "inTableBody")
         [] End(p, {"tr"}) -> LeaveBy(p, {"tr"}, "inTableBody")
         [] End(p, TableBodies) ->
              IF InScope(p, "table", {TokAtom(p)}) THEN Implies(p, <<EndTag("tr")>>)
              ELSE Consume(p)
         [] End(p, {"body", "caption", "col", "colgroup", "html", "td", "th"}) -> Consume(p)
         [] OTHER -> Rules("inTable", p)

\* "Close the cell and reprocess."
ClosesCell(p) == Mode(ClearFormatting(PopUntil(p, "table", {"td", "th"})), "inRow")

InCell(p) ==
    CASE Start(p, TableParts) -> Forgets(p, Leave(p, {"td", "th"}, "inRow"))
      [] Start(p, {"select"}) -> SelectInPart(p)
      [] End(p, {"td", "th"}) -> Forgets(p, LeaveBy(p, {TokAtom(p)}, "inRow"))
      [] End(p, {"body", "caption", "col", "colgroup", "html"}) -> Consume(p)
      [] End(p, TableTags) ->
           IF InScope(p, "table", {TokAtom(p)}) THEN ClosesCell(p) ELSE Consume(p)
      [] OTHER -> Rules("inBody", p)

PopIf(p, tag) == IF TopIs(p, {tag}) THEN Pop(p) ELSE p

InSelect(p) ==
    CASE Is(p, "text") -> Consume(AddText(p, Tok(p).tag))
      [] Start(p, {"option"}) -> Consume(AddElement(PopIf(p, "option")))
      [] Start(p, {"optgroup"}) -> Consume(AddElement(PopIf(PopIf(p, "option"), "optgroup")))
      [] Start(p, {"select"}) -> Becomes(p, [Tok(p) EXCEPT !.type = "end"])
      [] Start(p, {"input", "keygen", "textarea"}) ->
           IF InScope(p, "select", {"select"}) THEN Implies(p, <<EndTag("select")>>)
           ELSE Consume([p EXCEPT !.raw = "none"])
      [] Start(p, {"script"}) -> Rules("inHead", p)
      [] End(p, {"option"}) -> Consume(PopIf(p, "option"))
      [] End(p, {"optgroup"}) ->
           LET q == PopIf(p, "option")
           IN Consume(IF TopIs(q, {"optgroup"}) THEN Pop(q) ELSE p)
      [] End(p, {"select"}) ->
           Consume(IF InScope(p, "select", {"select"})
                   THEN ResetInsertionMode(PopUntil(p, "select", {"select"})) ELSE p)
      [] Is(p, "comment") -> AddComment(p)
      [] OTHER -> Consume(p)

InSelectInTable(p) ==
    LET tags == TableTags \cup {"caption", "td", "th"}
    IN IF Start(p, tags) \/ (End(p, tags) /\ InScope(p, "table", {TokAtom(p)}))
       THEN Implies(p, <<EndTag("select")>>)
       ELSE IF End(p, tags) THEN Consume(p) ELSE Rules("inSelect", p)

\* Modes after the body: space and <html> are treated as in the body.
AsInBody(p) == IsSpace(p) \/ HtmlStart(p)

AfterBody(p) ==
    CASE Is(p, "error")  -> Consume(p)
      [] AsInBody(p)     -> Rules("inBody", p)
      [] End(p, {"html"}) -> Consume(IF p.context = "none" THEN Mode(p, "afterAfterBody") ELSE p)
      [] Is(p, "comment") ->
           IF p.oe = <<>> \/ AtomOf(p, p.oe[1]) # "html" THEN Panic(p)
           ELSE LET q == MakeNode(p, Comment) IN Consume(AppendChild(q, p.oe[1], Newest(q)))
      [] OTHER -> Mode(p, "inBody")

InFrameset(p) ==
    CASE Is(p, "comment") -> AddComment(p)
      [] Is(p, "text") -> Consume(IF Tok(p).tag = "word" THEN p ELSE AddText(p, "space"))
      [] Start(p, {"frameset"}) -> Consume(AddElement(p))
      [] Start(p, {"frame"}) -> Consume(AddVoid(p))
      [] Start(p, {"noframes"}) -> Rules("inHead", p)
      [] End(p, {"frameset"}) /\ ~TopIs(p, {"html"}) ->
           LET q == Pop(p)
           IN Consume(IF TopIs(q, {"frameset"}) THEN q ELSE Mode(q, "afterFrameset"))
      [] OTHER -> Consume(p)

AfterFrameset(p) ==
    CASE Is(p, "comment") -> AddComment(p)
      [] Is(p, "text") -> Consume(IF Tok(p).tag = "word" THEN p ELSE AddText(p, "space"))
      [] Start(p, {"noframes"}) -> Rules("inHead", p)
      [] End(p, {"html"}) -> Consume(Mode(p, "afterAfterFrameset"))
      [] OTHER -> Consume(p)

AfterAfterBody(p) ==
    CASE Is(p, "error")   -> Consume(p)
      [] AsInBody(p) \/ Is(p, "doctype") -> Rules("inBody", p)
      [] Is(p, "comment") -> Consume(AddToDocument(p, "comment"))
      [] OTHER            -> Mode(p, "inBody")

AfterAfterFrameset(p) ==
    CASE Is(p, "comment") -> Consume(AddToDocument(p, "comment"))
      [] Is(p, "text") /\ Tok(p).tag # "word" -> Rules("inBody", Becomes(p, TextToken("space")))
      [] HtmlStart(p) \/ Is(p, "doctype") -> Rules("inBody", p)
      [] Start(p, {"noframes"}) -> Rules("inHead", p)
      [] OTHER -> Consume(p)

\* parseForeignContent.
ParseForeignContent(p) ==
    CASE Is(p, "text")    -> ForeignText(p)
      [] Is(p, "comment") -> AddComment(p)
      [] BreaksOut(p)     -> BackToHtml(p)
      [] Is(p, "start") /\ ~BreaksOut(p) ->
           Consume([Foreign(p, NsOf(p, Top(p))) EXCEPT !.raw = "none"])
      [] Is(p, "end") /\ ForeignClosed(p) # 0 ->
           IF NsOf(p, p.oe[ForeignClosed(p)]) = "" THEN Rules(p.im, p)
           ELSE Consume([p EXCEPT !.oe = Upto(@, ForeignClosed(p) - 1)])
      [] OTHER -> Consume(p)

-----------------------------------------------------------------------------
(* The parser. *)

Rules(im, p) ==
    CASE im = "initial"           -> Initial(p)
      [] im = "beforeHTML"        -> BeforeHTML(p)
      [] im = "beforeHead"        -> BeforeHead(p)
      [] im = "inHead"            -> InHead(p)
      [] im = "afterHead"         -> AfterHead(p)
      [] im = "inBody"            -> InBody(p)
      [] im = "text"              -> TextMode(p)
      [] im = "inTable"           -> InTable(p)
      [] im = "inCaption"         -> InCaption(p)
      [] im = "inColumnGroup"     -> InColumnGroup(p)
      [] im = "inTableBody"       -> InTableBody(p)
      [] im = "inRow"             -> InRow(p)
      [] im = "inCell"            -> InCell(p)
      [] im = "inSelect"          -> InSelect(p)
      [] im = "inSelectInTable"   -> InSelectInTable(p)
      [] im = "afterBody"         -> AfterBody(p)
      [] im = "inFrameset"        -> InFrameset(p)
      [] im = "afterFrameset"     -> AfterFrameset(p)
      [] im = "afterAfterBody"    -> AfterAfterBody(p)
      [] im = "afterAfterFrameset" -> AfterAfterFrameset(p)
      [] im = "foreign"           -> ParseForeignContent(p)
      [] im = "prompt"            -> AddsPrompt(p)

\* One turn of parseCurrentToken's loop.
Parses ==
    /\ parser.toks # <<>> /\ ~parser.bad
    /\ parser' = Rules(IF Is(parser, "prompt") THEN "prompt"
                       ELSE IF InForeignContent(parser) THEN "foreign" ELSE parser.im, parser)
    /\ turns' = IF Len(parser'.toks) < Len(parser.toks) THEN 0 ELSE turns + 1
    /\ UNCHANGED <<input, tokens>>

\* Elements whose content the tokenizer gives as one text.
RawTags ==
    {"iframe", "noembed", "noframes", "noscript", "plaintext", "script", "style", "title",
     "textarea", "xmp"}

SourceTokens ==
    {Token("start", s[1], s[2], s[3]) : s \in input.start} \cup {EndTag(t) : t \in input.end}
    \cup IF input.tagsOnly THEN {}
         ELSE {TextToken("space"), TextToken("word"), TextToken("mixed"),
               Token("comment", "", "none", FALSE)}
              \cup {Token("doctype", "", q, FALSE) : q \in {"quirks", "none"}}

\* In a raw text element there is a text or the end tag next.
MayCome(tok) ==
    parser.raw = "none" \/ tok.type = "text"
    \/ (tok = EndTag(parser.raw) /\ parser.raw # "plaintext")

TakesToken(tok) ==
    /\ parser.toks = <<>> /\ ~parser.bad
    /\ parser' = [parser EXCEPT
                    !.toks = <<tok>>,
                    !.raw = IF tok.type = "start" /\ tok.tag \in RawTags THEN tok.tag
                            ELSE IF tok.type = "end" THEN "none" ELSE @]
    /\ turns' = 0
    /\ UNCHANGED input

ReadsToken ==
    /\ tokens < input.max /\ tokens' = tokens + 1
    /\ \E tok \in SourceTokens : MayCome(tok) /\ TakesToken(tok)

ReadsEOF == tokens' = input.max + 1 /\ tokens <= input.max /\ TakesToken(EOF)

ParseOver == tokens > input.max /\ parser.toks = <<>>

HtmlNext ==
    Parses \/ ReadsToken \/ ReadsEOF \/ ((ParseOver \/ parser.bad) /\ UNCHANGED htmlVars)

\* Parse, or ParseFragment in a context element.  A form that it is in is a node that is
\* not in the fragment's document.
Fragment(c, inForm) ==
    LET root == AddChild(NewParser, Element("html", "none"))
        p == ResetInsertionMode([root EXCEPT !.context = c, !.framesetOK = FALSE])
        q == [p EXCEPT !.raw = IF c \in RawTags THEN c ELSE "none"]
    IN IF inForm THEN [MakeNode(q, Element("form", "none")) EXCEPT !.form = Newest(q) + 1] ELSE q
HtmlInit ==
    /\ input \in Inputs
    /\ parser = IF input.context = "none" THEN NewParser ELSE Fragment(input.context, input.inForm)
    /\ tokens = 0 /\ turns = 0

HtmlSpec == HtmlInit /\ [][HtmlNext]_htmlVars

-----------------------------------------------------------------------------
(* Properties. *)

Nodes == DOMAIN parser.node
Kids(n) == parser.node[n].kids
\* The nodes of the document, by depth.
InDocument ==
    LET level[d \in 0..Len(parser.node)] ==
          IF d = 0 THEN {Doc} ELSE UNION {ToSet(Kids(n)) : n \in level[d - 1]}
    IN UNION {level[d] : d \in 0..Len(parser.node)}

HtmlTypeOK ==
    /\ parser.framesetOK \in BOOLEAN /\ ~parser.foster
    /\ ToSet(parser.oe) \subseteq Nodes /\ ToSet(parser.afe) \subseteq Nodes \cup {Marker}
    /\ parser.head \in {0} \cup Nodes /\ parser.form \in {0} \cup Nodes
    /\ parser.originalIM # "none" <=> parser.im = "text"

\* Parse comes back: no input makes it panic.
ParseReturns == ~parser.bad

\* Nothing but a foreign element that resetInsertionMode took for one of html leads
\* to a panic, be it on purpose ("bad parser state", "called for an attached child
\* Node") or by an index out of range; the html element stays at the bottom of the
\* stack of open elements.
PanicsIfMisled ==
    /\ parser.bad => parser.misled
    /\ parser.im \notin {"initial", "beforeHTML"} =>
          parser.oe # <<>> /\ AtomOf(parser, parser.oe[1]) = "html"

\* Parents and children agree, no node is twice in the tree, and every open
\* element is in the document, whatever the adoption agency and the foster
\* parents have moved.
TreeIsSound ==
    /\ \A n \in Nodes : \A i \in DOMAIN Kids(n) :
          /\ parser.node[Kids(n)[i]].parent = n
          /\ \A j \in 1..i - 1 : Kids(n)[j] # Kids(n)[i]
    /\ \A n \in Nodes : parser.node[n].parent # 0 => n \in ToSet(Kids(parser.node[n].parent))
    /\ ToSet(parser.oe) \subseteq InDocument
    /\ \A i, j \in DOMAIN parser.oe : parser.oe[i] = parser.oe[j] => i = j

\* A document that is parsed has a head and then a body, or a frameset, which
\* only noframes and what formatting elements are reopened may follow.  (A parser that
\* was misled puts parts of tables behind the body.)
Elements(n) == SelectSeq(Kids(n), LAMBDA k : IsElement(parser, k))
DocumentHasShape ==
    ParseOver /\ parser.context = "none" /\ ~parser.misled =>
        LET html == Elements(Doc)
            parts == [i \in DOMAIN Elements(html[1]) |-> TagOf(parser, Elements(html[1])[i])]
        IN /\ Len(html) = 1 /\ TagOf(parser, html[1]) = "html"
           /\ Len(parts) >= 2 /\ parts[1] = "head" /\ parts[2] \in {"body", "frameset"}
           /\ \A i \in 3..Len(parts) : parts[2] = "frameset"
                                      /\ parts[i] \in Formatting \cup {"a", "nobr", "noframes"}

\* Words never end up directly in a table or a part of it that is not a cell or
\* caption, nor beside frames: they go before the table, or are dropped.
NoTextInTables ==
    \A n \in InDocument :
        IsText(parser, n) /\ TagOf(parser, n) # "space" =>
            ~(/\ AtomOf(parser, parser.node[n].parent)
                   \in TableTags \cup {"colgroup", "frameset", "head"}
              /\ NsOf(parser, parser.node[n].parent) = "")

\* No more than three formatting elements of one kind are reopened.
AtMostThree ==
    LET live == {i \in DOMAIN parser.afe : i > AfterMarker(parser)}
    IN \A i \in live :
          Cardinality({j \in live :
              /\ TagOf(parser, parser.afe[j]) = TagOf(parser, parser.afe[i])
              /\ parser.node[parser.afe[j]].attr = parser.node[parser.afe[i]].attr}) <= 3

\* The insertion mode fits the open elements: it never stays in a row, a cell or
\* a select that is closed, or has not begun, unless resetInsertionMode was misled.
ModeFitsStack ==
    LET open(tags) == InScope(parser, "table", tags)
        im == IF parser.im = "text" THEN parser.originalIM ELSE parser.im
    IN parser.context = "none" /\ ~parser.misled =>
          /\ im = "inTable" => open({"table"})
          /\ im = "inTableBody" => open(TableBodies)
          /\ im = "inRow" => open({"tr"})
          /\ im = "inCell" => open({"td", "th"})
          /\ im = "inCaption" => open({"caption"})
          /\ im = "inColumnGroup" => TopIs(parser, {"colgroup"})
          /\ im \in {"inSelect", "inSelectInTable"} => open({"select"})
          /\ im = "inHead" => open({"head"})

\* Every token is consumed after a few turns: no two modes hand it to each other
\* for ever.
MaxTurns == 8
TokensAreConsumed == turns <= MaxTurns

\* Any input gives a sound document; on the way the mode, the stack and the list of
\* formatting elements agree.  Where resetInsertionMode took a foreign element for one
\* of html the mode may be wrong, the body not the last, and the parser panic.
TreeIsRight ==
    /\ PanicsIfMisled /\ TreeIsSound /\ DocumentHasShape
    /\ NoTextInTables /\ AtMostThree /\ ModeFitsStack /\ TokensAreConsumed
=============================================================================
