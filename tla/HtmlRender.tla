----------------------------- MODULE HtmlRender -----------------------------
(***************************************************************************)
(* The renderer of go.net/html (render.go), for the trees that HtmlParser  *)
(* builds.  What it writes is a sequence of tags, texts and comments; the  *)
(* writer does not fail.                                                   *)
(***************************************************************************)
EXTENDS HtmlParser

\* What render1 returns, and what it has written.
Output(out, err) == [out |-> out, err |-> err]

VoidElements ==
    {"area", "base", "br", "col", "command", "embed", "hr", "img", "input", "keygen", "link",
     "meta", "param", "source", "track", "wbr"}
WritesRaw ==
    {"iframe", "noembed", "noframes", "noscript", "plaintext", "script", "style", "xmp"}

\* The children one after another, up to the first error.
RenderChildren(rendered, kids) ==
    FoldLeft(LAMBDA r, c : IF r.err = "nil" THEN Output(r.out \o rendered[c].out, rendered[c].err)
                           ELSE r,
             Output(<<>>, "nil"), kids)

BugDropsText(p, n) == Output(<<>>, "nil") \* (a mistake)

\* Text is escaped, except as the child of an element whose name is a raw one.
RenderText(p, n) ==
    LET m == p.node[n].parent
    IN Output(<<<<IF m # 0 /\ TagOf(p, m) \in WritesRaw THEN "raw" ELSE "text", n>>>>, "nil")

RenderElement(p, n, inner) ==
    LET tag == TagOf(p, n)
    IN CASE tag \in VoidElements ->
              IF p.node[n].kids = <<>> THEN Output(<<<<"void", n>>>>, "nil")
              ELSE Output(<<<<"unfinished", n>>>>, "void with children")
         [] tag \notin VoidElements /\ (inner.err # "nil" \/ tag = "plaintext") ->
              Output(<<<<"start", n>>>> \o inner.out,
                     IF inner.err # "nil" THEN inner.err ELSE "plaintext abort")
         [] OTHER -> Output(<<<<"start", n>>>> \o inner.out \o <<<<"end", n>>>>, "nil")

Render1(p) ==
    LET rendered[n \in DOMAIN p.node] ==
            CASE p.node[n].type = "text"    -> RenderText(p, n)
              [] p.node[n].type \in {"comment", "doctype"} ->
                   Output(<<<<p.node[n].type, n>>>>, "nil")
              [] p.node[n].type = "element" ->
                   RenderElement(p, n, RenderChildren(rendered, p.node[n].kids))
              [] OTHER                      -> RenderChildren(rendered, p.node[n].kids)
    IN rendered[Doc]

Render(p) ==
    LET r == Render1(p)
    IN IF r.err = "plaintext abort" THEN Output(r.out, "nil") ELSE r

-----------------------------------------------------------------------------
(* Properties. *)

\* Any page that was parsed can be rendered: the parser gives no child to a void
\* element, except to a foreign one that only has the name (<svg><source><g>).
PagesRender ==
    ParseOver =>
        LET r == Render(parser)
        IN r.err # "nil" => \E i \in DOMAIN r.out : /\ r.out[i][1] = "unfinished"
                                                    /\ NsOf(parser, r.out[i][2]) # ""

\* Without a <plaintext> every node of the document is written, once, and the
\* tags nest as the elements do.
NothingIsLost ==
    ParseOver =>
        LET r == Render(parser)
            Shown == {r.out[i][2] : i \in {j \in DOMAIN r.out : r.out[j][1] # "end"}}
            tags == SelectSeq(r.out, LAMBDA w : w[1] \in {"start", "end"})
            depth == FoldLeft(LAMBDA s, w : IF w[1] = "start" THEN Append(s, w[2])
                                            ELSE IF s # <<>> /\ Last(s) = w[2] THEN Front(s)
                                            ELSE <<0>> \o s,
                              <<>>, tags)
        IN r.err = "nil" /\ (\A n \in Shown : TagOf(parser, n) # "plaintext") =>
               depth = <<>> /\ Shown = InDocument \ {Doc}

RenderIsRight == PagesRender /\ NothingIsLost
=============================================================================
