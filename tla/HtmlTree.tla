------------------------------ MODULE HtmlTree ------------------------------
(***************************************************************************)
(* The tree of package html of go.net and the parser's state over it.  A   *)
(* parser is a record, and a method of it an operator from one record to   *)
(* the next.  Nodes are numbered as they are made; 1 is the document, 0 is *)
(* nil, and in the list of active formatting elements the scope marker.    *)
(* Text has one of three looks instead of characters.                      *)
(***************************************************************************)
EXTENDS Naturals, FiniteSets, Sequences, SequencesExt

CONSTANT UnknownTags \* names of elements that have no atom

Doc == 1
Marker == 0

\* Node.DataAtom; the atom 0 is the empty string.
Atom(tag) == IF tag \in UnknownTags THEN "" ELSE tag

NewNode(type, tag, attr) ==
    [type |-> type, tag |-> tag, ns |-> "", attr |-> attr, parent |-> 0, kids |-> <<>>]
Element(tag, attr) == NewNode("element", tag, attr)
\* The look of a text: "space", "word", or "mixed", a word after some space.
TextNode(look) == NewNode("text", look, "none")
Comment == NewNode("comment", "", "none")

\* toks: the current token and, before it, those it implies.  raw: the
\* tokenizer's rawTag.  bad: the parser has panicked.  misled (history):
\* resetInsertionMode has taken a foreign element for one of html.
NewParser ==
    [node |-> <<NewNode("document", "", "none")>>, oe |-> <<>>, afe |-> <<>>,
     head |-> 0, form |-> 0, framesetOK |-> TRUE, im |-> "initial", originalIM |-> "none",
     foster |-> FALSE, quirks |-> FALSE, context |-> "none", toks |-> <<>>, raw |-> "none",
     bad |-> FALSE, misled |-> FALSE]

Panic(p) == [p EXCEPT !.bad = TRUE]
TagOf(p, n) == p.node[n].tag
IsElement(p, n) == n # 0 /\ p.node[n].type = "element"
AtomOf(p, n) == IF IsElement(p, n) THEN Atom(TagOf(p, n)) ELSE ""
NsOf(p, n) == p.node[n].ns

-----------------------------------------------------------------------------
(* node.go *)

\* Index 0 stands for -1.
Greatest(places) == CHOOSE i \in places \cup {0} : \A j \in places : j <= i
\* nodeStack
IndexOf(stack, n) == Greatest({i \in DOMAIN stack : stack[i] = n})
Without(stack, n) ==
    LET i == IndexOf(stack, n) IN IF i = 0 THEN stack ELSE RemoveAt(stack, i)
Upto(stack, i) == SubSeq(stack, 1, i)

Siblings(p, n) == p.node[p.node[n].parent].kids
LastChild(p, n) == IF p.node[n].kids = <<>> THEN 0 ELSE Last(p.node[n].kids)
PrevSibling(p, n) ==
    IF p.node[n].parent = 0 THEN 0
    ELSE LET i == IndexOf(Siblings(p, n), n)
         IN IF i = 1 THEN 0 ELSE Siblings(p, n)[i - 1]

\* A sibling that is not a child of n would leave the links of both wrong.
InsertBefore(p, n, child, old) ==
    IF p.node[child].parent # 0 \/ (old # 0 /\ p.node[old].parent # n) THEN Panic(p)
    ELSE LET kids == p.node[n].kids
             at == IF old = 0 THEN Len(kids) + 1 ELSE IndexOf(kids, old)
         IN [p EXCEPT !.node[n].kids = InsertAt(kids, at, child), !.node[child].parent = n]

AppendChild(p, n, child) == InsertBefore(p, n, child, 0)

RemoveChild(p, child) ==
    [p EXCEPT !.node[p.node[child].parent].kids = Without(@, child),
              !.node[child].parent = 0]
\* "if n.Parent != nil".
Detach(p, n) == IF p.node[n].parent = 0 THEN p ELSE RemoveChild(p, n)

ReparentChildren(p, dst, src) ==
    LET kids == p.node[src].kids
        moved[k \in 0..Len(kids)] ==
            IF k = 0 THEN p ELSE AppendChild(RemoveChild(moved[k - 1], kids[k]), dst, kids[k])
    IN moved[Len(kids)]

\* What n points at is in p.node from here on, as its last element.
MakeNode(p, n) == [p EXCEPT !.node = Append(@, n)]
Newest(p) == Len(p.node)

\* clone keeps neither the parent nor the namespace.
Clone(p, n) == MakeNode(p, NewNode(p.node[n].type, p.node[n].tag, p.node[n].attr))

-----------------------------------------------------------------------------
(* Mistakes the code does not make; each must break a property. *)

BugNeverFosters(p) == FALSE
BugNoMarker(p) == p
BugNoArk(p, tag, attr) == p

-----------------------------------------------------------------------------
(* The stack of open elements. *)

Top(p) == IF p.oe = <<>> THEN Doc ELSE Last(p.oe)
TopIs(p, tags) == AtomOf(p, Top(p)) \in tags
Pop(p) == IF p.oe = <<>> THEN Panic(p) ELSE [p EXCEPT !.oe = Front(@)]

DefaultStops(ns) ==
    CASE ns = ""     -> {"applet", "caption", "html", "table", "td", "th", "marquee", "object"}
      [] ns = "math" -> {"annotation-xml", "mi", "mn", "mo", "ms", "mtext"}
      [] ns = "svg"  -> {"desc", "foreignObject", "title"}

\* Whether nothing below element n is in scope.
StopsScope(p, scope, n) ==
    LET atom == AtomOf(p, n)
        html == NsOf(p, n) = ""
    IN \/ html /\ CASE scope = "default"  -> FALSE
                    [] scope = "listItem" -> atom \in {"ol", "ul"}
                    [] scope = "button"   -> atom = "button"
                    [] scope = "table"    -> atom \in {"html", "table"}
                    [] scope = "select"   -> atom \notin {"optgroup", "option"}
       \/ scope \in {"default", "listItem", "button"} /\ atom \in DefaultStops(NsOf(p, n))

IndexInScope(p, scope, tags) ==
    LET wanted(n) == NsOf(p, n) = "" /\ AtomOf(p, n) \in tags
        i == Greatest({k \in DOMAIN p.oe : wanted(p.oe[k]) \/ StopsScope(p, scope, p.oe[k])})
    IN IF i # 0 /\ wanted(p.oe[i]) THEN i ELSE 0
InScope(p, scope, tags) == IndexInScope(p, scope, tags) # 0

PopUntil(p, scope, tags) ==
    IF InScope(p, scope, tags)
    THEN [p EXCEPT !.oe = Upto(@, IndexInScope(p, scope, tags) - 1)] ELSE p
ClosesP(p) == PopUntil(p, "button", {"p"})

\* Pops until one of the tags is on top, if there is one.
ClearStack(p, tags) ==
    LET i == Greatest({k \in DOMAIN p.oe : AtomOf(p, p.oe[k]) \in tags})
    IN IF i = 0 THEN p ELSE [p EXCEPT !.oe = Upto(@, i)]

\* Every use but one is without an exception.
GenerateImpliedEndTags(p) ==
    LET implied == {"dd", "dt", "li", "option", "optgroup", "p", "rp", "rt"}
        i == Greatest({k \in DOMAIN p.oe : AtomOf(p, p.oe[k]) \notin implied})
    IN [p EXCEPT !.oe = Upto(@, i)]

-----------------------------------------------------------------------------
(* Adding nodes. *)

TableTags == {"table", "tbody", "tfoot", "thead", "tr"}
ShouldFosterParent(p) == p.foster /\ TopIs(p, TableTags)

IsText(p, n) == n # 0 /\ p.node[n].type = "text"
\* A text that gets more of it: is there still only space?
Joins(p, n, look) ==
    [p EXCEPT !.node[n].tag = IF @ = "space" /\ look # "space" THEN "mixed" ELSE @]

\* Node n goes before the table, or to the end of the html element.
FosterParent(p, n) ==
    LET i == Greatest({k \in DOMAIN p.oe : AtomOf(p, p.oe[k]) = "table"})
        table == IF i = 0 THEN 0 ELSE p.oe[i]
        parent == IF i = 0 THEN p.oe[1]
                  ELSE IF p.node[table].parent # 0 THEN p.node[table].parent ELSE p.oe[i - 1]
        prev == IF i = 0 THEN LastChild(p, parent) ELSE PrevSibling(p, table)
    IN IF IsText(p, prev) /\ IsText(p, n)
       THEN Joins(p, prev, TagOf(p, n))
       ELSE InsertBefore(p, parent, n, table)

\* addChild
Places(p) ==
    IF ShouldFosterParent(p) THEN FosterParent(p, Newest(p))
    ELSE AppendChild(p, Top(p), Newest(p))
AddChild(p, n) ==
    LET q == Places(MakeNode(p, n))
    IN IF n.type = "element" THEN [q EXCEPT !.oe = Append(@, Newest(q))] ELSE q

AddText(p, look) ==
    IF ~ShouldFosterParent(p) /\ IsText(p, LastChild(p, Top(p)))
    THEN Joins(p, LastChild(p, Top(p)), look)
    ELSE Places(MakeNode(p, TextNode(look)))

-----------------------------------------------------------------------------
(* The list of active formatting elements. *)

AfterMarker(p) == IndexOf(p.afe, Marker)

\* The third element that is the same as the new one is forgotten (and any
\* before it).
NoahsArk(p, tag, attr) ==
    LET same(i) == /\ i > AfterMarker(p) /\ AtomOf(p, p.afe[i]) = Atom(tag)
                   /\ p.node[p.afe[i]].attr = attr
        third(i) == Cardinality({j \in i..Len(p.afe) : same(j)}) >= 3
        kept == SelectSeq([i \in DOMAIN p.afe |-> i], LAMBDA i : ~(same(i) /\ third(i)))
    IN [p EXCEPT !.afe = [k \in DOMAIN kept |-> p.afe[kept[k]]]]

AddFormattingElement(p, tag, attr) ==
    LET q == NoahsArk(AddChild(p, Element(tag, attr)), tag, attr)
    IN [q EXCEPT !.afe = Append(@, Top(q))]

PushMarker(p) == [p EXCEPT !.afe = Append(@, Marker)]

\* pop panics when the list is empty.
ClearFormatting(p) ==
    IF p.afe = <<>> THEN Panic(p)
    ELSE [p EXCEPT !.afe = Upto(@, IF AfterMarker(p) = 0 THEN 0 ELSE AfterMarker(p) - 1)]

IsOpen(p, n) == IndexOf(p.oe, n) # 0

\* Entries that are not open are opened again, as clones.
ReconstructFormatting(p) ==
    LET open == Greatest({i \in DOMAIN p.afe : p.afe[i] = Marker \/ IsOpen(p, p.afe[i])})
        Reopen(q, i) == [Places(q) EXCEPT !.oe = Append(@, Newest(q)), !.afe[i] = Newest(q)]
        reopened[i \in open..Len(p.afe)] ==
            IF i = open THEN p ELSE Reopen(Clone(reopened[i - 1], p.afe[i]), i)
    IN reopened[Len(p.afe)]

=============================================================================
