---------------------------- MODULE Negotiation ----------------------------
(***************************************************************************)
(* What a server and a client make of the content that they are offered:   *)
(* goautoneg chooses among content types by an Accept header, and package  *)
(* html/charset finds the encoding of a page.  A question is asked and     *)
(* answered.  A clause of the header is [range, params], its range a       *)
(* sequence of what stands between "/", its q a number of tenths; a page   *)
(* is [bom, metas, bytes], a string of it a sequence of words and signs.   *)
(***************************************************************************)
EXTENDS Integers, Sequences, SequencesExt, FiniteSetsExt

CONSTANT Questions

VARIABLES question, reply

negotiationVars == <<question, reply>>

-----------------------------------------------------------------------------
(* autoneg.go. *)

\* (a mistake, for the properties to find)
BugLess(a, b) == a.q >= b.q

Less(a, b) ==
    \/ a.q > b.q
    \/ a.type # "*" /\ b.type = "*"
    \/ a.sub # "*" /\ b.sub = "*"

\* sort.Sort of fewer than seven: insertion, which moves one down while it is less.
Inserted(sorted, a) ==
    LET stays == {i \in DOMAIN sorted : ~Less(a, sorted[i])}
        n == Max({0} \cup stays)
    IN InsertAt(sorted, n + 1, a)
Sort(clauses) == FoldLeft(Inserted, <<>>, clauses)

\* A parameter is <<token, value>>, or has no "=".  What is no number is 0.
Q(params) ==
    LET qs == SelectSeq(params, LAMBDA p : Len(p) = 2 /\ p[1] = "q")
    IN IF qs = <<>> THEN 10 ELSE qs[Len(qs)][2]
IsRange(range) == range = <<"*">> \/ Len(range) = 2
Clause(part) ==
    [type |-> part.range[1], sub |-> part.range[Len(part.range)], q |-> Q(part.params)]
ParseAccept(header) ==
    LET parts == SelectSeq(header, LAMBDA p : IsRange(p.range))
    IN Sort([i \in DOMAIN parts |-> Clause(parts[i])])

Accepts(clause, alternative) ==
    \/ clause.type = alternative[1] /\ clause.sub \in {alternative[2], "*"}
    \/ clause.type = "*" /\ clause.sub = "*"

\* The first alternative that the first clause accepts, or none.
Negotiate(header, alternatives) ==
    LET clauses == ParseAccept(header)
        accepted == [i \in DOMAIN clauses |->
                        SelectSeq(alternatives, LAMBDA a : Accepts(clauses[i], a))]
        some == {i \in DOMAIN clauses : accepted[i] # <<>>}
    IN IF some = {} THEN <<>> ELSE accepted[Min(some)][1]

-----------------------------------------------------------------------------
(* charset.go. *)

None == "none"
Spaces == {" "}
QuoteSigns == {"'", "Q"}

\* Lookup: of the labels, those of some encodings.
Encodings ==
    [l \in {"utf-8", "utf-16", "latin1", "koi8-r"} |->
        IF l = "latin1" THEN "windows-1252" ELSE IF l = "utf-16" THEN "utf-16le" ELSE l]

RECURSIVE TrimLeft(_)
TrimLeft(s) == IF s # <<>> /\ s[1] \in Spaces THEN TrimLeft(Tail(s)) ELSE s
Trim(s) == Reverse(TrimLeft(Reverse(TrimLeft(s))))
Lookup(s) ==
    LET label == Trim(s)
    IN IF Len(label) = 1 /\ label[1] \in DOMAIN Encodings THEN Encodings[label[1]] ELSE None

\* The charset in the content attribute of a meta element, or <<>>.
RECURSIVE FromMetaElement(_)
FromMetaElement(s) ==
    LET at == SelectInSeq(s, LAMBDA w : w = "charset")
        rest == TrimLeft(SubSeq(s, at + 1, Len(s)))
        v == TrimLeft(Tail(rest))
        q == Tail(v)
        close == SelectInSeq(q, LAMBDA w : w = v[1])
        end == SelectInSeq(v, LAMBDA w : w \in Spaces \cup {";"})
    IN IF at = 0 THEN <<>>
       ELSE IF rest = <<>> \/ rest[1] # "=" THEN FromMetaElement(rest)
       ELSE IF v = <<>> THEN <<>>
       ELSE IF v[1] \in QuoteSigns THEN SubSeq(q, 1, close - 1)
       ELSE SubSeq(v, 1, IF end = 0 THEN Len(v) ELSE end - 1)

\* One attribute, <<key, value>>; m is [enc, named, pragma, need].
Attribute(m, a) ==
    CASE a[1] = "http-equiv" -> [m EXCEPT !.pragma = @ \/ a[2] = <<"content-type">>]
      [] a[1] = "charset" -> [m EXCEPT !.enc = Lookup(a[2]), !.need = "no"]
      [] a[1] = "content" /\ m.enc = None ->
            LET enc == Lookup(FromMetaElement(a[2]))
            IN [m EXCEPT !.enc = enc, !.need = IF enc # None THEN "pragma" ELSE @]
      [] OTHER -> m

\* (a mistake, for the properties to find)
BugAnyContent(attrs) ==
    FoldLeft(Attribute, [enc |-> None, pragma |-> FALSE, need |-> "unknown"], attrs).enc

\* What a meta element says of the encoding; attributes that come again do not count.
SaidBy(attrs) ==
    LET first == [i \in {j \in DOMAIN attrs : \A k \in 1..j - 1 : attrs[k][1] # attrs[j][1]} |-> attrs[i]]
        seq == SetToSortSeq(DOMAIN first, <)
        m == FoldLeft(LAMBDA n, i : Attribute(n, first[i]),
                      [enc |-> None, pragma |-> FALSE, need |-> "unknown"], seq)
    IN IF m.need = "unknown" \/ (m.need = "pragma" /\ ~m.pragma) THEN None
       ELSE IF m.enc = "utf-16le" THEN "utf-8" ELSE m.enc

Prescan(metas) ==
    LET said == SelectSeq([i \in DOMAIN metas |-> SaidBy(metas[i])], LAMBDA e : e # None)
    IN IF said = <<>> THEN None ELSE said[1]

\* Bytes: "a" is ASCII, "L" begins a rune of two, "M" of three, "c" goes on in one.
RECURSIVE Valid(_)
Valid(b) ==
    LET n == IF b[1] = "a" THEN 1 ELSE IF b[1] = "L" THEN 2 ELSE 3
    IN \/ b = <<>>
       \/ /\ b[1] # "c" /\ Len(b) >= n
          /\ \A i \in 2..n : b[i] = "c"
          /\ Valid(SubSeq(b, n + 1, Len(b)))

\* The last rune is dropped, whole or not, if it begins in the last three bytes and is
\* not ASCII.
WithoutPartial(b) ==
    LET starts == {i \in DOMAIN b : i > Len(b) - 3 /\ b[i] # "c"}
    IN IF starts = {} \/ b[Max(starts)] = "a" THEN b ELSE SubSeq(b, 1, Max(starts) - 1)

IsUtf8(b) ==
    LET c == WithoutPartial(b) IN (\E i \in DOMAIN c : c[i] # "a") /\ Valid(c)

\* <<encoding, certain>>: of what tells an encoding, the first that does.
DetermineEncoding(page, contentType) ==
    LET said == SelectSeq(<<<<page.bom, TRUE>>, <<Lookup(contentType), TRUE>>,
                            <<Prescan(page.metas), FALSE>>>>, LAMBDA e : e[1] # None)
        guessed == <<IF IsUtf8(page.bytes) THEN "utf-8" ELSE "windows-1252", FALSE>>
    IN Head(Append(said, guessed))

\* NewReader: nothing to read is an error; what is not UTF-8 goes through a decoder.
NewReader(page, encoding) ==
    IF page.bom = None /\ page.metas = <<>> /\ page.bytes = <<>> THEN "error"
    ELSE IF encoding = "utf-8" THEN "as it is" ELSE "decoded"

-----------------------------------------------------------------------------

Replies ==
    /\ reply = <<>>
    /\ IF question.op = "accept"
       THEN reply' = <<Negotiate(question.header, question.alternatives)>>
       ELSE \E e \in {DetermineEncoding(question.page, question.contentType)} :
               reply' = <<e, NewReader(question.page, e[1])>>
    /\ UNCHANGED question

Replied == reply # <<>> /\ UNCHANGED negotiationVars

NegotiationNext == Replies \/ Replied

NegotiationInit == question \in Questions /\ reply = <<>>

NegotiationSpec == NegotiationInit /\ [][NegotiationNext]_negotiationVars

-----------------------------------------------------------------------------
(* Properties. *)

Wild(c) == Cardinality({f \in {"type", "sub"} : c[f] = "*"})

\* Negotiate (autoneg.go): it answers if and only if some clause accepts something.  The
\* clause that decides has the highest q of those that accept something, and of those
\* the fewest wildcards, as long as q and wildcards do not disagree about any two clauses.
BestIsChosen ==
    question.op = "accept" /\ reply # <<>> =>
        LET clauses == ToSet(ParseAccept(question.header))
            alternatives == ToSet(question.alternatives)
            able == {c \in clauses : \E a \in alternatives : Accepts(c, a)}
            agree == \A c, d \in clauses : c.q > d.q => Wild(c) <= Wild(d)
        IN /\ reply[1] = <<>> <=> able = {}
           /\ agree /\ able # {} =>
                \E c \in able :
                    /\ Accepts(c, reply[1])
                    /\ \A d \in able : c.q > d.q \/ (c.q = d.q /\ Wild(c) <= Wild(d))

Page == question.page
\* A meta element that names an encoding with its charset attribute, or with a content
\* attribute beside the pragma.
Names(attrs, e) ==
    \/ \E i \in DOMAIN attrs : attrs[i][1] = "charset" /\ Lookup(attrs[i][2]) = e
    \/ /\ \E i \in DOMAIN attrs : attrs[i] = <<"http-equiv", <<"content-type">>>>
       /\ \E i \in DOMAIN attrs : attrs[i][1] = "content" /\ Lookup(FromMetaElement(attrs[i][2])) = e

\* DetermineEncoding (charset.go): only a byte order mark and the Content-Type make it
\* certain; otherwise a meta element named the encoding, or the bytes are UTF-8, which is
\* never told of bytes that are not.
EncodingIsFounded ==
    question.op = "charset" /\ reply # <<>> =>
        LET e == reply[1][1]
            named == \E i \in DOMAIN Page.metas :
                        Names(Page.metas[i], e) \/ (e = "utf-8" /\ Names(Page.metas[i], "utf-16le"))
        IN /\ reply[1][2] <=> Page.bom # None \/ Lookup(question.contentType) # None
           /\ ~reply[1][2] =>
                \/ named
                \/ e = "windows-1252"
                \/ e = "utf-8" /\ \E n \in 0..2 : n <= Len(Page.bytes) /\ Valid(SubSeq(Page.bytes, 1, Len(Page.bytes) - n))

ChoicesAreRight == BestIsChosen /\ EncodingIsFounded
=============================================================================
