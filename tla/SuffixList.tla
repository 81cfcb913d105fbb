----------------------------- MODULE SuffixList -----------------------------
(***************************************************************************)
(* The public suffix list (package publicsuffix): gen.go reads the rules   *)
(* into a tree, lays the labels out in one text and prints the tree as     *)
(* tables; PublicSuffix finds its way through the tables.  A label is a    *)
(* sequence of numbers, a name a sequence of labels, the top level first   *)
(* (the other way round than it is written).  The bits of the tables are   *)
(* left out: the generator refuses what does not fit.                      *)
(***************************************************************************)
EXTENDS TextLayout

CONSTANTS
    RuleLists, \* the lists to read
    Domains    \* the names to ask for

VARIABLES
    rules, \* still to read, [kind, name, icann]
    list,  \* all of them
    tree,  \* name -> node
    texts  \* of labels; before the rules are read, none

suffixVars == <<rules, list, tree, texts>>

Rule(kind, name, icann) == [kind |-> kind, name |-> name, icann |-> icann]
Node(type, icann, wildcard) == [type |-> type, icann |-> icann, wildcard |-> wildcard]

Parent(name) == SubSeq(name, 1, Len(name) - 1)
Label(name) == name[Len(name)]
Ancestors(name) == {SubSeq(name, 1, n) : n \in 1..Len(name)}
Labels == {Label(name) : name \in DOMAIN tree}

-----------------------------------------------------------------------------
(* gen.go: the rules become a tree. *)

\* (a mistake, for the properties to find)
BugLastWins(n, r) ==
    [n EXCEPT !.type = CASE r.kind = "normal" -> "normal" [] r.kind = "exception" -> "exception"
                         [] OTHER -> "parentOnly",
              !.icann = @ /\ r.icann, !.wildcard = @ \/ r.kind = "wildcard"]

Marked(n, r) ==
    [n EXCEPT !.type = IF r.kind # "wildcard" /\ @ = "parentOnly" THEN r.kind ELSE @,
              !.icann = @ /\ r.icann,
              !.wildcard = @ \/ r.kind = "wildcard"]

Grown(name) ==
    [p \in DOMAIN tree \cup Ancestors(name) |->
        IF p \in DOMAIN tree THEN tree[p] ELSE Node("parentOnly", TRUE, FALSE)]

ReadsRule ==
    /\ rules # <<>>
    /\ tree' = [Grown(Head(rules).name) EXCEPT ![Head(rules).name] = Marked(@, Head(rules))]
    /\ rules' = Tail(rules)
    /\ UNCHANGED <<list, texts>>

\* makeText.
ListsLabels ==
    /\ rules = <<>>
    /\ texts = <<>>
    /\ texts' = Kept(Sorted(Labels))
    /\ UNCHANGED <<rules, list, tree>>

JoinsLabels ==
    /\ texts # <<>>
    /\ Overlaps(texts) # {}
    /\ texts' = Joined(texts, Best(texts))
    /\ UNCHANGED <<rules, list, tree>>

Printed == texts # <<>> /\ Overlaps(texts) = {}
SuffixOver == Printed /\ UNCHANGED suffixVars

-----------------------------------------------------------------------------
(* The tables: walk comes to a parent before its children, and to children  *)
(* in their order; so the nodes are in the order of their parents.          *)

PathLess(p, q) ==
    \E i \in 1..Len(q) :
        /\ \A j \in 1..i - 1 : j <= Len(p) /\ p[j] = q[j]
        /\ i > Len(p) \/ Less(p[i], q[i])
Before(p, q) ==
    \/ PathLess(Parent(p), Parent(q))
    \/ Parent(p) = Parent(q) /\ Less(Label(p), Label(q))
Nodes == SetToSortSeq(DOMAIN tree, Before)

Children(nodes, name) == {i \in DOMAIN nodes : Parent(nodes[i]) = name}
Lo(nodes, name) == IF Children(nodes, name) = {} THEN 0 ELSE Min(Children(nodes, name))
Hi(nodes, name) == IF Children(nodes, name) = {} THEN 0 ELSE Max(Children(nodes, name)) + 1

NodeLabel(name) ==
    LET text == Text(texts)
        offset == Index(text, Label(name))
    IN SubSeq(text, offset, offset + Len(Label(name)) - 1)

Tables ==
    LET nodes == Nodes IN
    [i \in DOMAIN nodes |->
        [label |-> NodeLabel(nodes[i]), node |-> tree[nodes[i]],
         lo |-> Lo(nodes, nodes[i]), hi |-> Hi(nodes, nodes[i])]]
NumTLD == Cardinality({p \in DOMAIN tree : Len(p) = 1})

-----------------------------------------------------------------------------
(* list.go. *)

RECURSIVE Find(_, _, _, _)
Find(tables, label, lo, hi) ==
    IF lo >= hi THEN 0
    ELSE LET mid == lo + (hi - lo) \div 2
             s == tables[mid].label
         IN IF Less(s, label) THEN Find(tables, label, mid + 1, hi)
            ELSE IF s = label THEN mid
            ELSE Find(tables, label, lo, mid)

\* n: labels that are read; suffix: those of the suffix so far (none: no rule).
RECURSIVE Walk(_, _, _, _, _, _)
Walk(tables, domain, n, range, suffix, state) ==
    LET found == IF n < Len(domain) THEN Find(tables, domain[n + 1], range[1], range[2]) ELSE 0
        sfx == IF state.wildcard THEN n + 1 ELSE suffix
    IN IF n = Len(domain) THEN <<suffix, state.icann>>
       ELSE IF range[1] = range[2] \/ found = 0 THEN <<sfx, state.icann>>
       ELSE LET t == tables[found] IN
            IF t.node.type = "exception" THEN <<n, t.node.icann>>
            ELSE Walk(tables, domain, n + 1, <<t.lo, t.hi>>,
                      IF t.node.type = "normal" THEN n + 1 ELSE sfx,
                      [wildcard |-> t.node.wildcard, icann |-> t.node.icann])

\* The number of labels of the suffix, and whether it is ICANN's.
PublicSuffix(tables, domain) ==
    LET w == Walk(tables, domain, 0, <<1, NumTLD + 1>>, 0, [wildcard |-> FALSE, icann |-> FALSE])
    IN <<IF w[1] = 0 THEN 1 ELSE w[1], w[2]>>

\* One label more, or none (0), when there is no more.
EffectiveTLDPlusOne(tables, domain) ==
    LET n == PublicSuffix(tables, domain)[1] IN IF Len(domain) <= n THEN 0 ELSE n + 1

-----------------------------------------------------------------------------

SuffixNext == ReadsRule \/ ListsLabels \/ JoinsLabels \/ SuffixOver

SuffixInit ==
    /\ list \in RuleLists
    /\ rules = list
    /\ tree = [p \in {} |-> Node("parentOnly", TRUE, FALSE)]
    /\ texts = <<>>

SuffixSpec == SuffixInit /\ [][SuffixNext]_suffixVars

-----------------------------------------------------------------------------
(* Properties. *)

\* makeText (gen.go): whatever is joined, no label is lost.
LabelsAreKept == texts # <<>> => \A l \in Labels : \E i \in DOMAIN texts : HasText(texts[i], l)

Matches(r, d) == IsPrefix(r.name, d) /\ (r.kind = "wildcard" => Len(d) > Len(r.name))
\* The labels that a rule takes of a domain that it matches.
Takes(r) ==
    CASE r.kind = "normal" -> Len(r.name)
      [] r.kind = "wildcard" -> Len(r.name) + 1
      [] r.kind = "exception" -> Len(r.name) - 1

\* The rules that prevail, as the format of the list has it: an exception, or the
\* longest.
Prevailing(d) ==
    LET matching == {r \in ToSet(list) : Matches(r, d)}
        exceptions == {r \in matching : r.kind = "exception"}
        among == IF exceptions # {} THEN exceptions ELSE matching
    IN {r \in among : \A q \in among : Takes(q) <= Takes(r)}

Deepest(d) == Max({0} \cup {n \in 1..Len(d) : SubSeq(d, 1, n) \in DOMAIN tree})

\* PublicSuffix (list.go): the suffix is what the prevailing rule takes, or one label;
\* it is told to be ICANN's as the rule is, when the rule has its node to itself and
\* the domain leads no deeper into the tree.
SuffixIsRight ==
    Printed =>
        LET tables == Tables IN
        \A d \in Domains :
            LET answer == PublicSuffix(tables, d)
                best == Prevailing(d)
            IN /\ best = {} => answer[1] = 1
               /\ \A r \in best :
                    /\ answer[1] = Takes(r)
                    /\ Deepest(d) = Len(r.name) /\ {q \in ToSet(list) : q.name = r.name} = {r}
                            => answer[2] = r.icann
               /\ EffectiveTLDPlusOne(tables, d) \in {0, answer[1] + 1}

SuffixListIsRight == LabelsAreKept /\ SuffixIsRight
=============================================================================
