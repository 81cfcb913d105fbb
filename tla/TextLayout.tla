----------------------------- MODULE TextLayout -----------------------------
(***************************************************************************)
(* How the generators of packages publicsuffix and html/atom lay many      *)
(* strings out in one text, on top of one another: a string that is in     *)
(* another goes, and two are joined where the end of one is the beginning  *)
(* of the other, the longest overlap first.  A string is a sequence of     *)
(* numbers.                                                                *)
(***************************************************************************)
EXTENDS Integers, Sequences, SequencesExt, FiniteSetsExt

\* The order of strings.
Less(s, t) ==
    \E i \in 1..Len(t) :
        /\ \A j \in 1..i - 1 : j <= Len(s) /\ s[j] = t[j]
        /\ i > Len(s) \/ s[i] < t[i]

Sorted(S) == SetToSortSeq(S, Less)

At(s, t) == {i \in 1..Len(s) - Len(t) + 1 : SubSeq(s, i, i + Len(t) - 1) = t}
HasText(s, t) == At(s, t) # {}
Index(s, t) == Min(At(s, t))

\* (a mistake, for the properties to find)
BugDropsOverlap(list, o) ==
    [list EXCEPT ![o[1]] = @ \o SubSeq(list[o[2]], o[3] + 2, Len(list[o[2]])), ![o[2]] = <<>>]

Kept(list) == SelectSeq(list, LAMBDA s : ~\E t \in ToSet(list) : t # s /\ HasText(t, s))

\* <<i, j, k>>: the last k of the i-th are the first k of the j-th.
Overlaps(list) ==
    {o \in (DOMAIN list) \X (DOMAIN list) \X (1..Max({Len(s) : s \in ToSet(list)} \cup {1})) :
        /\ o[1] # o[2]
        /\ o[3] <= Len(list[o[1]]) /\ o[3] <= Len(list[o[2]])
        /\ SubSeq(list[o[1]], Len(list[o[1]]) - o[3] + 1, Len(list[o[1]])) = SubSeq(list[o[2]], 1, o[3])}

\* The longest; among equals the one that the loops come to first.
Best(list) ==
    LET longest == {o \in Overlaps(list) : \A p \in Overlaps(list) : p[3] <= o[3]}
    IN CHOOSE o \in longest : \A p \in longest : o[1] < p[1] \/ (o[1] = p[1] /\ o[2] <= p[2])

Joined(list, o) ==
    [list EXCEPT ![o[1]] = @ \o SubSeq(list[o[2]], o[3] + 1, Len(list[o[2]])), ![o[2]] = <<>>]

Text(list) == FlattenSeq(list)
=============================================================================
