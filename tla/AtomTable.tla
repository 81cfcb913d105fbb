----------------------------- MODULE AtomTable -----------------------------
(***************************************************************************)
(* The table of names in html/atom: gen.go looks for a hash function under *)
(* which a small cuckoo table takes all names and lays the names out in    *)
(* one text; Lookup finds a name through its two slots.  A name is a       *)
(* sequence of numbers; a hash function gives each the low and the high    *)
(* half of its hash.                                                       *)
(***************************************************************************)
EXTENDS TextLayout

CONSTANTS
    AtomInputs, \* [names, hashes]: a set of names, and hash functions for Asked
    Asked,      \* the names that are looked up
    MaxTries,   \* hash functions that are tried; a million in the code
    MaxK        \* the largest table has 2^MaxK slots; 2^16 in the code

VARIABLES
    wanted,  \* the input
    tries,  \* left
    trial,  \* [hash, k, tab, todo], or none
    found,  \* the best table so far, [hash, k, tab], or none
    layout  \* the names as they are joined, none while tables are tried

atomVars == <<wanted, tries, trial, found, layout>>

Names == Sorted(wanted.names)
Empty == <<>>

-----------------------------------------------------------------------------
(* The cuckoo table; its slots are numbered from 0. *)

Slots(hash, k, s) == <<hash[s][1] % 2^k, hash[s][2] % 2^k>>
Fresh(hash, k) == [hash |-> hash, k |-> k, tab |-> [i \in 0..2^k - 1 |-> Empty], todo |-> Names]

\* The slots that are pushed aside from slot i on, and the one that is free; none if
\* there is none within the depth that push goes.
RECURSIVE Chain(_, _, _)
Chain(t, i, depth) ==
    LET slots == Slots(t.hash, t.k, t.tab[i])
        j == slots[1] + slots[2] - i
        rest == IF t.tab[j] = Empty THEN <<j>> ELSE Chain(t, j, depth + 1)
    IN IF depth > 2^t.k \/ rest = <<>> THEN <<>> ELSE <<i>> \o rest

\* (a mistake, for the properties to find)
BugPush(t, i, s) == {[t.tab EXCEPT ![i] = s]}

\* The table with s in slot i, after what is there is pushed aside; none if it cannot.
Push(t, i, s) ==
    LET chain == Chain(t, i, 0)
        At0(j) == CHOOSE n \in DOMAIN chain : chain[n] = j
    IN {[j \in DOMAIN t.tab |->
            IF j = i THEN s
            ELSE IF j \in ToSet(chain) THEN t.tab[chain[At0(j) - 1]] ELSE t.tab[j]] :
            c \in {chain} \ {<<>>}}

Insert(t, s) ==
    LET h == Slots(t.hash, t.k, s)
        free == SelectSeq(h, LAMBDA i : t.tab[i] = Empty)
        pushed == Push(t, h[1], s)
    IN IF free # <<>> THEN {[t.tab EXCEPT ![free[1]] = s]}
       ELSE IF pushed # {} THEN pushed ELSE Push(t, h[2], s)

-----------------------------------------------------------------------------
(* gen.go. *)

\* The table cannot be halved again: the loop ends.
Smallest == found # <<>> /\ (found[1].k = 0 \/ 2^(found[1].k - 1) < Cardinality(wanted.names))
Bound == IF found = <<>> THEN MaxK + 1 ELSE found[1].k

TriesHash ==
    /\ layout = <<>>
    /\ trial = <<>>
    /\ tries > 0
    /\ ~Smallest
    /\ tries' = tries - 1
    /\ \E h \in wanted.hashes : trial' = <<Fresh(h, 0)>>
    /\ UNCHANGED <<wanted, found, layout>>

Inserts ==
    /\ trial # <<>>
    /\ trial[1].todo # <<>>
    /\ LET t == trial[1] IN
       \E tab \in Insert(t, Head(t.todo)) :
            trial' = <<[t EXCEPT !.tab = tab, !.todo = Tail(@)]>>
    /\ UNCHANGED <<wanted, tries, found, layout>>

\* It does not fit: twice the slots, unless the best has as few.
Grows ==
    /\ trial # <<>>
    /\ trial[1].todo # <<>>
    /\ Insert(trial[1], Head(trial[1].todo)) = {}
    /\ LET t == trial[1] IN
       trial' = IF t.k + 1 < Bound THEN <<Fresh(t.hash, t.k + 1)>> ELSE <<>>
    /\ UNCHANGED <<wanted, tries, found, layout>>

Keeps ==
    /\ trial # <<>>
    /\ trial[1].todo = <<>>
    /\ found' = trial
    /\ trial' = <<>>
    /\ UNCHANGED <<wanted, tries, layout>>

LaysOut ==
    /\ layout = <<>>
    /\ trial = <<>>
    /\ found # <<>>
    /\ tries = 0 \/ Smallest
    /\ layout' = Kept(Names)
    /\ UNCHANGED <<wanted, tries, trial, found>>

JoinsNames ==
    /\ layout # <<>>
    /\ Overlaps(layout) # {}
    /\ layout' = Joined(layout, Best(layout))
    /\ UNCHANGED <<wanted, tries, trial, found>>

\* No table, or the text is complete.
Generated == layout # <<>> /\ Overlaps(layout) = {}
GeneratorOver ==
    /\ Generated \/ (tries = 0 /\ trial = <<>> /\ found = <<>>)
    /\ UNCHANGED atomVars

-----------------------------------------------------------------------------
(* atom.go: an atom is the offset and the length of its name. *)

AtomOf(s) == IF s = Empty THEN <<0, 0>> ELSE <<Index(Text(layout), s) - 1, Len(s)>>
String(a) == SubSeq(Text(layout), a[1] + 1, a[1] + a[2])
MaxAtomLen == Max({Len(s) : s \in wanted.names})

Lookup(s) ==
    LET slots == Slots(found[1].hash, found[1].k, s)
        Hit(i) == LET a == AtomOf(found[1].tab[i]) IN a[2] = Len(s) /\ String(a) = s
        hits == SelectSeq(slots, Hit)
    IN IF s = Empty \/ Len(s) > MaxAtomLen \/ hits = <<>> THEN <<0, 0>>
       ELSE AtomOf(found[1].tab[hits[1]])

-----------------------------------------------------------------------------

AtomNext == TriesHash \/ Inserts \/ Grows \/ Keeps \/ LaysOut \/ JoinsNames \/ GeneratorOver

AtomInit ==
    /\ wanted \in AtomInputs
    /\ tries = MaxTries
    /\ trial = <<>>
    /\ found = <<>>
    /\ layout = <<>>

AtomSpec == AtomInit /\ [][AtomNext]_atomVars

-----------------------------------------------------------------------------
(* Properties. *)

\* insert and push (gen.go): what is pushed aside stays in the table, at one of its
\* two slots.
NamesAreKept ==
    trial # <<>> =>
        LET t == trial[1] IN
        \A s \in wanted.names \ ToSet(t.todo) :
            \E i \in ToSet(Slots(t.hash, t.k, s)) : t.tab[i] = s

\* Lookup (atom.go): it finds exactly the names of the table, and String gives the
\* name back.
NamesAreFound ==
    Generated =>
        /\ \A s \in Asked \ {Empty} : (Lookup(s)[2] > 0) = (s \in wanted.names)
        /\ \A s \in wanted.names : String(Lookup(s)) = s

AtomsAreRight == NamesAreKept /\ NamesAreFound
=============================================================================
