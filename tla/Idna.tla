-------------------------------- MODULE Idna --------------------------------
(***************************************************************************)
(* Package idna: ToASCII writes the labels of a domain that are not ASCII  *)
(* in Punycode, ToUnicode reads them back.  A domain is a sequence of      *)
(* labels, a label a sequence of runes, a rune its number.  All numbers    *)
(* are int32: the model says where they overflow.  A behaviour converts a  *)
(* domain to ASCII and back, or one that is given in ASCII to Unicode.     *)
(***************************************************************************)
EXTENDS Integers, Sequences, SequencesExt, FiniteSetsExt

CONSTANT Conversions \* [phase, labels]: phase "ascii" or "unicode", where it starts

VARIABLES
    domain, \* the conversion that is asked for
    conv,  \* [phase, labels, at]: under way, at the label that is next
    coder  \* the encoder or decoder of that label

idnaVars == <<domain, conv, coder>>

MaxInt == 2147483647
MaxRune == 1114111
TooLong == 1024
Dash == 45
AcePrefix == <<120, 110, 45, 45>>

Base == 36
TMin == 1
TMax == 26
Skew == 38
Damp == 700
InitialN == 128
InitialBias == 72

Idle == [op |-> "idle"]
Ascii(label) == \A i \in DOMAIN label : label[i] < InitialN

\* a + b with the sign that an int32 gives it.
Wrapped(a, b) == IF a > MaxInt - b THEN (a - MaxInt - 1) + (b - MaxInt - 1) ELSE a + b
\* string([]rune) writes U+FFFD for what is no rune.
Rune(n) == IF n < 0 \/ n \in 55296..57343 THEN 65533 ELSE n

-----------------------------------------------------------------------------
(* punycode.go. *)

Threshold(k, bias) == Min({TMax, Max({TMin, k - bias})})

RECURSIVE Scaled(_, _)
Scaled(delta, k) ==
    IF delta > ((Base - TMin) * TMax) \div 2 THEN Scaled(delta \div (Base - TMin), k + Base)
    ELSE k + ((Base - TMin + 1) * delta) \div (delta + Skew)

Adapt(delta, numPoints, firstTime) ==
    LET d == IF firstTime THEN delta \div Damp ELSE delta \div 2
    IN Scaled(d + d \div numPoints, 0)

EncodeDigit(digit) == IF digit < 26 THEN digit + 97 ELSE digit - 26 + 48
DecodeDigit(x) ==
    CASE x \in 48..57 -> {x - 48 + 26}
      [] x \in 65..90 -> {x - 65}
      [] x \in 97..122 -> {x - 97}
      [] OTHER -> {}

RECURSIVE Digits(_, _, _)
Digits(q, k, bias) ==
    LET t == Threshold(k, bias)
    IN IF q < t THEN <<EncodeDigit(q)>>
       ELSE <<EncodeDigit(t + ((q - t) % (Base - t)))>>
            \o Digits((q - t) \div (Base - t), k + Base, bias)

Encoder(s) ==
    LET basic == SelectSeq(s, LAMBDA r : r < InitialN)
    IN [op |-> "encode", s |-> s, out |-> basic \o (IF basic = <<>> THEN <<>> ELSE <<Dash>>),
        delta |-> 0, n |-> InitialN, bias |-> InitialBias, h |-> Len(basic), b |-> Len(basic)]

\* (a mistake, for the properties to find)
BugFirst(m, e, r) ==
    CASE r < m -> [e EXCEPT !.delta = @ + 1]
      [] r > m -> e
      [] OTHER -> [e EXCEPT !.out = @ \o Digits(e.delta, Base, e.bias),
                            !.bias = Adapt(e.delta, e.h + 1, e.h = 0),
                            !.delta = 0, !.h = @ + 1]

\* One rune of the label, in the round of the rune m.
EncodeRune(m, e, r) ==
    CASE r < m -> [e EXCEPT !.delta = @ + 1]
      [] r > m -> e
      [] OTHER -> [e EXCEPT !.out = @ \o Digits(e.delta, Base, e.bias),
                            !.bias = Adapt(e.delta, e.h + 1, e.h = e.b),
                            !.delta = 0, !.h = @ + 1]

NextRune(e) == Min({r \in ToSet(e.s) : r >= e.n})
Overflows(e) == NextRune(e) - e.n > (MaxInt - e.delta - Len(e.s)) \div (e.h + 1)
EncodeRound(e) ==
    LET m == NextRune(e)
        start == [e EXCEPT !.delta = @ + (m - e.n) * (e.h + 1)]
        end == FoldLeft(LAMBDA f, r : EncodeRune(m, f, r), start, e.s)
    IN [end EXCEPT !.delta = @ + 1, !.n = m + 1]

\* The encoded number at pos: <<i, pos>>, or none if there is none or it is too large.
RECURSIVE Number(_, _, _, _, _, _)
Number(s, pos, i, w, k, bias) ==
    LET digits == IF pos > Len(s) THEN {} ELSE DecodeDigit(s[pos])
        digit == CHOOSE d \in digits : TRUE
        t == Threshold(k, bias)
    IN IF digits = {} THEN <<>>
       ELSE IF i > MaxInt - digit * w THEN <<>>
       ELSE IF digit < t THEN <<i + digit * w, pos + 1>>
       ELSE IF w * (Base - t) >= MaxInt \div Base THEN <<>>
       ELSE Number(s, pos + 1, i + digit * w, w * (Base - t), k + Base, bias)

Decoder(s) ==
    LET dash == Max({0} \cup {i \in DOMAIN s : s[i] = Dash})
    IN [op |-> "decode", s |-> s, out |-> SubSeq(s, 1, dash - 1), pos |-> dash + 1,
        i |-> 0, n |-> InitialN, bias |-> InitialBias]

DecodeRound(d) ==
    LET number == Number(d.s, d.pos, d.i, 1, Base, d.bias)
        x == Len(d.out) + 1
        n == Wrapped(d.n, number[1] \div x)
        i == number[1] % x
    IN IF number = <<>> THEN {}
       ELSE {[d EXCEPT !.out = SubSeq(@, 1, i) \o <<n>> \o SubSeq(@, i + 1, Len(@)),
                       !.pos = number[2], !.i = i + 1, !.n = n,
                       !.bias = Adapt(number[1] - d.i, x, d.i = 0)] :
                ok \in {TRUE} \ {n > MaxRune \/ Len(d.out) >= TooLong}}

-----------------------------------------------------------------------------
(* idna.go. *)

Label == conv.labels[conv.at]
Fails ==
    /\ conv' = [conv EXCEPT !.phase = "failed"]
    /\ coder' = Idle
    /\ UNCHANGED domain
Becomes(label) ==
    /\ conv' = [conv EXCEPT !.labels[conv.at] = label, !.at = @ + 1]
    /\ coder' = Idle
    /\ UNCHANGED domain

AtLabel(phase) == coder = Idle /\ conv.phase = phase /\ conv.at <= Len(conv.labels)
Encoded(label) == Len(label) >= 4 /\ SubSeq(label, 1, 4) = AcePrefix
Converted == (conv.phase = "ascii" /\ ~Ascii(Label)) \/ (conv.phase = "unicode" /\ Encoded(Label))

Skips ==
    /\ AtLabel("ascii") \/ AtLabel("unicode")
    /\ ~Converted
    /\ Becomes(Label)

StartsEncoding ==
    /\ AtLabel("ascii")
    /\ Converted
    /\ coder' = Encoder(Label)
    /\ UNCHANGED <<domain, conv>>

Encodes ==
    /\ coder.op = "encode"
    /\ coder.h < Len(coder.s)
    /\ IF Overflows(coder) THEN Fails
       ELSE coder' = EncodeRound(coder) /\ UNCHANGED <<domain, conv>>

StartsDecoding ==
    /\ AtLabel("unicode")
    /\ Converted
    /\ LET s == SubSeq(Label, 5, Len(Label)) IN
       IF s = <<>> THEN Becomes(<<>>)
       ELSE IF Decoder(s).pos = 2 THEN Fails
       ELSE coder' = Decoder(s) /\ UNCHANGED <<domain, conv>>

Decodes ==
    /\ coder.op = "decode"
    /\ coder.pos <= Len(coder.s)
    /\ IF DecodeRound(coder) = {} THEN Fails
       ELSE \E d \in DecodeRound(coder) : coder' = d /\ UNCHANGED <<domain, conv>>

Finishes ==
    \/ /\ coder.op = "encode"
       /\ coder.h = Len(coder.s)
       /\ Becomes(AcePrefix \o coder.out)
    \/ /\ coder.op = "decode"
       /\ coder.pos > Len(coder.s)
       /\ Becomes([i \in DOMAIN coder.out |-> Rune(coder.out[i])])

\* The domain is in ASCII: the program may want it back.
TurnsBack ==
    /\ coder = Idle
    /\ conv.phase = "ascii"
    /\ conv.at > Len(conv.labels)
    /\ conv' = [conv EXCEPT !.phase = "unicode", !.at = 1]
    /\ UNCHANGED <<domain, coder>>

ConversionOver ==
    /\ conv.phase = "failed" \/ (conv.phase = "unicode" /\ conv.at > Len(conv.labels))
    /\ UNCHANGED idnaVars

IdnaNext ==
    Skips \/ StartsEncoding \/ Encodes \/ StartsDecoding \/ Decodes \/ Finishes \/ TurnsBack
        \/ ConversionOver

IdnaInit ==
    /\ domain \in Conversions
    /\ conv = [phase |-> domain.phase, labels |-> domain.labels, at |-> 1]
    /\ coder = Idle

IdnaSpec == IdnaInit /\ [][IdnaNext]_idnaVars

-----------------------------------------------------------------------------
(* Properties. *)

\* ToASCII and ToUnicode (idna.go): what is written in ASCII is ASCII, and reads back as
\* it was, when none of its labels was written already.
DomainIsKept ==
    domain.phase = "ascii" =>
        /\ conv.phase = "unicode" /\ conv.at = 1 => \A i \in DOMAIN conv.labels : Ascii(conv.labels[i])
        /\ conv.phase = "unicode" /\ conv.at > Len(conv.labels)
           /\ (\A i \in DOMAIN domain.labels : ~Encoded(domain.labels[i]))
                => conv.labels = domain.labels
        /\ conv.phase = "failed" => \E i \in DOMAIN domain.labels : Encoded(domain.labels[i])

RECURSIVE EncodedFrom(_)
EncodedFrom(e) == IF e.h < Len(e.s) THEN EncodedFrom(EncodeRound(e)) ELSE e.out
Lower(s) == [i \in DOMAIN s |-> IF s[i] \in 65..90 THEN s[i] + 32 ELSE s[i]]

\* decode (punycode.go): a label that it accepts is the one that encode writes for what
\* it reads, but for case, if every number in it is a rune.
DecodedIsKept ==
    coder.op = "decode" /\ coder.pos > Len(coder.s) /\ ~Ascii(coder.out)
        /\ (\A i \in DOMAIN coder.out : Rune(coder.out[i]) = coder.out[i])
            => Lower(EncodedFrom(Encoder(coder.out))) = Lower(coder.s)

DomainsAreKept == DomainIsKept /\ DecodedIsKept
=============================================================================
