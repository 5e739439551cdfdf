----------------------------- MODULE UnicodeText ----------------------------
(***************************************************************************)
(* Text as the bounds of this system measure it.  A text is a sequence of  *)
(* characters (scalar values) of a small alphabet that has what the bounds *)
(* tell apart: a letter, a hyphen, a space, a tab (white space and         *)
(* control), a bracket (restricted punctuation), U+E000 (three bytes, one  *)
(* UTF-16 unit) and U+1F600 (four bytes, two units, both below U+E000).    *)
(***************************************************************************)
EXTENDS Integers, Sequences, FiniteSetsExt, SequencesExt

Space == 32
Tab == 9
Hyphen == 45
Letter == 97
Bracket == 91
Private == 57344
Emoji == 128512

\* The scalar values: no surrogates, which are units of UTF-16 only.
Scalars == Nat \ (55296 .. 57343)

Utf16(c) == IF c = Emoji THEN <<55357, 56832>> ELSE <<c>>
Utf8Bytes(c) == CASE c = Emoji -> 4 [] c = Private -> 3 [] OTHER -> 1

Bytes(term) == SumFunction([i \in DOMAIN term |-> Utf8Bytes(term[i])])
Utf16Units(term) == FlattenSeq([i \in DOMAIN term |-> Utf16(term[i])])

\* The members of a finite set of numbers in ascending order.
InOrder(S) ==
    [n \in 1 .. Cardinality(S) |-> CHOOSE i \in S : Cardinality({j \in S : j <= i}) = n]

IsWhite(c) == c \in {Space, Tab}
IsControl(c) == c = Tab

trim(term) ==
    LET solid == {i \in DOMAIN term : ~IsWhite(term[i])}
    IN  IF solid = {} THEN <<>> ELSE SubSeq(term, Min(solid), Max(solid))

\* Words of split_whitespace.
Words(term) ==
    Cardinality({i \in DOMAIN term :
                    ~IsWhite(term[i]) /\ (i = 1 \/ IsWhite(term[i - 1]))})

\* split_whitespace joined by one space: as many scalars as this.
NormalizedScalars(term) ==
    Cardinality({i \in DOMAIN term : ~IsWhite(term[i])}) + Max({0, Words(term) - 1})

\* split_whitespace joined by one space, of a trimmed text.
ProviderTerm(term) ==
    LET kept == InOrder({i \in DOMAIN term :
                            ~IsWhite(term[i]) \/ (i > 1 /\ ~IsWhite(term[i - 1]))})
    IN  [i \in DOMAIN kept |-> IF IsWhite(term[kept[i]]) THEN Space ELSE term[kept[i]]]
=============================================================================
