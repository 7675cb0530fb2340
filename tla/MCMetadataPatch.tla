--------------------------- MODULE MCMetadataPatch ---------------------------
(* Byte 0 is NUL, 2 is the one that XML escaping makes two bytes of.        *)
EXTENDS MetadataPatch, TLC

CONSTANTS w1, w2, p1, p2

MCEscape == [b \in 0..2 |-> IF b = 2 THEN <<2, 1>> ELSE <<b>>]

Value(k, b) == [kind |-> k, in |-> Host, bytes |-> b]
MCValues == {Value("Text", <<2>>), Value("Text", <<2, 1>>), Value("Array", <<0>>)}

S(f, k, n, at, width) ==
    [family |-> f, kind |-> k, count |-> n, offset |-> at, width |-> width]

\* A plan of one slot, and two plans of two slots in different families.
MCLayouts ==
    {[slots |-> << S("Iptc", "Text", 1, 0, 1) >>,
      payloads |-> [Exif |-> <<>>, Xmp |-> <<>>, Iptc |-> <<1>>]],
     [slots |-> << S("Exif", "Text", 1, 1, 2), S("Xmp", "Text", 0, 0, 2) >>,
      payloads |-> [Exif |-> <<2, 1, 0>>, Xmp |-> <<1, 1, 2>>, Iptc |-> <<>>]],
     [slots |-> << S("Xmp", "Text", 0, 0, 2), S("Iptc", "Array", 1, 0, 1) >>,
      payloads |-> [Exif |-> <<>>, Xmp |-> <<1, 1, 2>>, Iptc |-> <<1, 2>>]]}

\* Workers and plan objects are interchangeable.
MCSymmetry == Permutations({w1, w2}) \cup Permutations({p1, p2})
=============================================================================
