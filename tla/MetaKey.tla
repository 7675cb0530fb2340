------------------------------- MODULE MetaKey -------------------------------
(***************************************************************************)
(* Keys of openmeta/meta_key.{h,cc} and values of meta_value.h, both as    *)
(* they are stored (texts are spans into an arena) and as a caller sees    *)
(* them (a view: texts are byte sequences).                                *)
(*                                                                         *)
(* A stored key keeps its numeric fields in nums and its text fields in    *)
(* first and second (the empty span when its kind has fewer texts).        *)
(***************************************************************************)
EXTENDS ByteArena

\* MetaKeyKind, in the order of the enumeration.
KindOrder ==
    << "ExifTag", "Comment", "ExrAttribute", "IptcDataset", "XmpProperty",
       "IccHeaderField", "IccTag", "PhotoshopIrb", "PhotoshopIrbField",
       "GeotiffKey", "PrintImField", "BmffField", "JumbfField",
       "JumbfCborKey", "PngText" >>

Kinds == {KindOrder[i] : i \in 1..Len(KindOrder)}

\* The kinds whose numeric field is compared before the text.
NumberFirst == {"ExrAttribute", "PhotoshopIrbField"}

Key == [kind : Kinds, nums : Seq(Nat), first : Span, second : Span]
KeyView == [kind : Kinds, nums : Seq(Nat), first : Seq(Bytes), second : Seq(Bytes)]

\* MetaValueKind: the payload of three kinds lives in the arena.
SpanKinds == {"Array", "Bytes", "Text"}
ValueKinds == {"Empty", "Scalar"} \cup SpanKinds

Value == [kind : ValueKinds, num : Nat, span : Span]
ValueView == [kind : ValueKinds, num : Nat, bytes : Seq(Bytes)]

ViewKey(a, k) ==
    [kind |-> k.kind, nums |-> k.nums,
     first |-> SpanBytes(a, k.first), second |-> SpanBytes(a, k.second)]

ViewValue(a, v) ==
    [kind |-> v.kind, num |-> v.num,
     bytes |-> IF v.kind \in SpanKinds THEN SpanBytes(a, v.span) ELSE <<>>]

-----------------------------------------------------------------------------
\* The first of some places.
FirstOf(places) == CHOOSE i \in places : \A j \in places : i <= j

\* compare_bytes(): memcmp of the common prefix, then the length.  The result
\* is negative, zero or positive.
CompareBytes(x, y) ==
    LET common == IF Len(x) < Len(y) THEN Len(x) ELSE Len(y)
        differ == {i \in 1..common : x[i] # y[i]}
    IN  IF differ = {} THEN Len(x) - Len(y) ELSE x[FirstOf(differ)] - y[FirstOf(differ)]

\* The first comparison of the list that is not zero.
FirstNonZero(cmps) ==
    LET hits == {i \in 1..Len(cmps) : cmps[i] # 0}
    IN  IF hits = {} THEN 0 ELSE cmps[FirstOf(hits)]

KindRank(kind) == CHOOSE i \in 1..Len(KindOrder) : KindOrder[i] = kind

\* compare_key() and compare_key_view(): the kinds in their order, then the
\* fields of the kind in the order its case compares them.
CompareViews(x, y) ==
    LET numbers == CompareBytes(x.nums, y.nums)
        first   == CompareBytes(x.first, y.first)
        second  == CompareBytes(x.second, y.second)
    IN  FirstNonZero(<< KindRank(x.kind) - KindRank(y.kind) >> \o
            IF x.kind \in NumberFirst THEN << numbers, first >>
                                      ELSE << first, second, numbers >>)

CompareKey(a, x, y) == CompareViews(ViewKey(a, x), ViewKey(a, y))
CompareKeyView(a, view, y) == CompareViews(view, ViewKey(a, y))

-----------------------------------------------------------------------------
\* The make_*_key() functions: each text of the kind is appended in turn, and
\* the caller is not told when the arena refuses one (the stored key then
\* reads as empty there; the arena's flag is up).
TextCount(kind) ==
    CASE kind \in {"XmpProperty", "PngText"} -> 2
      [] kind \in {"ExifTag", "ExrAttribute", "PhotoshopIrbField", "PrintImField",
                   "BmffField", "JumbfField", "JumbfCborKey"} -> 1
      [] OTHER -> 0

\* A view has the texts of its kind and no others (MetaKeyView).
HasItsTexts(view) ==
    /\ TextCount(view.kind) < 1 => view.first = <<>>
    /\ TextCount(view.kind) < 2 => view.second = <<>>

\* A view of a value has a payload only if its kind has one.
HasItsPayload(view) == view.kind \in SpanKinds \/ view.bytes = <<>>

PutText(a, wanted, bytes) ==
    IF wanted THEN Append_(a, bytes) ELSE [arena |-> a, span |-> EmptySpan]

MakeKey(a, view) ==
    LET r1 == PutText(a, TextCount(view.kind) >= 1, view.first)
        r2 == PutText(r1.arena, TextCount(view.kind) = 2, view.second)
    IN  [arena |-> r2.arena,
         key   |-> [kind |-> view.kind, nums |-> view.nums,
                    first |-> r1.span, second |-> r2.span]]

\* make_bytes(), make_text(), make_array(), the inline scalars: a payload the
\* arena refuses makes the empty value.
EmptyValue == [kind |-> "Empty", num |-> 0, span |-> EmptySpan]

MakeValue(a, view) ==
    LET r == PutText(a, view.kind \in SpanKinds, view.bytes)
        v == [kind |-> view.kind, num |-> view.num, span |-> r.span]
    IN  [arena |-> r.arena,
         value |-> IF view.kind \in SpanKinds /\ r.span.size # Len(view.bytes)
                   THEN EmptyValue ELSE v]
=============================================================================
