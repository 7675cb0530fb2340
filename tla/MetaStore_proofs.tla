--------------------------- MODULE MetaStore_proofs ---------------------------
(***************************************************************************)
(* What the arena promises its owner, for every width of a span, every     *)
(* payload and every order of calls.  Safety of the store and its edit     *)
(* pipeline for every number of buffers, every ceiling and every sequence  *)
(* of decoding, editing and compaction; that its lookups are exact; and    *)
(* that it implements MetadataDocument.                                    *)
(***************************************************************************)
EXTENDS MetaStoreRefinement, ArenaUse, SequenceTheorems, FiniteSetTheorems, TLAPS

-----------------------------------------------------------------------------
(* What the arena's methods return.                                         *)

\* Adding at the end of a sequence leaves its earlier subsequences alone.
LEMMA PrefixView ==
    ASSUME NEW S, NEW x \in Seq(S), NEW y \in Seq(S),
           NEW m \in 1..Len(x) + 1, NEW n \in 0..Len(x)
    PROVE  SubSeq(x \o y, m, n) = SubSeq(x, m, n)
<1>1. CASE n < m
  BY <1>1, SubSeqEmpty
<1>2. CASE m <= n
  <2>1. m \in 1..Len(x) /\ n \in 1..Len(x)
    BY <1>2
  <2> QED BY <2>1, SubSeqOfConcat1
<1> QED BY <1>1, <1>2

\* A view that lies inside the buffer is unchanged when bytes are added at
\* its end (the note on ByteSpan in byte_arena.h).
LEMMA GrowthKeepsViews ==
    ASSUME NEW a \in Arena, NEW more \in Seq(Bytes), NEW s \in Span, InArena(a, s),
           NEW b \in Arena, b.buf = a.buf \o more
    PROVE  InArena(b, s) /\ SpanBytes(b, s) = SpanBytes(a, s)
<1>1. Len(b.buf) = Len(a.buf) + Len(more) /\ a.buf \in Seq(Bytes)
  BY DEF Arena
<1>2. InArena(b, s)
  BY <1>1 DEF InArena, ArenaSize, Arena, Span
<1>3. SubSeq(b.buf, s.offset + 1, s.offset + s.size)
        = SubSeq(a.buf, s.offset + 1, s.offset + s.size)
  <2>1. s.offset + 1 \in 1..Len(a.buf) + 1 /\ s.offset + s.size \in 0..Len(a.buf)
    BY <1>1, OffsetMaxAssumption DEF InArena, ArenaSize, Arena, Span
  <2>2. SubSeq(a.buf \o more, s.offset + 1, s.offset + s.size)
          = SubSeq(a.buf, s.offset + 1, s.offset + s.size)
    BY <1>1, <2>1, PrefixView
  <2> QED BY <2>2
<1> QED
  BY <1>2, <1>3 DEF SpanBytes, InArena

\* What a call that stores bytes promises: the result r on arena a.
HandsOut(a, r, bytes) ==
    /\ r.arena \in Arena
    /\ r.span \in Span
    /\ InArena(r.arena, r.span)
    /\ r.arena.max = a.max
    /\ a.over => r.arena.over
    /\ (ArenaSize(a) <= a.max \/ a.over)
         => (ArenaSize(r.arena) <= r.arena.max \/ r.arena.over)
    /\ r.span # EmptySpan => SpanBytes(r.arena, r.span) = bytes
    /\ \E more \in Seq(Bytes) : r.arena.buf = a.buf \o more

\* append() hands out a view of exactly the bytes it was given, keeps every
\* earlier byte, and never grows past the ceiling without raising the flag.
LEMMA AppendExact ==
    ASSUME NEW a \in Arena, NEW p \in Seq(Bytes),
           NEW r, r = Append_(a, p)
    PROVE  HandsOut(a, r, p)
<1> USE OffsetMaxAssumption DEF Arena, Span, InArena, ArenaSize, HandsOut
<1>1. CASE CanAppend(a, Len(p))
  <2>1. /\ r.arena = [a EXCEPT !.buf = a.buf \o p]
        /\ r.span = [offset |-> Len(a.buf), size |-> Len(p)]
    BY <1>1 DEF Append_
  <2> DEFINE q == a.buf \o p
  <2>q. q \in Seq(Bytes) /\ Len(q) = Len(a.buf) + Len(p)
    BY ConcatProperties
  <2> HIDE DEF q
  <2>2. /\ r.arena.buf = q /\ r.arena.max = a.max
        /\ r.arena.over = a.over /\ r.arena \in Arena
        /\ Len(r.arena.buf) = Len(a.buf) + Len(p)
    BY <2>1, <2>q DEF q
  <2>3. SpanBytes(r.arena, r.span) = p
    <3>1. SubSeq(a.buf \o p, Len(a.buf) + 1, Len(a.buf) + Len(p)) = p
      OBVIOUS
    <3> QED BY <2>1, <2>2, <3>1 DEF SpanBytes, q
  <2>4. r.span \in Span /\ InArena(r.arena, r.span)
    BY <1>1, <2>1, <2>2 DEF CanAppend
  <2>5. ArenaSize(r.arena) <= r.arena.max
    BY <1>1, <2>2 DEF CanAppend
  <2> QED BY <2>2, <2>3, <2>4, <2>5 DEF q
<1>2. CASE ~CanAppend(a, Len(p))
  <2>1. /\ r.arena = [a EXCEPT !.over = TRUE]
        /\ r.span = EmptySpan
    BY <1>2 DEF Append_
  <2>2. /\ r.arena.buf = a.buf /\ r.arena.max = a.max
        /\ r.arena.over /\ r.arena \in Arena
    BY <2>1
  <2>3. a.buf = a.buf \o <<>> /\ <<>> \in Seq(Bytes)
    OBVIOUS
  <2>4. r.span \in Span /\ InArena(r.arena, r.span)
    BY <2>1, <2>2 DEF EmptySpan
  <2>5. \E more \in Seq(Bytes) : r.arena.buf = a.buf \o more
    BY <2>2, <2>3
  <2> QED BY <2>1, <2>2, <2>4, <2>5
<1> QED BY <1>1, <1>2

\* Rounding up to an alignment never moves backwards.
LEMMA AlignUpGrows ==
    ASSUME NEW n \in Nat, NEW al \in Nat \ {0}
    PROVE  AlignUp(n, al) \in Nat /\ n <= AlignUp(n, al)
<1> DEFINE k == n + al - 1
           q == k \div al
<1>1. k \in Nat /\ q \in Nat
  OBVIOUS
<1>2. k = al * q + (k % al) /\ k % al \in 0..al - 1
  OBVIOUS
<1>3. q * al = al * q /\ al * q \in Nat
  BY <1>1
<1> QED BY <1>1, <1>2, <1>3 DEF AlignUp

\* allocate() hands out zero bytes that lie behind every earlier byte, under
\* the same ceiling rule as append().
LEMMA AllocateExact ==
    ASSUME NEW a \in Arena, NEW n \in 0..OffsetMax, NEW al \in Nat,
           NEW r, r = Allocate(a, n, al)
    PROVE  HandsOut(a, r, [i \in 1..n |-> 0])
<1> USE OffsetMaxAssumption, BytesAssumption DEF HandsOut
<1> DEFINE start == AlignUp(ArenaSize(a), al)
           end   == start + n
           ok    == /\ al # 0 /\ IsPowerOfTwo[al]
                    /\ end <= OffsetMax /\ end <= a.max
           more  == [i \in 1..(end - ArenaSize(a)) |-> 0]
<1>0. a.buf \in Seq(Bytes) /\ ArenaSize(a) \in Nat /\ a.max \in Nat
      /\ a.over \in BOOLEAN
  BY DEF Arena, ArenaSize
<1>1. CASE ok
  <2>1. start \in Nat /\ ArenaSize(a) <= start
    BY <1>0, <1>1, AlignUpGrows
  <2>2. /\ r.arena = [a EXCEPT !.buf = a.buf \o more]
        /\ r.span = [offset |-> start, size |-> n]
    BY <1>1 DEF Allocate
  <2> DEFINE q == a.buf \o more
             d == end - ArenaSize(a)
  <2>3. d \in Nat /\ d = (start - ArenaSize(a)) + n /\ more = [i \in 1..d |-> 0]
    BY <1>0, <2>1
  <2>4. more \in Seq(Bytes) /\ Len(more) = d
    BY <2>3
  <2>5. q \in Seq(Bytes) /\ Len(q) = end
        /\ \A i \in 1..end : ArenaSize(a) < i => q[i] = 0
    <3>1. /\ q \in Seq(Bytes)
          /\ Len(q) = Len(a.buf) + d
          /\ \A i \in 1..Len(a.buf) + d :
               q[i] = IF i <= Len(a.buf) THEN a.buf[i] ELSE more[i - Len(a.buf)]
      <4> HIDE DEF more, d
      <4>1. /\ a.buf \o more \in Seq(Bytes)
            /\ Len(a.buf \o more) = Len(a.buf) + Len(more)
            /\ \A i \in 1..Len(a.buf) + Len(more) : (a.buf \o more)[i] =
                 IF i <= Len(a.buf) THEN a.buf[i] ELSE more[i - Len(a.buf)]
        BY <1>0, <2>4, ConcatProperties
      <4> QED BY <2>4, <4>1
    <3>2. \A j \in 1..d : more[j] = 0
      BY <2>3
    <3>3. end = Len(a.buf) + d /\ Len(a.buf) \in Nat
      BY <1>0, <2>1, <2>3 DEF ArenaSize
    <3> HIDE DEF q, more, d, end
    <3>4. Len(q) = end
      BY <3>1, <3>3
    <3>5. ASSUME NEW i \in 1..end, ArenaSize(a) < i PROVE q[i] = 0
      <4>1. i \in 1..Len(a.buf) + d /\ ~(i <= Len(a.buf))
        BY <2>3, <3>3, <3>5 DEF ArenaSize
      <4>2. i - Len(a.buf) \in 1..d
        BY <2>3, <3>3, <4>1
      <4> QED BY <3>1, <3>2, <4>1, <4>2
    <3> QED BY <3>1, <3>4, <3>5
  <2> HIDE DEF q, start, more, d
  <2>6. /\ r.arena.buf = q /\ r.arena.max = a.max
        /\ r.arena.over = a.over /\ r.arena \in Arena
    BY <2>2, <2>5 DEF q, Arena
  <2>7. r.span \in Span /\ InArena(r.arena, r.span)
    BY <1>1, <2>1, <2>2, <2>5, <2>6 DEF Span, InArena, ArenaSize
  <2>8. SpanBytes(r.arena, r.span) = SubSeq(q, start + 1, start + n)
    <3>1. r.span.offset = start /\ r.span.size = n
      BY <2>2
    <3> QED BY <2>6, <2>7, <3>1 DEF SpanBytes
  <2>9. SubSeq(q, start + 1, start + n) = [i \in 1..n |-> 0]
    <3> DEFINE z == [i \in 1..n |-> 0]
    <3>1. \A i \in start + 1..start + n : q[i] \in Bytes /\ q[i] = 0
      BY <1>0, <2>1, <2>5 DEF ArenaSize
    <3>2. /\ SubSeq(q, start + 1, start + n) \in Seq(Bytes)
          /\ Len(SubSeq(q, start + 1, start + n)) = n
          /\ \A i \in 1..n : SubSeq(q, start + 1, start + n)[i] = q[start + i]
      <4>1. /\ SubSeq(q, start + 1, start + n) \in Seq(Bytes)
            /\ Len(SubSeq(q, start + 1, start + n))
                 = IF start + 1 <= start + n THEN start + n - (start + 1) + 1 ELSE 0
            /\ \A i \in 1..start + n - (start + 1) + 1 :
                 SubSeq(q, start + 1, start + n)[i] = q[start + 1 + i - 1]
        BY <2>1, <3>1, SubSeqProperties
      <4> QED BY <2>1, <4>1
    <3>3. z \in Seq(Bytes) /\ Len(z) = n /\ \A i \in 1..n : z[i] = 0
      OBVIOUS
    <3>4. \A i \in 1..n : SubSeq(q, start + 1, start + n)[i] = z[i]
      BY <2>1, <3>1, <3>2, <3>3
    <3> QED BY <3>2, <3>3, <3>4, SeqEqual
  <2>10. ArenaSize(r.arena) <= r.arena.max
    BY <1>1, <2>5, <2>6 DEF ArenaSize
  <2>11. \E m \in Seq(Bytes) : r.arena.buf = a.buf \o m
    BY <2>4, <2>6 DEF q
  <2> QED BY <2>6, <2>7, <2>8, <2>9, <2>10, <2>11
<1>2. CASE ~ok
  <2>1. r.arena = [a EXCEPT !.over = TRUE] /\ r.span = EmptySpan
    BY <1>2 DEF Allocate
  <2>2. /\ r.arena.buf = a.buf /\ r.arena.max = a.max
        /\ r.arena.over /\ r.arena \in Arena
    BY <2>1 DEF Arena
  <2>3. a.buf = a.buf \o <<>> /\ <<>> \in Seq(Bytes)
    BY <1>0
  <2>4. r.span \in Span /\ InArena(r.arena, r.span)
    BY <1>0, <2>1, <2>2 DEF EmptySpan, Span, InArena, ArenaSize
  <2>5. \E m \in Seq(Bytes) : r.arena.buf = a.buf \o m
    BY <2>2, <2>3
  <2> QED BY <2>1, <2>2, <2>4, <2>5
<1> QED BY <1>1, <1>2

\* What a view of an arena reads as.
LEMMA ViewIsBytes ==
    ASSUME NEW a \in Arena, NEW s \in Span
    PROVE  SpanBytes(a, s) \in Seq(Bytes)
<1> USE OffsetMaxAssumption DEF Arena, Span, InArena, ArenaSize
<1>1. CASE InArena(a, s)
  <2>1. \A i \in s.offset + 1..s.offset + s.size : a.buf[i] \in Bytes
    BY <1>1
  <2>2. SubSeq(a.buf, s.offset + 1, s.offset + s.size) \in Seq(Bytes)
    BY <2>1, SubSeqProperties
  <2> QED BY <1>1, <2>2 DEF SpanBytes
<1>2. CASE ~InArena(a, s)
  BY <1>2 DEF SpanBytes
<1> QED BY <1>1, <1>2

\* append() called with a view of the arena itself stores the bytes that the view
\* stood for (the aliasing branch of ByteArena::append).
LEMMA ViewAppended ==
    ASSUME NEW a \in Arena, NEW s \in Span, InArena(a, s)
    PROVE  AppendView(a, s) = Append_(a, SpanBytes(a, s))
<1> USE OffsetMaxAssumption, BytesAssumption
<1>1. PICK b, n, from, m : b = a.buf /\ n = s.size /\ from = s.offset /\ m = Len(b)
  OBVIOUS
<1>2. b \in Seq(Bytes) /\ m \in Nat /\ n \in Nat /\ from \in Nat /\ from + n <= m
  BY <1>1 DEF Arena, Span, InArena, ArenaSize
<1>3. PICK p : p = SpanBytes(a, s)
  OBVIOUS
<1>4. p = SubSeq(b, from + 1, from + n)
  BY <1>1, <1>3 DEF SpanBytes
<1>5. p \in Seq(Bytes) /\ Len(p) = n /\ \A i \in 1..n : p[i] = b[from + i]
  <2>1. p \in Seq(Bytes)
    BY <1>3, ViewIsBytes
  <2>2. \A i \in from + 1..from + n : b[i] \in Bytes
    BY <1>1, <1>2
  <2>3. Len(SubSeq(b, from + 1, from + n)) = n
    BY <1>2, <2>2, SubSeqProperties
  <2>4. \A i \in 1..n : SubSeq(b, from + 1, from + n)[i] = b[from + i]
    BY <1>2
  <2> QED BY <1>4, <2>1, <2>3, <2>4
<1>6. PICK r : r = Resized(b, m + n)
  OBVIOUS
<1>7. /\ r = [i \in 1..m + n |-> IF i <= m THEN b[i] ELSE 0]
      /\ r \in Seq(Bytes) /\ Len(r) = m + n
  <2>1. r = [i \in 1..m + n |-> IF i <= m THEN b[i] ELSE 0]
    BY <1>1, <1>6 DEF Resized
  <2>2. ASSUME NEW i \in 1..m + n PROVE r[i] \in Bytes
    <3>1. CASE i <= m
      <4>1. r[i] = b[i] /\ i \in 1..m
        BY <1>2, <2>1, <3>1
      <4> QED BY <1>1, <1>2, <4>1
    <3>2. CASE ~(i <= m)
      BY <2>1, <3>2
    <3> QED BY <3>1, <3>2
  <2>3. m + n \in Nat /\ r = [i \in 1..m + n |-> r[i]]
    BY <1>2, <2>1
  <2>4. r \in Seq(Bytes) /\ Len(r) = m + n
    BY <2>2, <2>3
  <2> QED BY <2>1, <2>4
<1>8. PICK t : t = Moved(r, from, m, n)
  OBVIOUS
<1>9. t = [i \in 1..m + n |-> IF i \in m + 1..m + n THEN r[i - m + from] ELSE r[i]]
  BY <1>7, <1>8 DEF Moved
<1>10. t = b \o p
  <2>1. /\ b \o p \in Seq(Bytes) /\ Len(b \o p) = m + n
        /\ \A i \in 1..m + n : (b \o p)[i] = IF i <= m THEN b[i] ELSE p[i - m]
    <3>1. /\ b \o p \in Seq(Bytes) /\ Len(b \o p) = Len(b) + Len(p)
          /\ \A i \in 1..Len(b) + Len(p) :
                (b \o p)[i] = IF i <= Len(b) THEN b[i] ELSE p[i - Len(b)]
      BY <1>2, <1>5, ConcatProperties
    <3> QED BY <1>1, <1>5, <3>1
  <2>2. \A i \in 1..m + n : t[i] = IF i <= m THEN b[i] ELSE p[i - m]
    <3>1. SUFFICES ASSUME NEW i \in 1..m + n PROVE t[i] = IF i <= m THEN b[i] ELSE p[i - m]
      OBVIOUS
    <3>2. CASE i <= m
      BY <1>2, <1>7, <1>9, <3>2
    <3>3. CASE ~(i <= m)
      <4>1. i \in m + 1..m + n /\ i - m \in 1..n /\ i - m + from \in 1..m
        BY <1>2, <3>3
      <4>2. t[i] = r[i - m + from]
        BY <1>9, <4>1
      <4>3. r[i - m + from] = b[i - m + from]
        BY <1>2, <1>7, <4>1
      <4>4. p[i - m] = b[from + (i - m)]
        BY <1>5, <4>1
      <4> QED BY <1>2, <3>3, <4>2, <4>3, <4>4
    <3> QED BY <3>2, <3>3
  <2>3. t \in Seq(Bytes) /\ Len(t) = m + n
    <3>1. \A i \in 1..m + n : t[i] \in Bytes
      <4>1. PICK q : q = b \o p
        OBVIOUS
      <4>2. q \in Seq(Bytes) /\ Len(q) = m + n
        BY <2>1, <4>1
      <4>3. \A i \in 1..m + n : q[i] \in Bytes
        BY <4>2
      <4> QED BY <2>1, <2>2, <4>1, <4>3
    <3>2. m + n \in Nat /\ t = [i \in 1..m + n |-> t[i]]
      BY <1>2, <1>9
    <3>3. PICK k : k = m + n
      OBVIOUS
    <3>4. k \in Nat /\ t = [i \in 1..k |-> t[i]] /\ \A i \in 1..k : t[i] \in Bytes
      BY <3>1, <3>2, <3>3
    <3>5. t \in Seq(Bytes) /\ Len(t) = k
      BY <3>4
    <3> QED BY <3>3, <3>5
  <2> QED BY <2>1, <2>2, <2>3, SeqEqual
<1>11. CASE CanAppend(a, n)
  BY <1>1, <1>3, <1>5, <1>6, <1>8, <1>10, <1>11 DEF AppendView, Append_, ArenaSize
<1>12. CASE ~CanAppend(a, n)
  BY <1>1, <1>3, <1>5, <1>12 DEF AppendView, Append_
<1> QED BY <1>11, <1>12

\* The empty span reads as no bytes in every arena.
LEMMA EmptyView == ASSUME NEW a \in Arena PROVE SpanBytes(a, EmptySpan) = <<>>
<1>1. SubSeq(a.buf, 0 + 1, 0 + 0) = <<>>
  BY SubSeqEmpty
<1> QED BY <1>1 DEF SpanBytes, EmptySpan

-----------------------------------------------------------------------------
(* One arena and the spans its owner holds.                                 *)

\* The inductive invariant: besides its type, every span still held lies
\* inside the buffer, so a later append cannot change what it reads as.
HeldInArena == \A h \in held : InArena(arena, h[1])
HeldType == \A h \in held : h[1] \in Span /\ h[2] \in Seq(Bytes)

UseInv == /\ UseTypeOK
       /\ HeldType
       /\ HeldInArena
       /\ HeldSpansKeepTheirBytes
       /\ CeilingOrFlag

\* One call that grows the arena and hands out a span keeps the invariant.
LEMMA KeepPreservesUseInv ==
    ASSUME UseInv, NEW r, NEW bytes \in Seq(Bytes), Keep(r, bytes),
           HandsOut(arena, r, bytes)
    PROVE  UseInv'
<1> USE DEF HandsOut
<1> DEFINE new == <<r.span, IF r.span = EmptySpan THEN <<>> ELSE bytes>>
<1>1. arena' = r.arena /\ held' = held \cup {new}
  BY DEF Keep
<1>2. \A h \in held : InArena(r.arena, h[1])
                       /\ SpanBytes(r.arena, h[1]) = SpanBytes(arena, h[1])
  BY GrowthKeepsViews DEF UseInv, UseTypeOK, HeldType, HeldInArena
<1>3. /\ SpanBytes(r.arena, new[1]) = new[2]
      /\ new[1] = r.span /\ new[2] \in Seq(Bytes)
  BY EmptyView
<1>4. UseTypeOK'
  BY <1>1 DEF UseInv, UseTypeOK
<1>5. HeldType'
  <2> HIDE DEF new
  <2> QED BY <1>1, <1>3 DEF UseInv, HeldType
<1>6. HeldInArena'
  BY <1>1, <1>2 DEF HeldInArena
<1>7. HeldSpansKeepTheirBytes'
  BY <1>1, <1>2, <1>3 DEF UseInv, HeldSpansKeepTheirBytes
<1>8. CeilingOrFlag'
  BY <1>1 DEF UseInv, CeilingOrFlag
<1> QED BY <1>4, <1>5, <1>6, <1>7, <1>8 DEF UseInv

LEMMA UseInitInv == UseInit => UseInv
<1> SUFFICES ASSUME UseInit PROVE UseInv
  OBVIOUS
<1>1. arena \in Arena /\ Len(arena.buf) = 0 /\ arena.max = OffsetMax
  BY OffsetMaxAssumption DEF UseInit, EmptyArena, Arena
<1> QED BY <1>1, OffsetMaxAssumption
        DEF UseInit, UseInv, UseTypeOK, HeldType, HeldInArena, HeldSpansKeepTheirBytes,
            CeilingOrFlag, ArenaSize

LEMMA UseNextInv == UseInv /\ [UseNext]_useVars => UseInv'
<1> SUFFICES ASSUME UseInv, [UseNext]_useVars PROVE UseInv'
  OBVIOUS
<1> USE UseAssumption, OffsetMaxAssumption, BytesAssumption
<1>0. arena \in Arena /\ \A h \in held : h[1] \in Span /\ h[2] \in Seq(Bytes)
  BY DEF UseInv, UseTypeOK, HeldType
<1>1. CASE AppendBytes
  <2>1. PICK p \in Payloads : Keep(Append_(arena, p), p)
    BY <1>1 DEF AppendBytes
  <2>2. p \in Seq(Bytes)
    OBVIOUS
  <2>3. PICK r : r = Append_(arena, p)
    OBVIOUS
  <2>4. Keep(r, p)
    BY <2>1, <2>3
  <2> QED BY <1>0, <2>2, <2>3, <2>4, AppendExact, KeepPreservesUseInv
<1>2. CASE AppendOwn
  <2>1. PICK s \in Span : InArena(arena, s) /\ Keep(AppendView(arena, s), SpanBytes(arena, s))
    BY <1>2 DEF AppendOwn
  <2>2. PICK p : p = SpanBytes(arena, s) /\ p \in Seq(Bytes)
    BY <1>0, <2>1, ViewIsBytes
  <2>3. PICK r : r = Append_(arena, p)
    OBVIOUS
  <2>4. Keep(r, p)
    BY <1>0, <2>1, <2>2, <2>3, ViewAppended
  <2> QED BY <1>0, <2>2, <2>3, <2>4, AppendExact, KeepPreservesUseInv
<1>3. CASE AllocateBytes
  <2>1. PICK n \in Sizes, al \in Alignments :
          Keep(Allocate(arena, n, al), [i \in 1..n |-> 0])
    BY <1>3 DEF AllocateBytes
  <2>2. n \in 0..OffsetMax /\ al \in Nat
    OBVIOUS
  <2>3. [i \in 1..n |-> 0] \in Seq(Bytes)
    BY <2>2
  <2>4. PICK r : r = Allocate(arena, n, al)
    OBVIOUS
  <2>5. Keep(r, [i \in 1..n |-> 0])
    BY <2>1, <2>4
  <2> QED BY <1>0, <2>2, <2>3, <2>4, <2>5, AllocateExact, KeepPreservesUseInv
<1>4. CASE ReserveBytes
  <2>1. PICK n \in Sizes : arena' = [arena EXCEPT !.over = arena.over \/ n > arena.max]
                           /\ held' = held
    BY <1>4 DEF ReserveBytes, ArenaReserve
  <2>2. arena' \in Arena /\ arena'.buf = arena.buf /\ arena'.max = arena.max
        /\ (arena.over => arena'.over)
    BY <1>0, <2>1 DEF Arena
  <2> QED BY <2>1, <2>2 DEF UseInv, UseTypeOK, HeldType, HeldInArena,
             HeldSpansKeepTheirBytes, CeilingOrFlag, InArena, ArenaSize, SpanBytes
<1>5. CASE ConstrainBytes
  <2>1. PICK n \in Ceilings : arena' = ArenaConstrain(arena, n) /\ held' = held
    BY <1>5 DEF ConstrainBytes
  <2> DEFINE m == LowerCeiling(arena.max, n)
  <2>2. m \in Nat
    BY <1>0 DEF LowerCeiling, Arena
  <2>3. arena' \in Arena /\ arena'.buf = arena.buf
        /\ (ArenaSize(arena') <= arena'.max \/ arena'.over)
    <3>1. arena' = [arena EXCEPT !.max = m,
                                 !.over = arena.over \/ Len(arena.buf) > m]
      BY <2>1 DEF ArenaConstrain, ArenaSize
    <3> HIDE DEF m
    <3>2. /\ arena'.buf = arena.buf /\ arena'.max = m
          /\ arena'.over = (arena.over \/ Len(arena.buf) > m)
          /\ arena' = [buf |-> arena.buf, max |-> m, over |-> arena'.over]
      BY <1>0, <3>1 DEF Arena
    <3>3. Len(arena.buf) \in Nat /\ arena.buf \in Seq(Bytes) /\ arena'.over \in BOOLEAN
      BY <1>0, <3>2 DEF Arena
    <3>4. arena' \in Arena
      BY <2>2, <3>2, <3>3 DEF Arena
    <3>5. Len(arena'.buf) <= arena'.max \/ arena'.over
      <4>1. CASE Len(arena.buf) > m
        BY <3>2, <4>1, Zenon
      <4>2. CASE ~(Len(arena.buf) > m)
        <5>1. Len(arena.buf) <= m
          BY <2>2, <3>3, <4>2
        <5> QED BY <3>2, <5>1, Zenon
      <4> QED BY <4>1, <4>2
    <3> QED BY <3>2, <3>4, <3>5 DEF ArenaSize
  <2> QED BY <2>1, <2>3 DEF UseInv, UseTypeOK, HeldType, HeldInArena,
             HeldSpansKeepTheirBytes, CeilingOrFlag, InArena, ArenaSize, SpanBytes
<1>6. CASE ClearBytes
  <2>1. arena' = [arena EXCEPT !.buf = <<>>, !.over = FALSE] /\ held' = {}
    BY <1>6 DEF ClearBytes, ArenaClear
  <2>2. arena' \in Arena /\ Len(arena'.buf) = 0 /\ arena'.max \in Nat
    <3>1. arena' = [buf |-> <<>>, max |-> arena.max, over |-> FALSE]
      BY <1>0, <2>1 DEF Arena
    <3>2. <<>> \in Seq(Bytes) /\ Len(<<>>) = 0 /\ arena.max \in Nat
      BY <1>0 DEF Arena
    <3> QED BY <3>1, <3>2 DEF Arena
  <2> QED BY <2>1, <2>2 DEF UseInv, UseTypeOK, HeldType, HeldInArena,
             HeldSpansKeepTheirBytes, CeilingOrFlag, ArenaSize
<1>7. CASE UNCHANGED useVars
  BY <1>7 DEF useVars, UseInv, UseTypeOK, HeldType, HeldInArena,
              HeldSpansKeepTheirBytes, CeilingOrFlag
<1> QED BY <1>1, <1>2, <1>3, <1>4, <1>5, <1>6, <1>7 DEF UseNext

\* For every span width, payload and order of calls the owner of an arena may
\* go on using every span it holds: it reads as the bytes it was handed out
\* for, and the ceiling is respected or the refusal flag is up.
THEOREM ArenaSafe == UseSpec => [](HeldSpansKeepTheirBytes /\ CeilingOrFlag)
<1>1. UseInv => HeldSpansKeepTheirBytes /\ CeilingOrFlag
  BY DEF UseInv
<1> QED BY UseInitInv, UseNextInv, <1>1, PTL DEF UseSpec

\* In every reachable state the buffer respects the ceiling in force or the
\* refusal flag of the arena is up.
THEOREM CeilingAlwaysOrFlag == UseSpec => []CeilingOrFlag
<1>1. UseInv => CeilingOrFlag
  BY DEF UseInv
<1> QED BY UseInitInv, UseNextInv, <1>1, PTL DEF UseSpec

\* One call, seen from its budget.
ArenaTightens ==
    /\ arena'.max <= arena.max
    /\ (arena.over /\ ~ClearBytes) => arena'.over

LEMMA UseNextTightens == UseInv /\ [UseNext]_useVars => [ArenaTightens]_useVars
<1> SUFFICES ASSUME UseInv, UseNext PROVE ArenaTightens
  BY DEF useVars
<1> USE UseAssumption, OffsetMaxAssumption, BytesAssumption
<1>0. arena \in Arena /\ arena.max \in Nat
  BY DEF UseInv, UseTypeOK, Arena
<1>1. ASSUME NEW r, NEW bytes, Keep(r, bytes), HandsOut(arena, r, bytes)
      PROVE  ArenaTightens
  BY <1>0, <1>1 DEF Keep, HandsOut, ArenaTightens
<1>2. CASE AppendBytes
  <2>1. PICK p \in Payloads : Keep(Append_(arena, p), p)
    BY <1>2 DEF AppendBytes
  <2>2. PICK r : r = Append_(arena, p)
    OBVIOUS
  <2>3. HandsOut(arena, r, p)
    BY <1>0, <2>2, AppendExact
  <2> QED BY <1>1, <2>1, <2>2, <2>3
<1>3. CASE AppendOwn
  <2>1. PICK s \in Span : InArena(arena, s) /\ Keep(AppendView(arena, s), SpanBytes(arena, s))
    BY <1>3 DEF AppendOwn
  <2>2. PICK p : p = SpanBytes(arena, s) /\ p \in Seq(Bytes)
    BY <1>0, <2>1, ViewIsBytes
  <2>3. PICK r : r = Append_(arena, p)
    OBVIOUS
  <2>4. Keep(r, p)
    BY <1>0, <2>1, <2>2, <2>3, ViewAppended
  <2>5. HandsOut(arena, r, p)
    BY <1>0, <2>2, <2>3, AppendExact
  <2> QED BY <1>1, <2>4, <2>5
<1>4. CASE AllocateBytes
  <2>1. PICK n \in Sizes, al \in Alignments :
          Keep(Allocate(arena, n, al), [i \in 1..n |-> 0])
    BY <1>4 DEF AllocateBytes
  <2>2. PICK r : r = Allocate(arena, n, al)
    OBVIOUS
  <2>3. n \in 0..OffsetMax /\ al \in Nat
    OBVIOUS
  <2>4. HandsOut(arena, r, [i \in 1..n |-> 0])
    BY <1>0, <2>2, <2>3, AllocateExact
  <2> QED BY <1>1, <2>1, <2>2, <2>4
<1>5. CASE ReserveBytes
  <2>1. PICK n \in Sizes : arena' = [arena EXCEPT !.over = arena.over \/ n > arena.max]
    BY <1>5 DEF ReserveBytes, ArenaReserve
  <2>2. arena'.max = arena.max /\ arena'.over = (arena.over \/ n > arena.max)
    BY <1>0, <2>1 DEF Arena
  <2>3. arena'.max <= arena.max
    BY <1>0, <2>2
  <2> QED BY <2>2, <2>3, Zenon DEF ArenaTightens
<1>6. CASE ConstrainBytes
  <2>1. PICK n \in Ceilings : arena' = ArenaConstrain(arena, n)
    BY <1>6 DEF ConstrainBytes
  <2>2. PICK m : m = LowerCeiling(arena.max, n)
    OBVIOUS
  <2>3. m \in Nat /\ m <= arena.max
    BY <1>0, <2>2 DEF LowerCeiling
  <2>4. arena' = [arena EXCEPT !.max = m, !.over = arena.over \/ Len(arena.buf) > m]
    BY <2>1, <2>2 DEF ArenaConstrain, ArenaSize
  <2>5. arena'.max = m /\ arena'.over = (arena.over \/ Len(arena.buf) > m)
    BY <1>0, <2>4 DEF Arena
  <2>6. arena'.max <= arena.max
    BY <2>3, <2>5
  <2> QED BY <2>5, <2>6, Zenon DEF ArenaTightens
<1>7. CASE ClearBytes
  <2>1. arena'.max = arena.max
    BY <1>0, <1>7 DEF ClearBytes, ArenaClear, Arena
  <2>2. arena'.max <= arena.max
    BY <1>0, <2>1
  <2> QED BY <1>7, <2>2, Zenon DEF ArenaTightens
<1> QED BY <1>2, <1>3, <1>4, <1>5, <1>6, <1>7 DEF UseNext

\* No call ever widens the ceiling of an arena, and none but clear() takes its
\* refusal back.
THEOREM BudgetsAlwaysTighten == UseSpec => NestedBudgetsOnlyTighten
<1>1. UseSpec => [][ArenaTightens]_useVars
  BY UseInitInv, UseNextInv, UseNextTightens, PTL DEF UseSpec
<1> QED BY <1>1, PTL DEF NestedBudgetsOnlyTighten, ArenaTightens

-----------------------------------------------------------------------------
(* Arenas that grow.                                                        *)

\* b is a after some calls that store bytes.
Grows(a, b) ==
    /\ b \in Arena
    /\ b.max = a.max
    /\ a.over => b.over
    /\ (ArenaSize(a) <= a.max \/ a.over) => (ArenaSize(b) <= b.max \/ b.over)
    /\ ArenaSize(a) <= ArenaSize(b)

LEMMA GrowsRefl == ASSUME NEW a \in Arena PROVE Grows(a, a)
BY DEF Grows, Arena, ArenaSize

LEMMA GrowsTrans ==
    ASSUME NEW a \in Arena, NEW b, NEW c, Grows(a, b), Grows(b, c)
    PROVE  Grows(a, c)
<1>1. ArenaSize(a) \in Nat /\ ArenaSize(b) \in Nat /\ ArenaSize(c) \in Nat
  BY DEF Grows, Arena, ArenaSize
<1>2. ArenaSize(a) <= ArenaSize(c)
  BY <1>1 DEF Grows
<1> QED BY <1>2 DEF Grows

LEMMA GrowsKeepsSpan ==
    ASSUME NEW a \in Arena, NEW b, Grows(a, b), NEW s \in Span, InArena(a, s)
    PROVE  InArena(b, s)
<1>1. ArenaSize(a) \in Nat /\ ArenaSize(b) \in Nat
  BY DEF Grows, Arena, ArenaSize
<1> QED BY <1>1, OffsetMaxAssumption DEF Grows, InArena, Span

LEMMA EmptySpanFits ==
    ASSUME NEW a \in Arena PROVE EmptySpan \in Span /\ InArena(a, EmptySpan)
BY OffsetMaxAssumption DEF EmptySpan, Span, InArena, Arena, ArenaSize

LEMMA AppendGrows ==
    ASSUME NEW a \in Arena, NEW bytes \in Seq(Bytes), NEW r, r = Append_(a, bytes)
    PROVE  Grows(a, r.arena) /\ r.span \in Span /\ InArena(r.arena, r.span)
<1>1. HandsOut(a, r, bytes)
  BY AppendExact
<1>2. PICK more \in Seq(Bytes) : r.arena.buf = a.buf \o more
  BY <1>1 DEF HandsOut
<1>3. a.buf \in Seq(Bytes) /\ Len(a.buf \o more) = Len(a.buf) + Len(more)
  BY ConcatProperties DEF Arena
<1>4. ArenaSize(a) <= ArenaSize(r.arena)
  BY <1>2, <1>3 DEF ArenaSize
<1> QED BY <1>1, <1>4 DEF HandsOut, Grows

LEMMA PutTextGrows ==
    ASSUME NEW a \in Arena, NEW bytes \in Seq(Bytes), NEW wanted,
           NEW r, r = PutText(a, wanted, bytes)
    PROVE  Grows(a, r.arena) /\ r.span \in Span /\ InArena(r.arena, r.span)
<1>1. CASE wanted
  <2>1. r = Append_(a, bytes)
    BY <1>1 DEF PutText
  <2> QED BY <1>1, <2>1, AppendGrows
<1>2. CASE ~wanted
  <2>1. r.arena = a /\ r.span = EmptySpan
    BY <1>2 DEF PutText
  <2> QED BY <2>1, GrowsRefl, EmptySpanFits
<1> QED BY <1>1, <1>2

-----------------------------------------------------------------------------
(* Entries whose spans lie in an arena.                                     *)

\* A text the key or value does not have is the empty span.
KeyFits(a, k) ==
    /\ k \in Key
    /\ InArena(a, k.first) /\ InArena(a, k.second)
    /\ TextCount(k.kind) < 1 => k.first = EmptySpan
    /\ TextCount(k.kind) # 2 => k.second = EmptySpan

ValueFits(a, v) ==
    /\ v \in Value
    /\ InArena(a, v.span)
    /\ v.kind \notin SpanKinds => v.span = EmptySpan

Fits(a, e) ==
    /\ e \in Entry
    /\ KeyFits(a, e.key) /\ ValueFits(a, e.value) /\ InArena(a, e.wireName)

LEMMA GrowsKeepsFit ==
    ASSUME NEW a \in Arena, NEW b, Grows(a, b), NEW e, Fits(a, e)
    PROVE  Fits(b, e)
<1>1. /\ e.key.first \in Span /\ e.key.second \in Span
      /\ e.value.span \in Span /\ e.wireName \in Span
  BY DEF Fits, Entry, Key, Value
<1> QED BY <1>1, GrowsKeepsSpan DEF Fits, KeyFits, ValueFits

\* The make_*_key() functions.
LEMMA MakeKeyFits ==
    ASSUME NEW a \in Arena, NEW view \in KeyView, NEW m, m = MakeKey(a, view)
    PROVE  Grows(a, m.arena) /\ KeyFits(m.arena, m.key)
<1> DEFINE w1 == TextCount(view.kind) >= 1
           w2 == TextCount(view.kind) = 2
<1>0. /\ view.kind \in Kinds /\ view.nums \in Seq(Nat)
      /\ view.first \in Seq(Bytes) /\ view.second \in Seq(Bytes)
  BY DEF KeyView
<1>a. TextCount(view.kind) \in 0..2
  BY DEF TextCount
<1>1. PICK r1 : r1 = PutText(a, w1, view.first)
  OBVIOUS
<1>2. PICK r2 : r2 = PutText(r1.arena, w2, view.second)
  OBVIOUS
<1>3. /\ m.arena = r2.arena
      /\ m.key = [kind |-> view.kind, nums |-> view.nums,
                  first |-> r1.span, second |-> r2.span]
  BY <1>1, <1>2 DEF MakeKey
<1>b. /\ TextCount(view.kind) < 1 => r1.span = EmptySpan
      /\ TextCount(view.kind) # 2 => r2.span = EmptySpan
  BY <1>a, <1>1, <1>2 DEF PutText
<1>4. Grows(a, r1.arena) /\ r1.span \in Span /\ InArena(r1.arena, r1.span)
  BY <1>0, <1>1, PutTextGrows
<1>5. r1.arena \in Arena
  BY <1>4 DEF Grows
<1>6. Grows(r1.arena, r2.arena) /\ r2.span \in Span /\ InArena(r2.arena, r2.span)
  BY <1>0, <1>2, <1>5, PutTextGrows
<1>7. Grows(a, r2.arena) /\ InArena(r2.arena, r1.span)
  BY <1>4, <1>5, <1>6, GrowsTrans, GrowsKeepsSpan
<1>8. m.key \in Key
  BY <1>0, <1>3, <1>4, <1>6 DEF Key
<1> QED BY <1>a, <1>b, <1>3, <1>4, <1>6, <1>7, <1>8 DEF KeyFits

\* make_text(), make_bytes() and the other makers of values.
LEMMA MakeValueFits ==
    ASSUME NEW a \in Arena, NEW view \in ValueView, NEW m, m = MakeValue(a, view)
    PROVE  Grows(a, m.arena) /\ ValueFits(m.arena, m.value)
<1> DEFINE w == view.kind \in SpanKinds
<1>0. view.kind \in ValueKinds /\ view.num \in Nat /\ view.bytes \in Seq(Bytes)
  BY DEF ValueView
<1>1. PICK r : r = PutText(a, w, view.bytes)
  OBVIOUS
<1>b. view.kind \notin SpanKinds => r.span = EmptySpan
  BY <1>1 DEF PutText
<1>c. /\ m.arena = r.arena
      /\ \/ m.value = EmptyValue
         \/ m.value = [kind |-> view.kind, num |-> view.num, span |-> r.span]
  BY <1>1 DEF MakeValue
<1>2. Grows(a, r.arena) /\ r.span \in Span /\ InArena(r.arena, r.span)
  BY <1>0, <1>1, PutTextGrows
<1>3. r.arena \in Arena
  BY <1>2 DEF Grows
<1>5. CASE m.value = EmptyValue
  BY <1>2, <1>3, <1>c, <1>5, EmptySpanFits
     DEF ValueFits, EmptyValue, Value, ValueKinds, SpanKinds
<1>6. CASE m.value = [kind |-> view.kind, num |-> view.num, span |-> r.span]
  BY <1>0, <1>2, <1>b, <1>c, <1>6 DEF ValueFits, Value
<1> QED BY <1>c, <1>5, <1>6

LEMMA MaterialiseFits ==
    ASSUME NEW a \in Arena, NEW view \in EntryView, NEW m, m = Materialise(a, view)
    PROVE  Grows(a, m.arena) /\ Fits(m.arena, m.entry)
<1>0. /\ view.key \in KeyView /\ view.value \in ValueView /\ view.block \in Nat
      /\ view.order \in Nat /\ view.wire \in Nat /\ view.wireName \in Seq(Bytes)
      /\ view.flags \in SUBSET Flags
  BY DEF EntryView
<1>1. PICK k : k = MakeKey(a, view.key)
  OBVIOUS
<1>2. Grows(a, k.arena) /\ KeyFits(k.arena, k.key) /\ k.arena \in Arena
  BY <1>0, <1>1, MakeKeyFits DEF Grows
<1>3. PICK v : v = MakeValue(k.arena, view.value)
  OBVIOUS
<1>4. Grows(k.arena, v.arena) /\ ValueFits(v.arena, v.value) /\ v.arena \in Arena
  BY <1>0, <1>2, <1>3, MakeValueFits DEF Grows
<1>5. PICK w : w = PutText(v.arena, view.wireName # <<>>, view.wireName)
  OBVIOUS
<1>6. /\ Grows(v.arena, w.arena) /\ w.span \in Span /\ InArena(w.arena, w.span)
  BY <1>0, <1>4, <1>5, PutTextGrows
<1>7. /\ m.arena = w.arena
      /\ m.entry = [key |-> k.key, value |-> v.value, block |-> view.block,
                    order |-> view.order, wire |-> view.wire,
                    wireName |-> w.span, flags |-> view.flags]
  BY <1>1, <1>3, <1>5 DEF Materialise
<1>8. Grows(a, w.arena) /\ Grows(k.arena, w.arena)
  BY <1>2, <1>4, <1>6, GrowsTrans
<1>9. KeyFits(w.arena, k.key) /\ ValueFits(w.arena, v.value)
  BY <1>2, <1>4, <1>6, <1>8, GrowsKeepsSpan DEF KeyFits, ValueFits, Key, Value
<1>10. m.entry \in Entry
  BY <1>0, <1>6, <1>7, <1>9 DEF Entry, KeyFits, ValueFits
<1> QED BY <1>6, <1>7, <1>8, <1>9, <1>10 DEF Fits

-----------------------------------------------------------------------------
(* Copies between arenas.                                                   *)

\* Whatever span copy_span() is given, a copy that succeeds lies in the
\* destination; the code itself rejects a span that leaves its source.
LEMMA CopySpanFits ==
    ASSUME NEW src \in Arena, NEW dst \in Arena, NEW s \in Span,
           NEW c, c = CopySpan(src, dst, s), c.ok
    PROVE  Grows(dst, c.arena) /\ c.span \in Span /\ InArena(c.arena, c.span)
<1>1. PICK r : r = Append_(dst, SpanBytes(src, s))
  OBVIOUS
<1>2. c.arena = r.arena /\ c.span = r.span
  BY <1>1 DEF CopySpan
<1>3. SpanBytes(src, s) \in Seq(Bytes)
  BY ViewIsBytes
<1> QED BY <1>1, <1>2, <1>3, AppendGrows

LEMMA NoCopyFits ==
    ASSUME NEW dst \in Arena, NEW s, s = EmptySpan, NEW c, c = NoCopy(dst, s)
    PROVE  /\ Grows(dst, c.arena) /\ c.span \in Span /\ InArena(c.arena, c.span)
           /\ c.span = EmptySpan
BY GrowsRefl, EmptySpanFits DEF NoCopy

\* What is known of an entry in an edit operation, wherever its spans lie: a
\* text that the key or value does not have is the empty span.
KeyShaped(k) ==
    /\ k \in Key
    /\ TextCount(k.kind) < 1 => k.first = EmptySpan
    /\ TextCount(k.kind) # 2 => k.second = EmptySpan

ValueShaped(v) ==
    /\ v \in Value
    /\ v.kind \notin SpanKinds => v.span = EmptySpan

Shaped(e) == e \in Entry /\ KeyShaped(e.key) /\ ValueShaped(e.value)

\* copy_key(): all the texts its kind has, none of the source's spans.
LEMMA CopyKeyFits ==
    ASSUME NEW src \in Arena, NEW dst \in Arena, NEW k, KeyShaped(k),
           NEW c, c = CopyKey(src, dst, k), c.ok
    PROVE  Grows(dst, c.arena) /\ KeyFits(c.arena, c.key)
<1>0. /\ k \in Key /\ k.first \in Span /\ k.second \in Span /\ k.kind \in Kinds
      /\ TextCount(k.kind) < 1 => k.first = EmptySpan
      /\ TextCount(k.kind) # 2 => k.second = EmptySpan
      /\ TextCount(k.kind) \in 0..2
  BY DEF KeyShaped, Key, TextCount
<1>1. PICK c1 : c1 = IF TextCount(k.kind) >= 1 THEN CopySpan(src, dst, k.first)
                                               ELSE NoCopy(dst, k.first)
  OBVIOUS
<1>2. PICK c2 : c2 = IF c1.ok /\ TextCount(k.kind) = 2
                     THEN CopySpan(src, c1.arena, k.second)
                     ELSE NoCopy(c1.arena, k.second)
  OBVIOUS
<1>3. /\ c.arena = c2.arena /\ c1.ok /\ c2.ok
      /\ c.key = [k EXCEPT !.first = c1.span, !.second = c2.span]
  BY <1>1, <1>2 DEF CopyKey
<1>4. /\ Grows(dst, c1.arena) /\ c1.span \in Span /\ InArena(c1.arena, c1.span)
      /\ TextCount(k.kind) < 1 => c1.span = EmptySpan
  <2>1. CASE TextCount(k.kind) >= 1
    BY <1>0, <1>1, <1>3, <2>1, CopySpanFits
  <2>2. CASE TextCount(k.kind) < 1
    BY <1>0, <1>1, <2>2, NoCopyFits
  <2> QED BY <1>0, <2>1, <2>2
<1>5. c1.arena \in Arena
  BY <1>4 DEF Grows
<1>6. /\ Grows(c1.arena, c2.arena) /\ c2.span \in Span /\ InArena(c2.arena, c2.span)
      /\ TextCount(k.kind) # 2 => c2.span = EmptySpan
  <2>1. CASE TextCount(k.kind) = 2
    BY <1>0, <1>2, <1>3, <1>5, <2>1, CopySpanFits
  <2>2. CASE TextCount(k.kind) # 2
    BY <1>0, <1>2, <1>5, <2>2, NoCopyFits
  <2> QED BY <2>1, <2>2
<1>7. /\ c.key \in Key /\ c.key.kind = k.kind
      /\ c.key.first = c1.span /\ c.key.second = c2.span
  BY <1>0, <1>3, <1>4, <1>6 DEF Key
<1>8. Grows(dst, c2.arena) /\ InArena(c2.arena, c1.span)
  BY <1>4, <1>5, <1>6, GrowsTrans, GrowsKeepsSpan
<1> QED BY <1>3, <1>4, <1>6, <1>7, <1>8 DEF KeyFits

LEMMA CopyValueFits ==
    ASSUME NEW src \in Arena, NEW dst \in Arena, NEW v, ValueShaped(v),
           NEW c, c = CopyValue(src, dst, v), c.ok
    PROVE  Grows(dst, c.arena) /\ ValueFits(c.arena, c.value)
<1>0. v \in Value /\ v.span \in Span /\ v.kind \in ValueKinds
  BY DEF Value, ValueShaped
<1>1. PICK t : t = IF v.kind \in SpanKinds THEN CopySpan(src, dst, v.span)
                                           ELSE NoCopy(dst, v.span)
  OBVIOUS
<1>2. c.arena = t.arena /\ t.ok /\ c.value = [v EXCEPT !.span = t.span]
  BY <1>1 DEF CopyValue
<1>3. /\ Grows(dst, t.arena) /\ t.span \in Span /\ InArena(t.arena, t.span)
      /\ v.kind \notin SpanKinds => t.span = EmptySpan
  <2>1. CASE v.kind \in SpanKinds
    BY <1>0, <1>1, <1>2, <2>1, CopySpanFits
  <2>2. CASE v.kind \notin SpanKinds
    BY <1>1, <2>2, NoCopyFits DEF ValueShaped
  <2> QED BY <2>1, <2>2
<1>4. c.value \in Value /\ c.value.kind = v.kind /\ c.value.span = t.span
  BY <1>0, <1>2, <1>3 DEF Value
<1> QED BY <1>2, <1>3, <1>4 DEF ValueFits

LEMMA CopyOriginFits ==
    ASSUME NEW src \in Arena, NEW dst \in Arena, NEW name \in Span,
           NEW c, c = CopyOrigin(src, dst, name), c.ok
    PROVE  Grows(dst, c.arena) /\ c.span \in Span /\ InArena(c.arena, c.span)
<1>1. CASE name.size = 0
  <2>1. c = NoCopy(dst, EmptySpan)
    BY <1>1 DEF CopyOrigin
  <2> QED BY <2>1, NoCopyFits
<1>2. CASE name.size # 0
  <2>1. c = CopySpan(src, dst, name)
    BY <1>2 DEF CopyOrigin
  <2> QED BY <2>1, CopySpanFits
<1> QED BY <1>1, <1>2

\* A whole entry: key, value and origin, each copy on top of the one before.
LEMMA CopyEntryFits ==
    ASSUME NEW src \in Arena, NEW dst \in Arena, NEW e, Shaped(e),
           NEW c, c = CopyEntry(src, dst, e), c.ok
    PROVE  Grows(dst, c.arena) /\ Fits(c.arena, c.entry) /\ c.entry.flags = e.flags
<1>0. /\ e \in Entry /\ KeyShaped(e.key) /\ ValueShaped(e.value)
      /\ e.wireName \in Span
  BY DEF Shaped, Entry
<1>1. PICK k : k = CopyKey(src, dst, e.key)
  OBVIOUS
<1>2. PICK v : v = IF k.ok THEN CopyValue(src, k.arena, e.value) ELSE [ok |-> FALSE]
  OBVIOUS
<1>3. PICK w : w = IF v.ok THEN CopyOrigin(src, v.arena, e.wireName) ELSE [ok |-> FALSE]
  OBVIOUS
<1>4. c = IF w.ok
          THEN [ok |-> TRUE, arena |-> w.arena,
                entry |-> [e EXCEPT !.key = k.key, !.value = v.value, !.wireName = w.span]]
          ELSE [ok |-> FALSE]
  BY <1>1, <1>2, <1>3 DEF CopyEntry
<1>5. w.ok /\ v.ok /\ k.ok
  BY <1>2, <1>3, <1>4
<1>6. /\ c.arena = w.arena
      /\ c.entry = [e EXCEPT !.key = k.key, !.value = v.value, !.wireName = w.span]
  BY <1>4, <1>5
<1>7. Grows(dst, k.arena) /\ KeyFits(k.arena, k.key) /\ k.arena \in Arena
  BY <1>0, <1>1, <1>5, CopyKeyFits DEF Grows
<1>8. v = CopyValue(src, k.arena, e.value) /\ w = CopyOrigin(src, v.arena, e.wireName)
  BY <1>2, <1>3, <1>5
<1>9. Grows(k.arena, v.arena) /\ ValueFits(v.arena, v.value) /\ v.arena \in Arena
  BY <1>0, <1>5, <1>7, <1>8, CopyValueFits DEF Grows
<1>10. Grows(v.arena, w.arena) /\ w.span \in Span /\ InArena(w.arena, w.span)
  BY <1>0, <1>5, <1>8, <1>9, CopyOriginFits
<1>11. Grows(k.arena, w.arena) /\ Grows(dst, w.arena)
  BY <1>7, <1>9, <1>10, GrowsTrans
<1>12. KeyFits(w.arena, k.key) /\ ValueFits(w.arena, v.value)
  BY <1>7, <1>9, <1>10, <1>11, GrowsKeepsSpan DEF KeyFits, ValueFits, Key, Value
<1>13. /\ c.entry \in Entry /\ c.entry.key = k.key /\ c.entry.value = v.value
       /\ c.entry.wireName = w.span /\ c.entry.flags = e.flags
  BY <1>0, <1>6, <1>10, <1>12 DEF Entry, KeyFits, ValueFits
<1> QED BY <1>6, <1>10, <1>11, <1>12, <1>13 DEF Fits

-----------------------------------------------------------------------------
(* Stores.                                                                  *)

Sound(s) ==
    /\ StoreOK(s)
    /\ \A i \in 1..Len(s.entries) : Fits(s.arena, s.entries[i])
    /\ Within(s)

\* t is s after some calls, none of which widened anything.
Follows(s, t) == Sound(t) /\ Tightens(s, t)

LEMMA FollowsRefl == ASSUME NEW s, Sound(s) PROVE Follows(s, s)
BY DEF Follows, Sound, StoreOK, Tightens, Arena

LEMMA FlaggedFollows ==
    ASSUME NEW s, Sound(s)
    PROVE  Follows(s, Flagged(s)) /\ Refused(Flagged(s))
BY DEF Follows, Sound, StoreOK, Tightens, Flagged, Refused, Within, Arena

LEMMA ArenaFollows ==
    ASSUME NEW s, Sound(s), NEW a, Grows(s.arena, a)
    PROVE  Follows(s, [s EXCEPT !.arena = a])
<1> DEFINE t == [s EXCEPT !.arena = a]
<1>1. /\ StoreOK(t) /\ t.arena = a /\ t.entries = s.entries /\ t.max = s.max
      /\ t.blocks = s.blocks /\ t.over = s.over
  BY DEF Sound, StoreOK, Grows
<1>2. \A i \in 1..Len(t.entries) : Fits(t.arena, t.entries[i])
  BY <1>1, GrowsKeepsFit DEF Sound, StoreOK
<1>3. Tightens(s, t) /\ Within(t)
  BY <1>1 DEF Sound, StoreOK, Grows, Tightens, Within, Refused, Arena
<1> QED BY <1>1, <1>2, <1>3 DEF Follows, Sound

LEMMA PushFollows ==
    ASSUME NEW s, Sound(s), NEW e, Fits(s.arena, e),
           Refused(s) \/ Len(s.entries) < s.max
    PROVE  Follows(s, [s EXCEPT !.entries = Append(s.entries, e)])
<1> DEFINE t == [s EXCEPT !.entries = Append(s.entries, e)]
<1>1. s.entries \in Seq(Entry) /\ e \in Entry /\ s.max \in Nat
  BY DEF Sound, StoreOK, Fits
<1>2. /\ Append(s.entries, e) \in Seq(Entry)
      /\ Len(Append(s.entries, e)) = Len(s.entries) + 1
      /\ \A i \in 1..Len(s.entries) : Append(s.entries, e)[i] = s.entries[i]
      /\ Append(s.entries, e)[Len(s.entries) + 1] = e
  BY <1>1, AppendProperties
<1>3. /\ StoreOK(t) /\ t.arena = s.arena /\ t.entries = Append(s.entries, e)
      /\ t.max = s.max /\ t.blocks = s.blocks /\ t.over = s.over
  BY <1>2 DEF Sound, StoreOK
<1>4. \A i \in 1..Len(t.entries) : Fits(t.arena, t.entries[i])
  BY <1>1, <1>2, <1>3 DEF Sound
<1>5. Within(t)
  BY <1>1, <1>2, <1>3 DEF Sound, Within, Refused
<1>6. Tightens(s, t)
  BY <1>3 DEF Sound, StoreOK, Tightens, Refused, Arena
<1> QED BY <1>3, <1>4, <1>5, <1>6 DEF Follows, Sound

LEMMA TightensTrans ==
    ASSUME NEW s, NEW t, NEW u, Sound(s), Follows(s, t), Follows(t, u)
    PROVE  Follows(s, u)
<1>1. Sound(u)
  BY DEF Follows
<1>2. Tightens(s, u)
  BY DEF Follows, Sound, StoreOK, Tightens, Arena
<1> QED BY <1>1, <1>2 DEF Follows

LEMMA AddFollows ==
    ASSUME NEW s, Sound(s), NEW e, Fits(s.arena, e)
    PROVE  Follows(s, StoreAdd(s, e))
<1>1. CASE s.finalized
  BY <1>1, FollowsRefl DEF StoreAdd
<1>2. CASE ~s.finalized /\ (Len(s.entries) >= s.max \/ s.arena.over)
  BY <1>2, FlaggedFollows DEF StoreAdd
<1>3. CASE ~s.finalized /\ ~(Len(s.entries) >= s.max \/ s.arena.over)
  <2>1. Len(s.entries) < s.max
    BY <1>3 DEF Sound, StoreOK
  <2>2. StoreAdd(s, e) = [s EXCEPT !.entries = Append(s.entries, e)]
    BY <1>3 DEF StoreAdd
  <2> QED BY <2>1, <2>2, PushFollows
<1> QED BY <1>1, <1>2, <1>3

LEMMA AddBlockFollows ==
    ASSUME NEW s, Sound(s) PROVE Follows(s, StoreAddBlock(s))
<1>1. CASE s.finalized
  BY <1>1, FollowsRefl DEF StoreAddBlock
<1>2. CASE ~s.finalized /\ (s.blocks >= s.max \/ s.arena.over)
  BY <1>2, FlaggedFollows DEF StoreAddBlock
<1>3. CASE ~s.finalized /\ ~(s.blocks >= s.max \/ s.arena.over)
  <2>1. StoreAddBlock(s) = [s EXCEPT !.blocks = s.blocks + 1]
    BY <1>3 DEF StoreAddBlock
  <2> QED BY <1>3, <2>1
          DEF Follows, Sound, StoreOK, Tightens, Within, Refused, Arena
<1> QED BY <1>1, <1>2, <1>3

LEMMA FinalizedFollows ==
    ASSUME NEW s, Sound(s)
    PROVE  Follows(s, Finalized(s)) /\ Finalized(s).finalized
           /\ (Refused(Finalized(s)) <=> Refused(s))
BY DEF Follows, Sound, StoreOK, Tightens, Finalized, Within, Refused, Arena

LEMMA UnfinalizedFollows ==
    ASSUME NEW s, Sound(s)
    PROVE  Follows(s, Unfinalized(s))
BY DEF Follows, Sound, StoreOK, Tightens, Unfinalized, Within, Refused, Arena

LEMMA ConstrainFollows ==
    ASSUME NEW s, Sound(s), NEW n \in Nat, NEW m \in Nat
    PROVE  Follows(s, StoreConstrain(s, n, m))
<1> DEFINE t == StoreConstrain(s, n, m)
           max == LowerCeiling(s.max, n)
           a == ArenaConstrain(s.arena, m)
<1>1. /\ s.arena \in Arena /\ s.max \in Nat /\ s.blocks \in Nat /\ s.over \in BOOLEAN
      /\ s.entries \in Seq(Entry)
  BY DEF Sound, StoreOK
<1>2. max \in Nat /\ max <= s.max
  BY <1>1 DEF LowerCeiling
<1>3. /\ a \in Arena /\ a.buf = s.arena.buf /\ a.max <= s.arena.max
      /\ s.arena.over => a.over
      /\ ArenaSize(a) <= a.max \/ a.over
  <2>1. PICK low : low = LowerCeiling(s.arena.max, m)
    OBVIOUS
  <2>2. low \in Nat /\ low <= s.arena.max
    BY <1>1, <2>1 DEF LowerCeiling, Arena
  <2>3. PICK over : over = (s.arena.over \/ ArenaSize(s.arena) > low)
    OBVIOUS
  <2>4. over \in BOOLEAN /\ (s.arena.over => over) /\ (ArenaSize(s.arena) > low => over)
    BY <2>3
  <2>5. a = [s.arena EXCEPT !.max = low, !.over = over]
    BY <2>1, <2>3 DEF ArenaConstrain
  <2>6. /\ a \in Arena /\ a.buf = s.arena.buf /\ a.max = low /\ a.over = over
    BY <1>1, <2>2, <2>4, <2>5 DEF Arena
  <2>7. ArenaSize(a) <= low \/ over
    BY <1>1, <2>2, <2>4, <2>6 DEF Arena, ArenaSize
  <2> QED BY <2>2, <2>4, <2>6, <2>7
<1>4. PICK over : over = (s.over \/ Len(s.entries) > max \/ s.blocks > max)
  OBVIOUS
<1> HIDE DEF max, a
<1>5. t = [s EXCEPT !.max = max, !.arena = a, !.over = over]
  BY <1>4 DEF StoreConstrain, max, a
<1>6. over \in BOOLEAN
  BY <1>4
<1>7. /\ StoreOK(t) /\ t.arena = a /\ t.max = max /\ t.over = over
      /\ t.entries = s.entries /\ t.blocks = s.blocks
  BY <1>2, <1>3, <1>5, <1>6 DEF Sound, StoreOK
<1>8. \A i \in 1..Len(t.entries) : Fits(t.arena, t.entries[i])
  BY <1>3, <1>7 DEF Sound, Fits, KeyFits, ValueFits, InArena, ArenaSize
<1>9. Within(t)
  <2>1. Len(s.entries) \in Nat
    BY <1>1
  <2>a. \/ Len(s.entries) > max \/ s.blocks > max
        \/ Len(s.entries) <= max /\ s.blocks <= max
    BY <1>1, <1>2, <2>1
  <2>2. over \/ (Len(s.entries) <= max /\ s.blocks <= max)
    BY <1>4, <2>a, Zenon
  <2> QED BY <1>3, <1>7, <2>2 DEF Within, Refused
<1>10. Tightens(s, t)
  <2>1. s.over => over
    BY <1>4
  <2> QED BY <1>2, <1>3, <1>7, <2>1 DEF Tightens, Refused
<1> QED BY <1>7, <1>8, <1>9, <1>10 DEF Follows, Sound

LEMMA ReserveFollows ==
    ASSUME NEW s, Sound(s), NEW b \in Nat, NEW e \in Nat, NEW n \in Nat
    PROVE  Follows(s, StoreReserve(s, b, e, n))
<1>1. CASE s.finalized
  BY <1>1, FollowsRefl DEF StoreReserve
<1>2. CASE ~s.finalized /\ (b > s.max \/ e > s.max)
  BY <1>2, FlaggedFollows DEF StoreReserve
<1>3. CASE ~s.finalized /\ ~(b > s.max \/ e > s.max)
  <2> DEFINE a == ArenaReserve(s.arena, n)
  <2>1. s.arena \in Arena
    BY DEF Sound, StoreOK
  <2>2. Grows(s.arena, a)
    <3>1. PICK over : over = (s.arena.over \/ n > s.arena.max)
      OBVIOUS
    <3>2. over \in BOOLEAN /\ (s.arena.over => over)
      BY <3>1
    <3>3. a = [s.arena EXCEPT !.over = over]
      BY <3>1 DEF ArenaReserve
    <3>4. a \in Arena /\ a.buf = s.arena.buf /\ a.max = s.arena.max /\ a.over = over
      BY <2>1, <3>2, <3>3 DEF Arena
    <3>5. ArenaSize(s.arena) \in Nat /\ ArenaSize(a) = ArenaSize(s.arena)
      BY <2>1, <3>4 DEF ArenaSize, Arena
    <3> QED BY <3>2, <3>4, <3>5 DEF Grows
  <2>3. StoreReserve(s, b, e, n) = [s EXCEPT !.arena = a]
    BY <1>3 DEF StoreReserve
  <2> QED BY <2>2, <2>3, ArenaFollows
<1> QED BY <1>1, <1>2, <1>3

-----------------------------------------------------------------------------
(* Edit operations.                                                         *)

OpShaped(op) ==
    /\ op \in EditOp
    /\ op.kind = "AddEntry" => Shaped(op.entry)
    /\ op.kind \in {"SetValue", "SetValueWithWire"} => ValueShaped(op.value)

\* t is a local copy of a call that has gone on from s.
Proceeds(s, t) == Sound(t) /\ t.max = s.max /\ t.arena.max = s.arena.max

LEMMA FitsIsShaped ==
    ASSUME NEW a, NEW e, Fits(a, e) PROVE Shaped(e)
BY DEF Fits, KeyFits, ValueFits, Shaped, KeyShaped, ValueShaped

LEMMA AppendProceeds ==
    ASSUME NEW s, Sound(s), NEW a, Grows(s.arena, a), NEW e, Fits(a, e),
           Len(s.entries) < s.max,
           NEW t, t = [s EXCEPT !.entries = Append(s.entries, e), !.arena = a]
    PROVE  Proceeds(s, t)
<1> DEFINE u == [s EXCEPT !.arena = a]
<1>1. Sound(u) /\ u.arena = a /\ u.entries = s.entries /\ u.max = s.max
  BY ArenaFollows DEF Follows, Sound, StoreOK
<1>2. Follows(u, [u EXCEPT !.entries = Append(u.entries, e)])
  <2> HIDE DEF u
  <2> QED BY <1>1, PushFollows
<1>3. t = [u EXCEPT !.entries = Append(u.entries, e)]
  BY DEF Sound, StoreOK
<1>4. t.max = s.max /\ t.arena = a
  BY DEF Sound, StoreOK
<1> QED BY <1>2, <1>3, <1>4 DEF Follows, Proceeds, Grows

LEMMA ReplaceProceeds ==
    ASSUME NEW s, Sound(s), NEW a, Grows(s.arena, a), NEW e, Fits(a, e),
           NEW i \in 1..Len(s.entries),
           NEW t, t = [s EXCEPT !.arena = a, !.entries[i] = e]
    PROVE  Proceeds(s, t)
<1>1. Sound([s EXCEPT !.arena = a])
  BY ArenaFollows DEF Follows
<1>2. /\ [s EXCEPT !.arena = a].entries = s.entries
      /\ [s EXCEPT !.arena = a].arena = a
  BY DEF Sound, StoreOK
<1>3. \A j \in 1..Len(s.entries) : Fits(a, s.entries[j])
  BY <1>1, <1>2 DEF Sound
<1>4. s.entries \in Seq(Entry) /\ e \in Entry /\ a \in Arena
  BY DEF Sound, StoreOK, Fits, Grows
<1> DEFINE es == [s.entries EXCEPT ![i] = e]
<1>5. es \in Seq(Entry) /\ Len(es) = Len(s.entries)
      /\ \A j \in 1..Len(es) : es[j] = IF j = i THEN e ELSE s.entries[j]
  BY <1>4
<1> HIDE DEF es
<1>6. t = [s EXCEPT !.arena = a, !.entries = es]
  BY DEF es
<1>7. /\ StoreOK(t) /\ t.arena = a /\ t.entries = es /\ t.max = s.max
      /\ t.blocks = s.blocks /\ t.over = s.over
  BY <1>4, <1>5, <1>6 DEF Sound, StoreOK
<1>8. \A j \in 1..Len(t.entries) : Fits(t.arena, t.entries[j])
  BY <1>3, <1>5, <1>7
<1>9. Within(t)
  BY <1>5, <1>7 DEF Sound, Within, Refused, Grows, StoreOK
<1> QED BY <1>7, <1>8, <1>9 DEF Proceeds, Sound, Grows

\* One operation of commit(): it fails, or the copy stays sound under the same
\* ceilings.
LEMMA ApplyProceeds ==
    ASSUME NEW s, Sound(s), NEW ar \in Arena, NEW op, OpShaped(op),
           NEW t, t = ApplyOp(s, ar, op), ~IsFailed(t)
    PROVE  Proceeds(s, t)
<1>0. /\ s.arena \in Arena /\ s.entries \in Seq(Entry) /\ s.max \in Nat
      /\ \A i \in 1..Len(s.entries) : Fits(s.arena, s.entries[i])
  BY DEF Sound, StoreOK
<1>a. Proceeds(s, s)
  BY DEF Proceeds
<1>1. CASE op.kind = "AddEntry"
  <2>1. t = ApplyAdd(s, ar, op) /\ Shaped(op.entry)
    BY <1>1 DEF ApplyOp, OpShaped
  <2>2. PICK c : c = CopyEntry(ar, s.arena, op.entry)
    OBVIOUS
  <2>3. /\ ~(Len(s.entries) >= s.max) /\ c.ok
        /\ t = [s EXCEPT !.entries = Append(s.entries, c.entry), !.arena = c.arena]
    BY <2>1, <2>2 DEF ApplyAdd, IsFailed
  <2>4. Grows(s.arena, c.arena) /\ Fits(c.arena, c.entry)
    BY <1>0, <2>1, <2>2, <2>3, CopyEntryFits
  <2>5. Len(s.entries) < s.max
    BY <1>0, <2>3
  <2> QED BY <2>3, <2>4, <2>5, AppendProceeds
<1>2. CASE op.kind \in {"SetValue", "SetValueWithWire"}
  <2>1. /\ t = ApplySet(s, ar, op) /\ ValueShaped(op.value) /\ op.target \in Nat
        /\ op.kind = "SetValueWithWire" => op.wire \in Nat
    BY <1>2 DEF ApplyOp, OpShaped, EditOp
  <2>2. CASE op.target >= Len(s.entries)
    BY <1>a, <2>1, <2>2 DEF ApplySet
  <2>3. CASE ~(op.target >= Len(s.entries))
    <3>1. PICK c : c = CopyValue(ar, s.arena, op.value)
      OBVIOUS
    <3> DEFINE i == op.target + 1
               e == s.entries[i]
    <3>2. i \in 1..Len(s.entries) /\ e \in Entry /\ Fits(s.arena, e)
      BY <1>0, <2>1, <2>3
    <3>3. PICK up : up =
            IF op.kind = "SetValue"
            THEN [e EXCEPT !.value = c.value, !.flags = e.flags \cup {"Dirty"}]
            ELSE [e EXCEPT !.value = c.value, !.wire = op.wire, !.wireName = EmptySpan,
                           !.flags = (e.flags \cup {"Dirty"}) \ {"BigEndian"}]
      OBVIOUS
    <3>4. c.ok /\ t = [s EXCEPT !.arena = c.arena, !.entries[i] = up]
      BY <2>1, <2>3, <3>1, <3>3 DEF ApplySet, IsFailed
    <3>5. Grows(s.arena, c.arena) /\ ValueFits(c.arena, c.value) /\ c.arena \in Arena
      BY <1>0, <2>1, <3>1, <3>4, CopyValueFits DEF Grows
    <3>6. Fits(c.arena, e) /\ EmptySpan \in Span /\ InArena(c.arena, EmptySpan)
      BY <1>0, <3>2, <3>5, GrowsKeepsFit, EmptySpanFits
    <3> HIDE DEF i, e
    <3>7. /\ c.value \in Value /\ e.key \in Key /\ e.flags \in SUBSET Flags
          /\ e.wireName \in Span /\ e.block \in Nat /\ e.order \in Nat /\ e.wire \in Nat
      BY <3>2, <3>5 DEF ValueFits, Entry
    <3>8. Fits(c.arena, up)
      <4>1. CASE op.kind = "SetValue"
        <5>1. /\ up \in Entry /\ up.key = e.key /\ up.value = c.value
              /\ up.wireName = e.wireName
          BY <3>2, <3>3, <3>7, <4>1 DEF Entry, Flags
        <5> QED BY <3>5, <3>6, <5>1 DEF Fits
      <4>2. CASE op.kind = "SetValueWithWire"
        <5>1. /\ up \in Entry /\ up.key = e.key /\ up.value = c.value
              /\ up.wireName = EmptySpan
          BY <2>1, <3>2, <3>3, <3>6, <3>7, <4>2 DEF Entry, Flags
        <5> QED BY <3>5, <3>6, <5>1 DEF Fits
      <4> QED BY <1>2, <4>1, <4>2
    <3> QED BY <3>2, <3>4, <3>5, <3>8, ReplaceProceeds
  <2> QED BY <2>2, <2>3
<1>3. CASE op.kind = "Tombstone"
  <2>1. t = ApplyTombstone(s, op) /\ op.target \in Nat
    BY <1>3 DEF ApplyOp, OpShaped, EditOp
  <2>2. CASE op.target >= Len(s.entries)
    BY <1>a, <2>1, <2>2 DEF ApplyTombstone
  <2>3. CASE ~(op.target >= Len(s.entries))
    <3> DEFINE i == op.target + 1
               e == s.entries[i]
               up == [e EXCEPT !.flags = @ \cup {"Deleted", "Dirty"}]
    <3>1. i \in 1..Len(s.entries) /\ e \in Entry /\ Fits(s.arena, e)
      BY <1>0, <2>1, <2>3
    <3>2. t = [s EXCEPT !.entries[i] = up]
      BY <2>1, <2>3 DEF ApplyTombstone
    <3>3. t = [s EXCEPT !.arena = s.arena, !.entries[i] = up]
      BY <3>2 DEF Sound, StoreOK
    <3>4. Fits(s.arena, up)
      BY <3>1 DEF Fits, Entry, Flags
    <3> QED BY <1>0, <3>1, <3>3, <3>4, GrowsRefl, ReplaceProceeds
  <2> QED BY <2>2, <2>3
<1> QED BY <1>1, <1>2, <1>3 DEF OpShaped, EditOp

-----------------------------------------------------------------------------
(* The inductive invariant.  SpansResolve and CeilingsHold alone are not    *)
(* inductive: commit() reads spans recorded earlier in the buffers, so what *)
(* the buffers hold matters; the local copy must still be under the         *)
(* ceilings of the store it will replace; and compact() never counts its    *)
(* entries, so it needs the copy to be no longer than what it has read.     *)

EditsOK ==
    /\ edits \in [1..Buffers -> [arena : Arena, ops : Seq(EditOp)]]
    /\ \A b \in 1..Buffers : \A i \in 1..Len(edits[b].ops) : OpShaped(edits[b].ops[i])

\* The local copy of a running call: not started on a refused store, not yet
\* returned, under the ceilings of the store.
CopyOK ==
    /\ returned = NoStore /\ ~Refused(store)
    /\ Proceeds(store, job.out)

JobOK ==
    \/ job = NoJob
    \/ /\ DOMAIN job = {"kind", "out", "edit", "op"} /\ job.kind = "commit"
       /\ job.edit \in 1..Buffers + 1 /\ job.op \in Nat \ {0}
       /\ CopyOK
    \/ /\ DOMAIN job = {"kind", "out", "next"} /\ job.kind = "compact"
       /\ job.next \in 0..Len(store.entries)
       /\ Len(job.out.entries) <= job.next
       /\ CopyOK

ReturnedOK == returned # NoStore => Follows(store, returned) /\ AllOrNothing

Inv == Sound(store) /\ EditsOK /\ JobOK /\ ReturnedOK

LEMMA InitInv == Init => Inv
<1> SUFFICES ASSUME Init PROVE Inv
  OBVIOUS
<1> USE DEF Init
<1>1. Sound(store)
  <2>1. EmptyArena \in Arena
    BY OffsetMaxAssumption DEF EmptyArena, Arena
  <2>2. StoreOK(EmptyStore)
    BY <2>1, StoreAssumption DEF StoreOK, EmptyStore
  <2> QED BY <2>2, StoreAssumption, OffsetMaxAssumption
          DEF Sound, EmptyStore, Within, Refused, EmptyArena, ArenaSize
<1>2. EditsOK
  BY OffsetMaxAssumption DEF EditsOK, EmptyEdit, EmptyArena, Arena
<1> QED BY <1>1, <1>2 DEF Inv, JobOK, ReturnedOK

\* What changes the store alone keeps the invariant if the store stays sound.
LEMMA OnStoreInv ==
    ASSUME Inv, NEW s, OnStore(s), Sound(s), Tightens(store, s)
    PROVE  Inv' /\ Tightens(store, store')
<1>1. /\ store' = s /\ edits' = edits /\ job' = job /\ returned' = returned
      /\ job = NoJob /\ returned = NoStore
  BY DEF OnStore, Idle
<1>2. EditsOK' /\ JobOK' /\ ReturnedOK'
  BY <1>1 DEF Inv, EditsOK, JobOK, ReturnedOK
<1> QED BY <1>1, <1>2 DEF Inv

LEMMA BuildInv == ASSUME Inv, Build PROVE Inv' /\ Tightens(store, store')
<1>0. Sound(store) /\ store.arena \in Arena /\ store.entries \in Seq(Entry)
  BY DEF Inv, Sound, StoreOK
<1>1. CASE AddBlock
  BY <1>0, <1>1, AddBlockFollows, OnStoreInv DEF AddBlock, Follows
<1>2. CASE AddEntry
  <2>1. PICK view \in Requests :
           OnStore(StoreAdd([store EXCEPT !.arena = Materialise(store.arena, view).arena],
                            Materialise(store.arena, view).entry))
    BY <1>2 DEF AddEntry
  <2>2. PICK m : m = Materialise(store.arena, view)
    OBVIOUS
  <2>3. view \in EntryView
    BY StoreAssumption
  <2>4. Grows(store.arena, m.arena) /\ Fits(m.arena, m.entry)
    BY <1>0, <2>2, <2>3, MaterialiseFits
  <2>5. PICK s : s = [store EXCEPT !.arena = m.arena]
    OBVIOUS
  <2>6. Follows(store, s) /\ s.arena = m.arena
    BY <1>0, <2>4, <2>5, ArenaFollows DEF Sound, StoreOK
  <2>7. Follows(s, StoreAdd(s, m.entry))
    BY <2>4, <2>6, AddFollows DEF Follows
  <2>8. Follows(store, StoreAdd(s, m.entry))
    BY <1>0, <2>6, <2>7, TightensTrans
  <2> QED BY <2>1, <2>2, <2>5, <2>8, OnStoreInv DEF Follows
<1>3. CASE AddSharing
  <2>1. PICK i \in 1..Len(store.entries) : OnStore(StoreAdd(store, store.entries[i]))
    BY <1>3 DEF AddSharing
  <2>2. Fits(store.arena, store.entries[i])
    BY <1>0 DEF Sound
  <2> QED BY <1>0, <2>1, <2>2, AddFollows, OnStoreInv DEF Follows
<1>4. CASE AppendPayload
  <2>1. PICK view \in NewValues :
           OnStore([store EXCEPT !.arena = MakeValue(store.arena, view).arena])
    BY <1>4 DEF AppendPayload
  <2>2. PICK v : v = MakeValue(store.arena, view)
    OBVIOUS
  <2>3. view \in ValueView
    BY StoreAssumption
  <2>4. Grows(store.arena, v.arena)
    BY <1>0, <2>2, <2>3, MakeValueFits
  <2> QED BY <1>0, <2>1, <2>2, <2>4, ArenaFollows, OnStoreInv DEF Follows
<1>5. CASE Constrain
  BY <1>0, <1>5, StoreAssumption, ConstrainFollows, OnStoreInv DEF Constrain, Follows
<1>6. CASE Reserve
  BY <1>0, <1>6, StoreAssumption, ReserveFollows, OnStoreInv DEF Reserve, Follows
<1>7. CASE Finalize
  BY <1>0, <1>7, FinalizedFollows, OnStoreInv DEF Finalize, Follows
<1> QED BY <1>1, <1>2, <1>3, <1>4, <1>5, <1>6, <1>7 DEF Build

\* An operation is recorded with spans of the buffer it is recorded in.
LEMMA RecordInv ==
    ASSUME Inv, NEW b \in 1..Buffers, NEW ar \in Arena, NEW op, OpShaped(op),
           Record(b, ar, op)
    PROVE  Inv' /\ store' = store
<1>1. /\ edits' = [edits EXCEPT ![b] = [arena |-> ar, ops |-> Append(@.ops, op)]]
      /\ store' = store /\ job' = job /\ returned' = returned
      /\ job = NoJob /\ returned = NoStore
  BY DEF Record, Idle
<1>2. edits[b].ops \in Seq(EditOp) /\ op \in EditOp
  BY DEF Inv, EditsOK, OpShaped
<1> DEFINE ops == Append(edits[b].ops, op)
<1>3. /\ ops \in Seq(EditOp) /\ Len(ops) = Len(edits[b].ops) + 1
      /\ \A i \in 1..Len(edits[b].ops) : ops[i] = edits[b].ops[i]
      /\ ops[Len(edits[b].ops) + 1] = op
  BY <1>2, AppendProperties
<1>4. \A i \in 1..Len(ops) : OpShaped(ops[i])
  BY <1>2, <1>3 DEF Inv, EditsOK
<1> HIDE DEF ops
<1>5. edits' = [edits EXCEPT ![b] = [arena |-> ar, ops |-> ops]]
  BY <1>1 DEF ops
<1>6. EditsOK'
  BY <1>3, <1>4, <1>5 DEF Inv, EditsOK
<1> QED BY <1>1, <1>6 DEF Inv, JobOK, ReturnedOK

LEMMA RecordEditInv == ASSUME Inv, RecordEdit PROVE Inv' /\ store' = store
<1>1. PICK b \in 1..Buffers : EditAdd(b) \/ EditSet(b) \/ EditSetWire(b)
                              \/ EditTombstone(b) \/ EditConstrain(b)
  BY DEF RecordEdit
<1>2. edits[b].arena \in Arena /\ edits[b].ops \in Seq(EditOp)
  BY DEF Inv, EditsOK
<1>3. CASE EditAdd(b)
  <2>1. PICK view \in Requests :
           Record(b, Materialise(edits[b].arena, view).arena,
                  [kind |-> "AddEntry",
                   entry |-> Materialise(edits[b].arena, view).entry])
    BY <1>3 DEF EditAdd
  <2>2. PICK m : m = Materialise(edits[b].arena, view)
    OBVIOUS
  <2>3. view \in EntryView
    BY StoreAssumption
  <2>4. m.arena \in Arena /\ Fits(m.arena, m.entry)
    BY <1>2, <2>2, <2>3, MaterialiseFits DEF Grows
  <2>5. OpShaped([kind |-> "AddEntry", entry |-> m.entry])
    BY <2>4, FitsIsShaped DEF OpShaped, EditOp, Fits
  <2> QED BY <2>1, <2>2, <2>4, <2>5, RecordInv
<1>4. CASE EditSet(b)
  <2>1. PICK target \in Targets, view \in NewValues :
           Record(b, MakeValue(edits[b].arena, view).arena,
                  [kind |-> "SetValue", target |-> target,
                   value |-> MakeValue(edits[b].arena, view).value])
    BY <1>4 DEF EditSet
  <2>2. PICK v : v = MakeValue(edits[b].arena, view)
    OBVIOUS
  <2>3. view \in ValueView /\ target \in Nat
    BY StoreAssumption
  <2>4. v.arena \in Arena /\ ValueShaped(v.value)
    BY <1>2, <2>2, <2>3, MakeValueFits DEF Grows, ValueFits, ValueShaped
  <2>5. OpShaped([kind |-> "SetValue", target |-> target, value |-> v.value])
    BY <2>3, <2>4 DEF OpShaped, EditOp, ValueShaped
  <2> QED BY <2>1, <2>2, <2>4, <2>5, RecordInv
<1>5. CASE EditSetWire(b)
  <2>1. PICK target \in Targets, view \in NewValues, wire \in NewWires :
           Record(b, MakeValue(edits[b].arena, view).arena,
                  [kind |-> "SetValueWithWire", target |-> target,
                   value |-> MakeValue(edits[b].arena, view).value, wire |-> wire])
    BY <1>5 DEF EditSetWire
  <2>2. PICK v : v = MakeValue(edits[b].arena, view)
    OBVIOUS
  <2>3. view \in ValueView /\ target \in Nat /\ wire \in Nat
    BY StoreAssumption
  <2>4. v.arena \in Arena /\ ValueShaped(v.value)
    BY <1>2, <2>2, <2>3, MakeValueFits DEF Grows, ValueFits, ValueShaped
  <2>5. OpShaped([kind |-> "SetValueWithWire", target |-> target,
                  value |-> v.value, wire |-> wire])
    BY <2>3, <2>4 DEF OpShaped, EditOp, ValueShaped
  <2> QED BY <2>1, <2>2, <2>4, <2>5, RecordInv
<1>6. CASE EditTombstone(b)
  <2>1. PICK target \in Targets :
           Record(b, edits[b].arena, [kind |-> "Tombstone", target |-> target])
    BY <1>6 DEF EditTombstone
  <2>2. OpShaped([kind |-> "Tombstone", target |-> target])
    BY StoreAssumption DEF OpShaped, EditOp
  <2> QED BY <1>2, <2>1, <2>2, RecordInv
<1>7. CASE EditConstrain(b)
  <2>1. PICK n \in EditCeilings : edits' = [edits EXCEPT ![b].arena = ArenaConstrain(@, n)]
    BY <1>7 DEF EditConstrain
  <2>2. PICK a : a = ArenaConstrain(edits[b].arena, n)
    OBVIOUS
  <2>3. a \in Arena
    BY <1>2, <2>2, StoreAssumption DEF ArenaConstrain, LowerCeiling, Arena
  <2>4. edits' = [edits EXCEPT ![b] = [@ EXCEPT !.arena = a]]
    BY <2>1, <2>2
  <2>5. EditsOK'
    BY <2>3, <2>4 DEF Inv, EditsOK
  <2>6. store' = store /\ job' = job /\ returned' = returned /\ job = NoJob /\ returned = NoStore
    BY <1>7 DEF EditConstrain, Idle
  <2> QED BY <2>5, <2>6 DEF Inv, JobOK, ReturnedOK
<1> QED BY <1>1, <1>3, <1>4, <1>5, <1>6, <1>7

-----------------------------------------------------------------------------
(* commit() and compact().                                                  *)

\* A call may return the flagged store, or a finished copy of it.
LEMMA ReturnFlaggedInv ==
    ASSUME Inv, Return(Flagged(store)) PROVE Inv' /\ store' = store
<1>1. /\ job' = NoJob /\ returned' = Flagged(store) /\ store' = store /\ edits' = edits
  BY DEF Return
<1>2. Follows(store, Flagged(store)) /\ Refused(Flagged(store))
  BY FlaggedFollows DEF Inv
<1>3. ReturnedOK'
  BY <1>1, <1>2 DEF ReturnedOK, AllOrNothing
<1> QED BY <1>1, <1>3 DEF Inv, EditsOK, JobOK

LEMMA FinishInv ==
    ASSUME Inv, CopyOK, Finish(job.out) PROVE Inv' /\ store' = store
<1>1. CASE Refused(job.out)
  BY <1>1, ReturnFlaggedInv DEF Finish
<1>2. CASE ~Refused(job.out)
  <2>1. /\ job' = NoJob /\ returned' = Finalized(job.out)
        /\ store' = store /\ edits' = edits
    BY <1>2 DEF Finish, Return
  <2>2. Sound(job.out) /\ ~Refused(store)
    BY DEF CopyOK, Proceeds
  <2>3. /\ Sound(Finalized(job.out)) /\ Finalized(job.out).finalized
        /\ ~Refused(Finalized(job.out))
    BY <1>2, <2>2, FinalizedFollows DEF Follows
  <2>4. Follows(store, Finalized(job.out))
    BY <2>2, <2>3 DEF Follows, Tightens, CopyOK, Proceeds, Finalized, Sound, StoreOK, Arena
  <2>5. ReturnedOK'
    BY <2>1, <2>3, <2>4 DEF ReturnedOK, AllOrNothing
  <2> QED BY <2>1, <2>5 DEF Inv, EditsOK, JobOK
<1> QED BY <1>1, <1>2

LEMMA CommitInv == ASSUME Inv, Commit PROVE Inv' /\ store' = store
<1>0. Sound(store) /\ StoreAssumption
  BY StoreAssumption DEF Inv
<1>1. CASE CommitBegin
  <2>1. CASE Return(Flagged(store))
    BY <2>1, ReturnFlaggedInv
  <2>2. CASE ~Refused(store) /\ Idle /\ StartCommit
    <3>1. /\ job' = [kind |-> "commit", out |-> Unfinalized(store), edit |-> 1, op |-> 1]
          /\ store' = store /\ edits' = edits /\ returned' = returned /\ returned = NoStore
      BY <2>2 DEF StartCommit, Idle
    <3>2. Proceeds(store, Unfinalized(store))
      BY <1>0, UnfinalizedFollows
         DEF Follows, Proceeds, Unfinalized, Sound, StoreOK, Arena
    <3>3. JobOK'
      BY <1>0, <2>2, <3>1, <3>2 DEF JobOK, CopyOK, StoreAssumption, Refused
    <3> QED BY <3>1, <3>3 DEF Inv, EditsOK, ReturnedOK
  <2> QED BY <1>1, <2>1, <2>2 DEF CommitBegin
<1>2. CASE CommitOp
  <2>1. /\ job.kind = "commit" /\ job # NoJob
        /\ job.edit <= Buffers /\ job.op <= Len(edits[job.edit].ops)
    BY <1>2 DEF CommitOp, NoJob
  <2>2. /\ DOMAIN job = {"kind", "out", "edit", "op"}
        /\ job.edit \in 1..Buffers + 1 /\ job.op \in Nat \ {0} /\ CopyOK
    BY <2>1 DEF Inv, JobOK
  <2>3. job.edit \in 1..Buffers
    BY <1>0, <2>1, <2>2 DEF StoreAssumption
  <2>4. /\ edits[job.edit].arena \in Arena /\ edits[job.edit].ops \in Seq(EditOp)
        /\ OpShaped(edits[job.edit].ops[job.op])
    <3>1. edits[job.edit].ops \in Seq(EditOp)
      BY <2>3 DEF Inv, EditsOK
    <3>2. job.op \in 1..Len(edits[job.edit].ops)
      BY <2>1, <2>2, <3>1
    <3> QED BY <2>3, <3>1, <3>2 DEF Inv, EditsOK
  <2>5. PICK out : out = ApplyOp(job.out, edits[job.edit].arena, edits[job.edit].ops[job.op])
    OBVIOUS
  <2>6. CASE IsFailed(out)
    BY <1>2, <2>5, <2>6, ReturnFlaggedInv DEF CommitOp
  <2>7. CASE ~IsFailed(out)
    <3>1. /\ job' = [job EXCEPT !.out = out, !.op = @ + 1]
          /\ store' = store /\ edits' = edits /\ returned' = returned
      BY <1>2, <2>5, <2>7 DEF CommitOp
    <3>2. Proceeds(job.out, out) /\ Proceeds(store, job.out)
      BY <2>2, <2>4, <2>5, <2>7, ApplyProceeds DEF CopyOK, Proceeds
    <3>3. Proceeds(store, out)
      BY <3>2 DEF Proceeds
    <3>4. /\ DOMAIN job' = {"kind", "out", "edit", "op"} /\ job'.kind = "commit"
          /\ job'.edit = job.edit /\ job'.op = job.op + 1 /\ job'.out = out
      BY <2>1, <2>2, <3>1
    <3>5. JobOK'
      BY <2>2, <3>1, <3>3, <3>4 DEF JobOK, CopyOK, Refused
    <3> QED BY <2>2, <3>1, <3>5 DEF Inv, EditsOK, ReturnedOK, CopyOK
  <2> QED BY <2>6, <2>7
<1>3. CASE CommitNextEdit
  <2>1. /\ job.kind = "commit" /\ job # NoJob /\ job.edit <= Buffers
        /\ job' = [job EXCEPT !.edit = @ + 1, !.op = 1]
        /\ store' = store /\ edits' = edits /\ returned' = returned
    BY <1>3 DEF CommitNextEdit, NoJob
  <2>2. /\ DOMAIN job = {"kind", "out", "edit", "op"}
        /\ job.edit \in 1..Buffers + 1 /\ job.op \in Nat \ {0} /\ CopyOK
    BY <2>1 DEF Inv, JobOK
  <2>3. /\ DOMAIN job' = {"kind", "out", "edit", "op"} /\ job'.kind = "commit"
        /\ job'.edit = job.edit + 1 /\ job'.op = 1 /\ job'.out = job.out
    BY <2>1, <2>2
  <2>4. job'.edit \in 1..Buffers + 1
    BY <1>0, <2>1, <2>2, <2>3 DEF StoreAssumption
  <2>5. JobOK'
    BY <2>1, <2>2, <2>3, <2>4 DEF JobOK, CopyOK, Refused
  <2> QED BY <2>1, <2>2, <2>5 DEF Inv, EditsOK, ReturnedOK, CopyOK
<1>4. CASE CommitEnd
  <2>1. job.kind = "commit" /\ job # NoJob /\ Finish(job.out)
    BY <1>4 DEF CommitEnd, NoJob
  <2>2. CopyOK
    BY <2>1 DEF Inv, JobOK
  <2> QED BY <2>1, <2>2, FinishInv
<1> QED BY <1>1, <1>2, <1>3, <1>4 DEF Commit

LEMMA CompactInv == ASSUME Inv, Compact PROVE Inv' /\ store' = store
<1>0. /\ Sound(store) /\ store.entries \in Seq(Entry) /\ store.arena \in Arena
      /\ store.max \in Nat
  BY DEF Inv, Sound, StoreOK
<1>1. CASE CompactBegin
  <2>1. CASE Return(Flagged(store))
    BY <2>1, ReturnFlaggedInv
  <2>2. CASE ~Refused(store) /\ Idle /\ StartCompact
    <3>1. PICK out : out = [Unfinalized(store) EXCEPT
                               !.entries = <<>>, !.arena = ArenaClear(store.arena)]
      OBVIOUS
    <3>2. /\ job' = [kind |-> "compact", next |-> 0, out |-> out]
          /\ store' = store /\ edits' = edits /\ returned' = returned /\ returned = NoStore
      BY <2>2, <3>1 DEF StartCompact, Idle
    <3>3. PICK a : a = ArenaClear(store.arena)
      OBVIOUS
    <3>4. /\ a \in Arena /\ a.max = store.arena.max /\ ArenaSize(a) = 0
      <4>1. a = [store.arena EXCEPT !.buf = <<>>, !.over = FALSE]
        BY <3>3 DEF ArenaClear
      <4>2. <<>> \in Seq(Bytes) /\ Len(<<>>) = 0
        OBVIOUS
      <4>3. a.buf = <<>> /\ a.max = store.arena.max /\ a \in Arena
        BY <1>0, <4>1, <4>2 DEF Arena
      <4> QED BY <4>2, <4>3 DEF ArenaSize
    <3>5. /\ StoreOK(out) /\ out.arena = a /\ out.entries = <<>> /\ out.max = store.max
          /\ out.blocks = store.blocks /\ out.over = store.over
      BY <1>0, <3>1, <3>3, <3>4 DEF Sound, StoreOK, Unfinalized
    <3>6. out.blocks <= out.max /\ a.max \in Nat
      BY <1>0, <2>2, <3>4, <3>5 DEF Sound, Within, Arena
    <3>7. Sound(out) /\ out.arena.max = store.arena.max
      BY <1>0, <3>4, <3>5, <3>6 DEF Sound, Within
    <3>8. JobOK'
      BY <1>0, <2>2, <3>2, <3>5, <3>7 DEF JobOK, CopyOK, Proceeds, Refused
    <3> QED BY <3>2, <3>8 DEF Inv, EditsOK, ReturnedOK
  <2> QED BY <1>1, <2>1, <2>2 DEF CompactBegin
<1>2. CASE CompactEntry
  <2>1. job.kind = "compact" /\ job # NoJob /\ job.next < Len(store.entries)
    BY <1>2 DEF CompactEntry, NoJob
  <2>2. /\ DOMAIN job = {"kind", "out", "next"}
        /\ job.next \in 0..Len(store.entries) /\ Len(job.out.entries) <= job.next
        /\ CopyOK
    BY <2>1 DEF Inv, JobOK
  <2>3. PICK e : e = store.entries[job.next + 1]
    OBVIOUS
  <2>4. PICK c : c = CopyEntry(store.arena, job.out.arena, e)
    OBVIOUS
  <2>5. Shaped(e)
    <3>1. job.next + 1 \in 1..Len(store.entries)
      BY <1>0, <2>1, <2>2
    <3> QED BY <1>0, <2>3, <3>1, FitsIsShaped DEF Sound
  <2>6. CASE "Deleted" \in e.flags
    <3>1. /\ job' = [job EXCEPT !.next = @ + 1]
          /\ store' = store /\ edits' = edits /\ returned' = returned
      BY <1>2, <2>3, <2>6 DEF CompactEntry
    <3>2. /\ DOMAIN job' = {"kind", "out", "next"} /\ job'.kind = "compact"
          /\ job'.next = job.next + 1 /\ job'.out = job.out
      BY <2>1, <2>2, <3>1
    <3>3. job'.next \in 0..Len(store.entries) /\ Len(job'.out.entries) <= job'.next
      <4>1. job.out.entries \in Seq(Entry)
        BY <2>2 DEF CopyOK, Proceeds, Sound, StoreOK
      <4> QED BY <1>0, <2>1, <2>2, <3>2, <4>1
    <3>4. JobOK'
      BY <2>2, <3>1, <3>2, <3>3 DEF JobOK, CopyOK, Refused
    <3> QED BY <2>2, <3>1, <3>4 DEF Inv, EditsOK, ReturnedOK, CopyOK
  <2>7. CASE "Deleted" \notin e.flags /\ ~c.ok
    BY <1>2, <2>3, <2>4, <2>7, ReturnFlaggedInv DEF CompactEntry
  <2>8. CASE "Deleted" \notin e.flags /\ c.ok
    <3> DEFINE out == [job.out EXCEPT !.arena = c.arena,
                                      !.entries = Append(job.out.entries, c.entry)]
    <3>1. /\ job' = [job EXCEPT !.next = @ + 1, !.out.arena = c.arena,
                                !.out.entries = Append(@, c.entry)]
          /\ store' = store /\ edits' = edits /\ returned' = returned
      BY <1>2, <2>3, <2>4, <2>8 DEF CompactEntry
    <3>2. /\ Sound(job.out) /\ job.out.arena \in Arena /\ job.out.entries \in Seq(Entry)
          /\ job.out.max = store.max /\ Proceeds(store, job.out) /\ ~Refused(store)
      BY <2>2 DEF CopyOK, Proceeds, Sound, StoreOK
    <3>3. Grows(job.out.arena, c.arena) /\ Fits(c.arena, c.entry)
      BY <1>0, <2>4, <2>5, <2>8, <3>2, CopyEntryFits
    <3>4. Len(store.entries) <= store.max
      BY <1>0, <3>2 DEF Sound, Within
    <3>5. Len(job.out.entries) < job.out.max
      BY <1>0, <2>1, <2>2, <3>2, <3>4
    <3>6. out = [job.out EXCEPT !.entries = Append(job.out.entries, c.entry),
                                !.arena = c.arena]
      BY <3>2 DEF Sound, StoreOK
    <3>7. Proceeds(job.out, out)
      BY <3>2, <3>3, <3>5, <3>6, AppendProceeds
    <3>8. Proceeds(store, out)
      BY <3>2, <3>7 DEF Proceeds
    <3>9. Len(out.entries) = Len(job.out.entries) + 1
      BY <3>2 DEF Sound, StoreOK
    <3> HIDE DEF out
    <3>10. job' = [job EXCEPT !.next = @ + 1, !.out = out]
      BY <2>2, <3>1 DEF out
    <3>11. /\ DOMAIN job' = {"kind", "out", "next"} /\ job'.kind = "compact"
           /\ job'.next = job.next + 1 /\ job'.out = out
      BY <2>1, <2>2, <3>10
    <3>12. job'.next \in 0..Len(store.entries) /\ Len(job'.out.entries) <= job'.next
      BY <1>0, <2>1, <2>2, <3>2, <3>9, <3>11
    <3>13. JobOK'
      BY <2>2, <3>1, <3>8, <3>11, <3>12 DEF JobOK, CopyOK, Refused
    <3> QED BY <2>2, <3>1, <3>13 DEF Inv, EditsOK, ReturnedOK, CopyOK
  <2> QED BY <2>6, <2>7, <2>8
<1>3. CASE CompactEnd
  <2>1. job.kind = "compact" /\ job # NoJob /\ Finish(job.out)
    BY <1>3 DEF CompactEnd, NoJob
  <2>2. CopyOK
    BY <2>1 DEF Inv, JobOK
  <2> QED BY <2>1, <2>2, FinishInv
<1> QED BY <1>1, <1>2, <1>3 DEF Compact

-----------------------------------------------------------------------------
(* The theorems.                                                            *)

LEMMA NextInv == ASSUME Inv, [Next]_vars PROVE Inv' /\ Tightens(store, store')
<1>0. Tightens(store, store)
  BY FollowsRefl DEF Inv, Follows
<1>1. CASE Build
  BY <1>1, BuildInv
<1>2. CASE RecordEdit
  BY <1>0, <1>2, RecordEditInv
<1>3. CASE DropEdits
  <2>1. /\ edits' = [b \in 1..Buffers |-> EmptyEdit]
        /\ store' = store /\ job' = job /\ returned' = returned
    BY <1>3 DEF DropEdits
  <2>2. EditsOK'
    BY <2>1, OffsetMaxAssumption DEF EditsOK, EmptyEdit, EmptyArena, Arena
  <2> QED BY <1>0, <2>1, <2>2 DEF Inv, JobOK, CopyOK, ReturnedOK, AllOrNothing, Refused
<1>4. CASE Commit
  BY <1>0, <1>4, CommitInv
<1>5. CASE Compact
  BY <1>0, <1>5, CompactInv
<1>6. CASE Adopt
  <2>1. /\ store' = returned /\ returned' = NoStore /\ edits' = edits /\ job' = job
        /\ returned # NoStore
    BY <1>6 DEF Adopt
  <2>2. Follows(store, returned) /\ job = NoJob
    BY <2>1 DEF Inv, ReturnedOK, JobOK, CopyOK
  <2> QED BY <2>1, <2>2 DEF Inv, EditsOK, JobOK, ReturnedOK, Follows
<1>7. CASE Drop
  <2>1. /\ store' = store /\ returned' = NoStore /\ edits' = edits /\ job' = job
        /\ returned # NoStore
    BY <1>7 DEF Drop
  <2>2. job = NoJob
    BY <2>1 DEF Inv, JobOK, CopyOK
  <2> QED BY <1>0, <2>1, <2>2 DEF Inv, EditsOK, JobOK, ReturnedOK
<1>8. CASE UNCHANGED vars
  BY <1>0, <1>8 DEF vars, Inv, EditsOK, JobOK, CopyOK, ReturnedOK, AllOrNothing, Refused
<1> QED BY <1>1, <1>2, <1>3, <1>4, <1>5, <1>6, <1>7, <1>8 DEF Next

LEMMA StoresAreSound == ASSUME Inv PROVE \A s \in Stores : Sound(s)
<1>1. /\ Sound(store)
      /\ returned # NoStore => Sound(returned)
      /\ job # NoJob => Sound(job.out)
  BY DEF Inv, ReturnedOK, Follows, JobOK, CopyOK, Proceeds
<1> QED BY <1>1 DEF Stores

LEMMA InvImplies ==
    ASSUME Inv PROVE TypeOK /\ SpansResolve /\ CeilingsHold /\ AllOrNothing
<1>1. /\ Sound(store)
      /\ returned # NoStore => Sound(returned)
      /\ job # NoJob => Sound(job.out)
  BY DEF Inv, ReturnedOK, Follows, JobOK, CopyOK, Proceeds
<1>2. \A s \in Stores : Sound(s)
  BY StoresAreSound
<1>3. SpansResolve
  BY <1>2 DEF SpansResolve, Sound, Fits, KeyFits, ValueFits, Resolves
<1>4. CeilingsHold
  BY <1>2 DEF CeilingsHold, Sound
<1>5. AllOrNothing
  BY DEF Inv, ReturnedOK, AllOrNothing
<1>6. TypeOK
  BY <1>1 DEF Inv, EditsOK, JobOK, TypeOK, Sound
<1> QED BY <1>3, <1>4, <1>5, <1>6

LEMMA SpecInv == Spec => []Inv
BY InitInv, NextInv, PTL DEF Spec

\* The store, the buffers and the running call have their types, whatever
\* decoders and editors ask for (openmeta/meta_store.h, meta_edit.h).
THEOREM TypeCorrect == Spec => []TypeOK
BY SpecInv, InvImplies, PTL

\* No span of any entry of any store ever leaves the arena of that store: not
\* after a refused append, nor after an entry crossed from an edit buffer or
\* an old snapshot through copy_entry().
THEOREM SpansAlwaysResolve == Spec => []SpansResolve
BY SpecInv, InvImplies, PTL

\* A store is within its cumulative ceilings unless it says otherwise, for
\* every moment at which a ceiling may be lowered (constrain_resources).
THEOREM CeilingsAlwaysHold == Spec => []CeilingsHold
BY SpecInv, InvImplies, PTL

\* commit() and compact() return the base with the flag up, or a finalized
\* store that refused nothing.
THEOREM CallsAreAllOrNothing == Spec => []AllOrNothing
BY SpecInv, InvImplies, PTL

\* No sequence of calls, commits and compactions clears the refusal flag of
\* the host's store or widens one of its ceilings.
THEOREM RefusalsAreNeverForgotten == Spec => RefusalSticks
<1>1. Inv /\ [Next]_vars => [Tightens(store, store')]_vars
  BY NextInv
<1> QED BY <1>1, SpecInv, PTL DEF Spec, RefusalSticks

-----------------------------------------------------------------------------
(* The indices.  finalize() builds them once; afterwards the arena may grow *)
(* under them and the ceilings may change, but nothing they depend on does. *)

\* The rows that the indices are built from, and the blocks, are the same.
SameRows(s, t) == Rows(t) = Rows(s) /\ t.blocks = s.blocks

\* Entries read the same in an arena that has only grown.
LEMMA GrowthKeepsRows ==
    ASSUME NEW s, Sound(s), NEW a \in Arena, NEW more \in Seq(Bytes),
           a.buf = s.arena.buf \o more,
           NEW t, t.arena = a, t.entries = s.entries
    PROVE  Rows(t) = Rows(s)
<1>1. s.arena \in Arena
  BY DEF Sound, StoreOK
<1>2. ASSUME NEW i \in 1..Len(s.entries)
      PROVE  Row(t.arena, t.entries[i]) = Row(s.arena, s.entries[i])
  <2>1. PICK e : e = s.entries[i]
    OBVIOUS
  <2>2. /\ e.key.first \in Span /\ InArena(s.arena, e.key.first)
        /\ e.key.second \in Span /\ InArena(s.arena, e.key.second)
    BY <2>1 DEF Sound, Fits, KeyFits, Key
  <2>3. /\ SpanBytes(a, e.key.first) = SpanBytes(s.arena, e.key.first)
        /\ SpanBytes(a, e.key.second) = SpanBytes(s.arena, e.key.second)
    BY <1>1, <2>2, GrowthKeepsViews
  <2> QED BY <2>1, <2>3 DEF Row, ViewKey
<1> QED BY <1>2 DEF Rows

\* Neither do they depend on anything of the arena but its bytes.
LEMMA SameBytesSameRows ==
    ASSUME NEW s, Sound(s), NEW t, t.arena.buf = s.arena.buf, t.entries = s.entries
    PROVE  Rows(t) = Rows(s)
BY DEF Rows, Row, ViewKey, SpanBytes, InArena, ArenaSize

LEMMA KeptFresh ==
    ASSUME NEW s, Fresh(s), NEW t, SameRows(s, t), t.index = s.index,
           t.finalized = s.finalized
    PROVE  Fresh(t)
BY DEF Fresh, SameRows

LEMMA FlaggedFresh == ASSUME NEW s, Sound(s), Fresh(s) PROVE Fresh(Flagged(s))
<1>1. /\ Flagged(s).arena = s.arena /\ Flagged(s).entries = s.entries
      /\ Flagged(s).blocks = s.blocks /\ Flagged(s).index = s.index
      /\ Flagged(s).finalized = s.finalized
  BY DEF Sound, StoreOK, Flagged
<1> QED BY <1>1, SameBytesSameRows, KeptFresh DEF SameRows

LEMMA FinalizedFresh == ASSUME NEW s, Sound(s) PROVE Fresh(Finalized(s))
<1> DEFINE t == Finalized(s)
<1>1. /\ t.arena = s.arena /\ t.entries = s.entries /\ t.blocks = s.blocks
      /\ t.index = BuildIndex(Rows(s), s.blocks)
  BY DEF Sound, StoreOK, Finalized
<1>2. Rows(t) = Rows(s)
  BY <1>1, SameBytesSameRows
<1> QED BY <1>1, <1>2 DEF Fresh

\* The bytes that make_text() and the like store come after all others.
LEMMA PayloadKeepsRows ==
    ASSUME NEW s, Sound(s), NEW view \in ValueView,
           NEW t, t = [s EXCEPT !.arena = MakeValue(s.arena, view).arena]
    PROVE  SameRows(s, t) /\ t.index = s.index /\ t.finalized = s.finalized
<1>1. s.arena \in Arena /\ view.bytes \in Seq(Bytes)
  BY DEF Sound, StoreOK, ValueView
<1>2. PICK a : a = MakeValue(s.arena, view).arena
  OBVIOUS
<1>3. a \in Arena
  BY <1>1, <1>2, MakeValueFits DEF Grows
<1>4. /\ t.arena = a /\ t.entries = s.entries /\ t.blocks = s.blocks
      /\ t.index = s.index /\ t.finalized = s.finalized
  BY <1>2 DEF Sound, StoreOK
<1>5. CASE view.kind \in SpanKinds
  <2>1. PICK r : r = Append_(s.arena, view.bytes)
    OBVIOUS
  <2>2. a = r.arena
    BY <1>2, <1>5, <2>1 DEF MakeValue, PutText
  <2>3. PICK more \in Seq(Bytes) : a.buf = s.arena.buf \o more
    BY <1>1, <2>1, <2>2, AppendExact DEF HandsOut
  <2> QED BY <1>3, <1>4, <2>3, GrowthKeepsRows DEF SameRows
<1>6. CASE view.kind \notin SpanKinds
  <2>1. a = s.arena
    BY <1>2, <1>6 DEF MakeValue, PutText
  <2> QED BY <1>4, <2>1, SameBytesSameRows DEF SameRows
<1> QED BY <1>5, <1>6

\* No operation of commit() finalizes its copy.
LEMMA ApplyUnfinalized ==
    ASSUME NEW s, Sound(s), NEW ar, NEW op, OpShaped(op),
           NEW t, t = ApplyOp(s, ar, op), ~IsFailed(t), ~s.finalized
    PROVE  ~t.finalized
<1>1. DOMAIN s = {"arena", "entries", "blocks", "index", "finalized", "max", "over"}
  BY DEF Sound, StoreOK
<1>2. CASE op.kind = "AddEntry"
  BY <1>1, <1>2 DEF ApplyOp, ApplyAdd, IsFailed
<1>3. CASE op.kind \in {"SetValue", "SetValueWithWire"}
  <2>1. t = ApplySet(s, ar, op)
    BY <1>3 DEF ApplyOp
  <2>2. CASE op.target >= Len(s.entries)
    BY <2>1, <2>2 DEF ApplySet
  <2>3. CASE ~(op.target >= Len(s.entries))
    <3>1. PICK a, es : t = [s EXCEPT !.arena = a, !.entries = es]
      BY <2>1, <2>3 DEF ApplySet, IsFailed
    <3> QED BY <1>1, <3>1
  <2> QED BY <2>2, <2>3
<1>4. CASE op.kind = "Tombstone"
  BY <1>1, <1>4 DEF ApplyOp, ApplyTombstone
<1> QED BY <1>2, <1>3, <1>4 DEF OpShaped, EditOp

FreshInv ==
    /\ Inv
    /\ Fresh(store)
    /\ returned # NoStore => Fresh(returned)
    /\ job # NoJob => ~job.out.finalized

LEMMA FreshBuild == ASSUME FreshInv, Build PROVE Fresh(store')
<1>0. Sound(store) /\ Fresh(store)
  BY DEF FreshInv, Inv
<1>a. DOMAIN store = {"arena", "entries", "blocks", "index", "finalized", "max", "over"}
  BY <1>0 DEF Sound, StoreOK
<1>1. CASE AddBlock
  BY <1>0, <1>1, <1>a, FlaggedFresh DEF AddBlock, OnStore, StoreAddBlock, Fresh
<1>2. CASE AddEntry
  <2>1. PICK m, s : s = [store EXCEPT !.arena = m.arena] /\ store' = StoreAdd(s, m.entry)
    BY <1>2 DEF AddEntry, OnStore
  <2>2. ~s.finalized /\ DOMAIN s = DOMAIN store
    BY <1>2, <1>a, <2>1 DEF AddEntry
  <2>3. ~store'.finalized
    BY <1>a, <2>1, <2>2 DEF StoreAdd, Flagged
  <2> QED BY <2>3 DEF Fresh
<1>3. CASE AddSharing
  <2>1. PICK e : store' = StoreAdd(store, e)
    BY <1>3 DEF AddSharing, OnStore
  <2>2. CASE store.finalized
    BY <1>0, <2>1, <2>2 DEF StoreAdd
  <2>3. CASE ~store.finalized
    <3>1. ~store'.finalized
      BY <1>a, <2>1, <2>3 DEF StoreAdd, Flagged
    <3> QED BY <3>1 DEF Fresh
  <2> QED BY <2>2, <2>3
<1>4. CASE AppendPayload
  <2>1. PICK view \in NewValues :
           store' = [store EXCEPT !.arena = MakeValue(store.arena, view).arena]
    BY <1>4 DEF AppendPayload, OnStore
  <2>2. view \in ValueView
    BY StoreAssumption
  <2> QED BY <1>0, <2>1, <2>2, PayloadKeepsRows, KeptFresh
<1>5. CASE Constrain
  <2>1. PICK n, m : store' = StoreConstrain(store, n, m)
    BY <1>5 DEF Constrain, OnStore
  <2>2. /\ store'.arena = ArenaConstrain(store.arena, m)
        /\ store'.entries = store.entries /\ store'.blocks = store.blocks
        /\ store'.index = store.index /\ store'.finalized = store.finalized
    BY <1>a, <2>1 DEF StoreConstrain
  <2>3. store'.arena.buf = store.arena.buf
    BY <1>0, <2>2 DEF ArenaConstrain, Sound, StoreOK, Arena
  <2> QED BY <1>0, <2>2, <2>3, SameBytesSameRows, KeptFresh DEF SameRows
<1>6. CASE Reserve
  <2>1. PICK b, e, n : store' = StoreReserve(store, b, e, n)
    BY <1>6 DEF Reserve, OnStore
  <2>2. CASE store.finalized
    BY <1>0, <2>1, <2>2 DEF StoreReserve
  <2>3. CASE ~store.finalized
    <3>1. ~store'.finalized
      BY <1>a, <2>1, <2>3 DEF StoreReserve, Flagged
    <3> QED BY <3>1 DEF Fresh
  <2> QED BY <2>2, <2>3
<1>7. CASE Finalize
  BY <1>0, <1>7, FinalizedFresh DEF Finalize, OnStore
<1> QED BY <1>1, <1>2, <1>3, <1>4, <1>5, <1>6, <1>7 DEF Build

\* What a call returns: the flagged store or the finalized copy.
LEMMA FreshReturn ==
    ASSUME FreshInv, Return(Flagged(store)) \/ (CopyOK /\ Finish(job.out))
    PROVE  Fresh(returned') /\ job' = NoJob
<1>1. Fresh(Flagged(store))
  BY FlaggedFresh DEF FreshInv, Inv
<1>2. CASE Return(Flagged(store))
  BY <1>1, <1>2 DEF Return
<1>3. CASE CopyOK /\ Finish(job.out)
  <2>1. Fresh(Finalized(job.out))
    BY <1>3, FinalizedFresh DEF CopyOK, Proceeds
  <2>2. job' = NoJob /\ (returned' = Flagged(store) \/ returned' = Finalized(job.out))
    BY <1>3 DEF Finish, Return
  <2> QED BY <1>1, <2>1, <2>2
<1> QED BY <1>2, <1>3

\* A step of a running call: it returns, or its copy is still unfinalized.
LEMMA FreshCall ==
    ASSUME FreshInv, Commit \/ Compact
    PROVE  (returned' # NoStore => Fresh(returned')) /\ (job' # NoJob => ~job'.out.finalized)
<1>0. Inv /\ Sound(store) /\ (returned # NoStore => Fresh(returned))
      /\ (job # NoJob => ~job.out.finalized)
  BY DEF FreshInv, Inv
<1>a. DOMAIN store = {"arena", "entries", "blocks", "index", "finalized", "max", "over"}
  BY <1>0 DEF Sound, StoreOK
<1>1. CASE Return(Flagged(store))
  BY <1>1, FreshReturn
<1>2. CASE CommitEnd \/ CompactEnd
  <2>1. job.kind \in {"commit", "compact"} /\ Finish(job.out)
    BY <1>2 DEF CommitEnd, CompactEnd
  <2>2. CopyOK
    BY <1>0, <2>1 DEF Inv, JobOK, NoJob
  <2> QED BY <2>1, <2>2, FreshReturn
<1>3. CASE StartCommit \/ StartCompact
  <2>1. /\ returned' = returned
        /\ \/ job'.out = Unfinalized(store)
           \/ job'.out = [Unfinalized(store) EXCEPT !.entries = <<>>,
                                                    !.arena = ArenaClear(store.arena)]
    BY <1>3 DEF StartCommit, StartCompact
  <2> QED BY <1>0, <1>a, <2>1 DEF Unfinalized
<1>4. CASE CommitOp /\ ~Return(Flagged(store))
  <2>1. /\ job.kind = "commit" /\ job # NoJob
        /\ job.edit <= Buffers /\ job.op <= Len(edits[job.edit].ops)
    BY <1>4 DEF CommitOp, NoJob
  <2>2. /\ DOMAIN job = {"kind", "out", "edit", "op"} /\ CopyOK
        /\ job.edit \in 1..Buffers + 1 /\ job.op \in Nat \ {0}
    BY <1>0, <2>1 DEF Inv, JobOK
  <2>3. job.edit \in 1..Buffers
    BY <2>1, <2>2, StoreAssumption
  <2>4. OpShaped(edits[job.edit].ops[job.op])
    <3>1. edits[job.edit].ops \in Seq(EditOp)
      BY <1>0, <2>3 DEF Inv, EditsOK
    <3>2. job.op \in 1..Len(edits[job.edit].ops)
      BY <2>1, <2>2, <3>1
    <3> QED BY <1>0, <2>3, <3>2 DEF Inv, EditsOK
  <2>5. PICK out : out = ApplyOp(job.out, edits[job.edit].arena, edits[job.edit].ops[job.op])
    OBVIOUS
  <2>6. /\ ~IsFailed(out) /\ job' = [job EXCEPT !.out = out, !.op = @ + 1]
        /\ returned' = returned
    BY <1>4, <2>5 DEF CommitOp
  <2>7. ~out.finalized
    BY <1>0, <2>1, <2>2, <2>4, <2>5, <2>6, ApplyUnfinalized DEF CopyOK, Proceeds
  <2>8. job'.out = out
    BY <2>2, <2>6
  <2> QED BY <1>0, <2>6, <2>7, <2>8
<1>5. CASE CommitNextEdit
  <2>1. /\ job.kind = "commit" /\ job # NoJob /\ returned' = returned
        /\ job' = [job EXCEPT !.edit = @ + 1, !.op = 1]
    BY <1>5 DEF CommitNextEdit, NoJob
  <2>2. DOMAIN job = {"kind", "out", "edit", "op"}
    BY <1>0, <2>1 DEF Inv, JobOK
  <2>3. job'.out = job.out
    BY <2>1, <2>2
  <2> QED BY <1>0, <2>1, <2>3
<1>6. CASE CompactEntry /\ ~Return(Flagged(store))
  <2>1. job.kind = "compact" /\ job # NoJob
    BY <1>6 DEF CompactEntry, NoJob
  <2>2. /\ DOMAIN job = {"kind", "out", "next"}
        /\ DOMAIN job.out
             = {"arena", "entries", "blocks", "index", "finalized", "max", "over"}
    BY <1>0, <2>1 DEF Inv, JobOK, CopyOK, Proceeds, Sound, StoreOK
  <2>3. /\ returned' = returned
        /\ \/ job' = [job EXCEPT !.next = @ + 1]
           \/ \E a, e : job' = [job EXCEPT !.next = @ + 1, !.out.arena = a,
                                           !.out.entries = Append(@, e)]
    BY <1>6 DEF CompactEntry
  <2>4. job'.out.finalized = job.out.finalized
    <3>1. CASE job' = [job EXCEPT !.next = @ + 1]
      BY <2>2, <3>1
    <3>2. ASSUME NEW a, NEW e, job' = [job EXCEPT !.next = @ + 1, !.out.arena = a,
                                                  !.out.entries = Append(@, e)]
          PROVE  job'.out.finalized = job.out.finalized
      <4>1. PICK out : out = [job.out EXCEPT !.arena = a, !.entries = Append(@, e)]
        OBVIOUS
      <4>2. out.finalized = job.out.finalized
        BY <2>2, <4>1
      <4>3. job' = [job EXCEPT !.next = @ + 1, !.out = out]
        BY <2>2, <3>2, <4>1
      <4>4. job'.out = out
        BY <2>2, <4>3
      <4> QED BY <4>2, <4>4
    <3> QED BY <2>3, <3>1, <3>2
  <2> QED BY <1>0, <2>1, <2>3, <2>4
<1> QED BY <1>1, <1>2, <1>3, <1>4, <1>5, <1>6
        DEF Commit, CommitBegin, Compact, CompactBegin

LEMMA InitFresh == Init => FreshInv
<1> SUFFICES ASSUME Init PROVE FreshInv
  OBVIOUS
<1>1. store = EmptyStore /\ job = NoJob /\ returned = NoStore
  BY DEF Init
<1> QED BY <1>1, InitInv DEF FreshInv, Fresh, EmptyStore

LEMMA FreshNext == FreshInv /\ [Next]_vars => FreshInv'
<1> SUFFICES ASSUME FreshInv, [Next]_vars PROVE FreshInv'
  OBVIOUS
<1>0. Inv /\ Inv'
  BY NextInv DEF FreshInv
<1>1. CASE Build
  <2>1. returned' = returned /\ job' = job
    BY <1>1 DEF Build, AddBlock, AddEntry, AddSharing, AppendPayload, Constrain,
                Reserve, Finalize, OnStore
  <2> QED BY <1>0, <1>1, <2>1, FreshBuild DEF FreshInv
<1>2. CASE RecordEdit \/ DropEdits
  <2>1. store' = store /\ returned' = returned /\ job' = job
    BY <1>2 DEF RecordEdit, EditAdd, EditSet, EditSetWire, EditTombstone, EditConstrain,
                Record, DropEdits
  <2> QED BY <1>0, <2>1 DEF FreshInv
<1>3. CASE Commit \/ Compact
  <2>1. store' = store
    BY <1>0, <1>3, CommitInv, CompactInv
  <2> QED BY <1>0, <1>3, <2>1, FreshCall DEF FreshInv
<1>4. CASE Adopt \/ Drop
  BY <1>0, <1>4 DEF Adopt, Drop, FreshInv
<1>5. CASE UNCHANGED vars
  BY <1>0, <1>5 DEF vars, FreshInv
<1> QED BY <1>1, <1>2, <1>3, <1>4, <1>5 DEF Next

\* The lookup indices of a finalized store are never stale: later appends to
\* its arena, refusals, lower ceilings and the adoption of a snapshot leave
\* exactly the indices that finalize() would build again.
THEOREM IndicesStayFresh == Spec => []IndexFresh
<1>1. Init => FreshInv
  BY InitFresh
<1>2. FreshInv => IndexFresh
  BY DEF FreshInv, IndexFresh, Stores, Fresh
<1> QED BY <1>1, <1>2, FreshNext, PTL DEF Spec

-----------------------------------------------------------------------------
(* Sorting with a comparator that is a strict total order.                  *)

StrictlyOrders(before, ids) ==
    /\ \A a \in ids : <<a, a>> \notin before
    /\ \A a, b \in ids : a # b => <<a, b>> \in before \/ <<b, a>> \in before
    /\ \A a, b, c \in ids : <<a, b>> \in before /\ <<b, c>> \in before => <<a, c>> \in before

Rank(ids, before, a) == Cardinality({b \in ids : <<b, a>> \in before})

LEMMA RankGrows ==
    ASSUME NEW ids, IsFiniteSet(ids), NEW before, StrictlyOrders(before, ids),
           NEW a \in ids, NEW b \in ids, <<a, b>> \in before
    PROVE  Rank(ids, before, a) < Rank(ids, before, b)
<1> DEFINE below(x) == {c \in ids : <<c, x>> \in before}
<1>1. IsFiniteSet(below(b)) /\ IsFiniteSet(below(a))
  BY FS_Subset
<1>2. below(a) \subseteq below(b) /\ a \in below(b) /\ a \notin below(a)
  BY DEF StrictlyOrders
<1>3. Cardinality(below(a)) <= Cardinality(below(b))
      /\ Cardinality(below(a)) # Cardinality(below(b))
  BY <1>1, <1>2, FS_Subset
<1>4. Cardinality(below(a)) \in Nat /\ Cardinality(below(b)) \in Nat
  BY <1>1, FS_CardinalityType
<1> QED BY <1>3, <1>4 DEF Rank

LEMMA RankRange ==
    ASSUME NEW ids, IsFiniteSet(ids), NEW before, StrictlyOrders(before, ids), NEW a \in ids
    PROVE  Rank(ids, before, a) \in 0..Cardinality(ids) - 1
<1> DEFINE below == {c \in ids : <<c, a>> \in before}
<1>1. below \subseteq ids /\ a \notin below
  BY DEF StrictlyOrders
<1>2. IsFiniteSet(below) /\ Cardinality(below) <= Cardinality(ids)
      /\ Cardinality(below) # Cardinality(ids)
  BY <1>1, FS_Subset
<1>3. Cardinality(below) \in Nat /\ Cardinality(ids) \in Nat
  BY <1>2, FS_CardinalityType
<1> QED BY <1>2, <1>3 DEF Rank

LEMMA RankOnto ==
    ASSUME NEW ids, IsFiniteSet(ids), NEW before, StrictlyOrders(before, ids),
           NEW i \in 0..Cardinality(ids) - 1
    PROVE  \E a \in ids : Rank(ids, before, a) = i
<1> DEFINE n == Cardinality(ids)
           f == [a \in ids |-> Rank(ids, before, a)]
<1>0. n \in Nat
  BY FS_CardinalityType
<1>1. f \in [ids -> 0..n - 1]
  BY RankRange
<1>2. ASSUME NEW a \in ids, NEW b \in ids, a # b PROVE f[a] # f[b]
  <2>1. CASE <<a, b>> \in before
    <3>1. Rank(ids, before, a) < Rank(ids, before, b)
      BY <2>1, RankGrows
    <3> QED BY <1>0, <1>1, <3>1
  <2>2. CASE <<b, a>> \in before
    <3>1. Rank(ids, before, b) < Rank(ids, before, a)
      BY <2>2, RankGrows
    <3> QED BY <1>0, <1>1, <3>1
  <2> QED BY <1>2, <2>1, <2>2 DEF StrictlyOrders
<1>3. f \in Injection(ids, 0..n - 1)
  BY <1>1, <1>2, Zenon DEF Injection, IsInjective
<1>4. IsFiniteSet(0..n - 1) /\ Cardinality(0..n - 1) = n
  BY <1>0, FS_Interval
<1>5. f \in Surjection(ids, 0..n - 1)
  BY <1>3, <1>4, FS_Injection
<1> QED BY <1>5 DEF Surjection

\* What sorting gives: every id once, each before those that come after it.
Sorts(s, ids, before) ==
    /\ s \in Seq(ids) /\ Len(s) = Cardinality(ids)
    /\ \A i, j \in 1..Len(s) : i < j => <<s[i], s[j]>> \in before
    /\ \A a \in ids : \E i \in 1..Len(s) : s[i] = a

LEMMA SortedSorts ==
    ASSUME NEW ids, IsFiniteSet(ids), NEW before, StrictlyOrders(before, ids)
    PROVE  Sorts(Sorted(ids, before), ids, before)
<1> DEFINE n == Cardinality(ids)
           s == Sorted(ids, before)
<1>0. n \in Nat
  BY FS_CardinalityType
<1>1. s = [i \in 1..n |-> CHOOSE a \in ids : Rank(ids, before, a) = i - 1]
  BY DEF Sorted, Rank
<1>2. ASSUME NEW i \in 1..n PROVE s[i] \in ids /\ Rank(ids, before, s[i]) = i - 1
  <2>1. i - 1 \in 0..n - 1
    BY <1>0
  <2>2. \E a \in ids : Rank(ids, before, a) = i - 1
    BY <2>1, RankOnto
  <2>3. s[i] = CHOOSE a \in ids : Rank(ids, before, a) = i - 1
    BY <1>1
  <2> HIDE DEF s
  <2> QED BY <2>2, <2>3
<1> HIDE DEF s
<1>3. s \in Seq(ids) /\ Len(s) = n
  BY <1>0, <1>1, <1>2
<1>4. ASSUME NEW i \in 1..n, NEW j \in 1..n, i < j PROVE <<s[i], s[j]>> \in before
  <2>1. s[i] \in ids /\ s[j] \in ids /\ Rank(ids, before, s[i]) = i - 1
        /\ Rank(ids, before, s[j]) = j - 1
    BY <1>2
  <2>2. s[i] # s[j]
    BY <1>4, <2>1
  <2>3. ~(<<s[j], s[i]>> \in before)
    <3> SUFFICES ASSUME <<s[j], s[i]>> \in before PROVE FALSE
      OBVIOUS
    <3>1. Rank(ids, before, s[j]) < Rank(ids, before, s[i])
      BY <2>1, RankGrows
    <3> QED BY <1>0, <1>4, <2>1, <3>1
  <2> QED BY <2>1, <2>2, <2>3 DEF StrictlyOrders
<1>5. ASSUME NEW a \in ids PROVE \E i \in 1..n : s[i] = a
  <2>1. Rank(ids, before, a) \in 0..n - 1
    BY RankRange
  <2>2. PICK i \in 1..n : i - 1 = Rank(ids, before, a)
    BY <1>0, <2>1
  <2>3. s[i] \in ids /\ Rank(ids, before, s[i]) = Rank(ids, before, a)
    BY <1>2, <2>2
  <2>4. s[i] = a
    <3> SUFFICES ASSUME s[i] # a PROVE FALSE
      OBVIOUS
    <3>1. <<s[i], a>> \in before \/ <<a, s[i]>> \in before
      BY <2>3 DEF StrictlyOrders
    <3>2. Rank(ids, before, s[i]) < Rank(ids, before, a)
          \/ Rank(ids, before, a) < Rank(ids, before, s[i])
      BY <2>3, <3>1, RankGrows
    <3> QED BY <1>0, <2>1, <2>3, <3>2
  <2> QED BY <2>4
<1>6. Sorts(s, ids, before)
  BY <1>0, <1>3, <1>4, <1>5 DEF Sorts
<1> QED BY <1>6 DEF s

\* Rows as a store has them.
RowView == [key : KeyView, block : Nat, order : Nat, deleted : BOOLEAN]
RowsOK(rows) == rows \in Seq(RowView) /\ \A i \in 1..Len(rows) : HasItsTexts(rows[i].key)

LEMMA LiveIds ==
    ASSUME NEW rows, RowsOK(rows)
    PROVE  /\ IsFiniteSet(Live(rows)) /\ Live(rows) \subseteq Nat
           /\ \A id \in Live(rows) : id + 1 \in 1..Len(rows)
           /\ \A i \in 1..Len(rows) : /\ rows[i].key \in KeyView /\ HasItsTexts(rows[i].key)
                                      /\ rows[i].block \in Nat /\ rows[i].order \in Nat
<1>1. Live(rows) \subseteq 0..Len(rows) - 1 /\ Len(rows) \in Nat
  BY DEF Live, RowsOK
<1>2. IsFiniteSet(0..Len(rows) - 1)
  BY <1>1, FS_Interval
<1>3. IsFiniteSet(Live(rows)) /\ Live(rows) \subseteq Nat
  BY <1>1, <1>2, FS_Subset
<1>4. \A id \in Live(rows) : id + 1 \in 1..Len(rows)
  BY <1>1
<1>5. \A i \in 1..Len(rows) : /\ rows[i].key \in KeyView /\ HasItsTexts(rows[i].key)
                               /\ rows[i].block \in Nat /\ rows[i].order \in Nat
  <2> SUFFICES ASSUME NEW i \in 1..Len(rows)
               PROVE  /\ rows[i].key \in KeyView /\ HasItsTexts(rows[i].key)
                      /\ rows[i].block \in Nat /\ rows[i].order \in Nat
    OBVIOUS
  <2>1. rows[i] \in RowView /\ HasItsTexts(rows[i].key)
    BY DEF RowsOK
  <2> QED BY <2>1 DEF RowView
<1> QED BY <1>3, <1>4, <1>5

BlockOrder(rows) ==
    {p \in Live(rows) \X Live(rows) : LessByBlock(rows, p[1], p[2])}

LEMMA BlockOrderStrict ==
    ASSUME NEW rows, RowsOK(rows)
    PROVE  StrictlyOrders(BlockOrder(rows), Live(rows))
<1> DEFINE ids == Live(rows)
<1>0. \A id \in ids : id \in Nat /\ rows[id + 1].block \in Nat /\ rows[id + 1].order \in Nat
  BY LiveIds
<1>1. \A a, b \in ids : <<a, b>> \in BlockOrder(rows) <=> LessByBlock(rows, a, b)
  BY DEF BlockOrder
<1>2. \A a \in ids : ~LessByBlock(rows, a, a)
  BY <1>0 DEF LessByBlock
<1>3. \A a, b \in ids : a # b => LessByBlock(rows, a, b) \/ LessByBlock(rows, b, a)
  BY <1>0 DEF LessByBlock
<1>4. \A a, b, c \in ids : LessByBlock(rows, a, b) /\ LessByBlock(rows, b, c)
                              => LessByBlock(rows, a, c)
  BY <1>0 DEF LessByBlock
<1> HIDE DEF ids
<1> QED BY <1>1, <1>2, <1>3, <1>4 DEF StrictlyOrders, ids

\* byBlock as finalize() leaves it.
LEMMA SortedByBlock ==
    ASSUME NEW rows, RowsOK(rows)
    PROVE  Sorts(SortIdsByBlock(rows), Live(rows), BlockOrder(rows))
<1>1. SortIdsByBlock(rows) = Sorted(Live(rows), BlockOrder(rows))
  BY DEF SortIdsByBlock, BlockOrder
<1> QED BY <1>1, LiveIds, BlockOrderStrict, SortedSorts

LEMMA Induction ==
    ASSUME NEW S, 0 \in S, \A n \in Nat : n \in S => n + 1 \in S
    PROVE  Nat \subseteq S
<1> SUFFICES ASSUME NEW n \in Nat, n \notin S PROVE FALSE
  OBVIOUS
<1> DEFINE F == {0..k : k \in {j \in 0..n : j \notin S}}
           R == StrictSubsetOrdering(0..n)
<1>1. IsWellFoundedOn(R, FiniteSubsetsOf(0..n))
  BY FS_StrictSubsetOrderingWellFounded
<1>2. FiniteSubsetsOf(0..n) = SUBSET (0..n)
  <2>1. IsFiniteSet(0..n)
    BY FS_Interval
  <2> QED BY <2>1, FS_FiniteSubsetsOfFinite
<1>3. F \subseteq SUBSET (0..n) /\ F # {}
  OBVIOUS
<1>4. PICK x \in F : \A y \in F : ~(<<y, x>> \in R)
  <2> HIDE DEF F, R
  <2> QED BY <1>1, <1>2, <1>3, WFMin
<1>5. PICK k \in 0..n : k \notin S /\ x = 0..k
  OBVIOUS
<1>6. k # 0 /\ k - 1 \in Nat /\ k - 1 \in 0..n /\ k - 1 \notin S
  BY <1>5
<1>7. 0..k - 1 \in F
  BY <1>6
<1>8. <<0..k - 1, x>> \in R
  <2>1. 0..k - 1 \subseteq 0..k /\ k \in 0..k /\ k \notin 0..k - 1
    BY <1>6
  <2>2. 0..k - 1 \in SUBSET (0..n) /\ x \in SUBSET (0..n)
    BY <1>3, <1>7
  <2> QED BY <1>5, <2>1, <2>2 DEF StrictSubsetOrdering
<1> QED BY <1>4, <1>7, <1>8

LEMMA Smallest ==
    ASSUME NEW A, A \subseteq Nat, A # {}
    PROVE  \E m \in A : \A j \in A : m <= j
<1> SUFFICES ASSUME \A m \in A : \E j \in A : ~(m <= j) PROVE FALSE
  OBVIOUS
<1> DEFINE S == {n \in Nat : \A k \in 0..n : k \notin A}
<1>1. 0 \in S
  OBVIOUS
<1>2. ASSUME NEW n \in Nat, n \in S PROVE n + 1 \in S
  <2>1. n + 1 \notin A
    <3> SUFFICES ASSUME n + 1 \in A PROVE FALSE
      OBVIOUS
    <3>1. PICK j \in A : ~(n + 1 <= j)
      OBVIOUS
    <3>2. j \in 0..n
      BY <3>1
    <3> QED BY <1>2, <3>2
  <2>2. \A k \in 0..n + 1 : k \in 0..n \/ k = n + 1
    OBVIOUS
  <2> QED BY <1>2, <2>1, <2>2
<1> HIDE DEF S
<1>3. Nat \subseteq S
  BY <1>1, <1>2, Induction
<1>4. PICK a \in A : TRUE
  OBVIOUS
<1>5. a \in Nat /\ a \in S /\ a \in 0..a
  BY <1>3
<1> QED BY <1>4, <1>5 DEF S

LEMMA FirstOfIs ==
    ASSUME NEW A, A \subseteq Nat, A # {}
    PROVE  FirstOf(A) \in A /\ \A j \in A : FirstOf(A) <= j
BY Smallest DEF FirstOf

LEMMA Greatest ==
    ASSUME NEW n \in Nat, NEW A, A \subseteq 1..n, A # {}
    PROVE  \E m \in A : \A j \in A : j <= m
<1> DEFINE B == {u \in Nat : \A j \in A : j <= u}
<1>1. n \in B
  OBVIOUS
<1>2. PICK u \in B : \A v \in B : u <= v
  <2>1. B \subseteq Nat /\ B # {}
    BY <1>1
  <2> HIDE DEF B
  <2> QED BY <2>1, Smallest
<1>3. u \in A
  <2> SUFFICES ASSUME u \notin A PROVE FALSE
    OBVIOUS
  <2>1. \A j \in A : j \in Nat /\ j <= u /\ j # u /\ j >= 1
    BY <1>2
  <2>a. PICK i \in A : TRUE
    OBVIOUS
  <2>b. u \in Nat /\ i \in Nat /\ i >= 1 /\ i <= u
    BY <1>2, <2>1
  <2>2. u \in Nat /\ u - 1 \in Nat /\ \A j \in A : j <= u - 1
    BY <2>1, <2>b
  <2>3. u - 1 \in B
    BY <2>2
  <2> QED BY <1>2, <2>2, <2>3
<1> QED BY <1>2, <1>3

\* An interval is known by its smallest member and its size.
LEMMA Interval ==
    ASSUME NEW n \in Nat, NEW A, A \subseteq 1..n, NEW m \in A, \A i \in A : m <= i,
           \A i \in A : \A j \in m..i : j \in A
    PROVE  A = m..m + Cardinality(A) - 1 /\ Cardinality(A) \in Nat /\ Cardinality(A) <= n - m + 1
<1>1. PICK k \in A : \A j \in A : j <= k
  BY Greatest
<1>a. k \in 1..n /\ m \in 1..n /\ m <= k
  BY <1>1
<1>b. \A j \in A : j \in m..k
  BY <1>1, <1>a
<1>c. \A j \in m..k : j \in A
  OBVIOUS
<1>2. A = m..k /\ m <= k /\ k \in 1..n /\ m \in 1..n
  BY <1>a, <1>b, <1>c
<1>3. Cardinality(A) = k - m + 1
  BY <1>2, FS_Interval
<1> QED BY <1>2, <1>3

\* ids has the wanted ids, each once and in their order.
GivesExactly(ids, wanted, before) ==
    /\ IsExactly(ids, wanted)
    /\ DOMAIN ids = 1..Len(ids)
    /\ \A i, j \in 1..Len(ids) : i < j => <<ids[i], ids[j]>> \in before

-----------------------------------------------------------------------------
\* A span of a sorted index that covers exactly the wanted ids.
LEMMA SpanExact ==
    ASSUME NEW ids, IsFiniteSet(ids), NEW before, StrictlyOrders(before, ids),
           NEW s, Sorts(s, ids, before), NEW start \in Nat, NEW count \in Nat,
           start + count <= Len(s), NEW wanted, wanted \subseteq ids,
           \A i \in 1..Len(s) : s[i] \in wanted <=> i \in start + 1..start + count,
           NEW span, span = IdSpan(s, start, count)
    PROVE  GivesExactly(span, wanted, before)
<1>1. s \in Seq(ids) /\ Len(s) \in Nat
  BY DEF Sorts
<1>2. span = SubSeq(s, start + 1, start + count)
  BY <1>1 DEF IdSpan
<1>3. /\ Len(span) = count
      /\ \A i \in 1..count : span[i] = s[start + i]
  BY <1>1, <1>2
<1>4. \A i \in 1..count : start + i \in 1..Len(s) /\ span[i] \in wanted
  BY <1>1, <1>3
<1>5. \A a \in wanted : \E i \in 1..count : span[i] = a
  <2> SUFFICES ASSUME NEW a \in wanted PROVE \E i \in 1..count : span[i] = a
    OBVIOUS
  <2>1. PICK i \in 1..Len(s) : s[i] = a
    BY DEF Sorts
  <2>2. i - start \in 1..count /\ start + (i - start) = i
    BY <1>1, <2>1
  <2> QED BY <1>3, <2>1, <2>2
<1>6. \A i, j \in 1..count : i < j => <<span[i], span[j]>> \in before
  <2> SUFFICES ASSUME NEW i \in 1..count, NEW j \in 1..count, i < j
               PROVE  <<span[i], span[j]>> \in before
    OBVIOUS
  <2>1. start + i \in 1..Len(s) /\ start + j \in 1..Len(s) /\ start + i < start + j
    BY <1>4
  <2> QED BY <1>3, <2>1 DEF Sorts
<1>7. \A i, j \in 1..count : i # j => span[i] # span[j]
  <2> SUFFICES ASSUME NEW i \in 1..count, NEW j \in 1..count, i < j PROVE span[i] # span[j]
    OBVIOUS
  <2> QED BY <1>4, <1>6 DEF StrictlyOrders
<1>8. ToSet(span) = wanted
  <2>1. DOMAIN span = 1..count
    BY <1>1, <1>2
  <2> QED BY <1>4, <1>5, <2>1 DEF ToSet
<1>9. Cardinality(wanted) = count
  <2> DEFINE f == [i \in 1..count |-> span[i]]
  <2>1. f \in Injection(1..count, wanted) /\ f \in Surjection(1..count, wanted)
    BY <1>4, <1>5, <1>7 DEF Injection, IsInjective, Surjection
  <2>2. ExistsBijection(1..count, wanted)
    BY <2>1 DEF ExistsBijection, Bijection
  <2>3. IsFiniteSet(1..count) /\ Cardinality(1..count) = count
    BY FS_Interval
  <2> QED BY <2>2, <2>3, FS_Bijection
<1>10. DOMAIN span = 1..Len(span)
  BY <1>1, <1>2
<1> QED BY <1>3, <1>6, <1>8, <1>9, <1>10 DEF GivesExactly, IsExactly

\* rebuild_block_index() and entries_in_block(): the ids of a block are one
\* interval of the sorted ids, and the span of the block is that interval.
LEMMA BlockLookupExact ==
    ASSUME NEW rows, RowsOK(rows), NEW blocks \in Nat, NEW b \in 0..blocks - 1,
           NEW index, index.byBlock = SortIdsByBlock(rows),
           index.blockSpans = BlockSpans(rows, blocks, SortIdsByBlock(rows))
    PROVE  EntriesInBlockExact(rows, index, b)
<1> DEFINE ids == Live(rows)
           before == BlockOrder(rows)
           at(c) == BlockPlaces(rows, index.byBlock, c)
           from == UNION {at(c) : c \in b..blocks - 1}
           start == BlockStart(rows, blocks, index.byBlock, b)
           count == Cardinality(at(b))
<1>0. PICK s : s = index.byBlock
  OBVIOUS
<1>p. \A c : at(c) = {i \in 1..Len(s) : rows[s[i] + 1].block = c}
  BY <1>0 DEF BlockPlaces
<1>q. start = IF from = {} THEN Len(s) ELSE FirstOf(from) - 1
  BY <1>0 DEF BlockStart
<1> HIDE DEF at, start
<1>1. Sorts(s, ids, before) /\ StrictlyOrders(before, ids) /\ IsFiniteSet(ids)
  BY <1>0, SortedByBlock, BlockOrderStrict, LiveIds
<1>2. s \in Seq(ids) /\ Len(s) \in Nat
  BY <1>1 DEF Sorts
<1>3. ASSUME NEW i \in 1..Len(s)
      PROVE  s[i] \in ids /\ s[i] \in Nat /\ rows[s[i] + 1].block \in Nat
  <2>1. s[i] \in ids
    BY <1>2
  <2> QED BY <2>1, LiveIds
<1>4. ASSUME NEW i \in 1..Len(s), NEW j \in 1..Len(s), i < j
      PROVE  rows[s[i] + 1].block <= rows[s[j] + 1].block
  <2>1. <<s[i], s[j]>> \in before
    BY <1>1, <1>4 DEF Sorts
  <2>2. LessByBlock(rows, s[i], s[j])
    BY <2>1 DEF BlockOrder
  <2> QED BY <1>3, <2>2 DEF LessByBlock
<1>5. /\ index.blockSpans[b].start = start
      /\ index.blockSpans[b].count = count
      /\ b \in DOMAIN index.blockSpans
  BY <1>0 DEF BlockSpans, start, at
<1>6. /\ start \in Nat /\ count \in Nat /\ start + count <= Len(s)
      /\ \A i \in 1..Len(s) : i \in at(b) <=> i \in start + 1..start + count
  <2>1. from \subseteq 1..Len(s) /\ at(b) \subseteq from
    BY <1>p
  <2>2. from # {} => start \in Nat /\ start + 1 \in from /\ \A j \in from : start + 1 <= j
    <3> SUFFICES ASSUME from # {}
                 PROVE  start \in Nat /\ start + 1 \in from /\ \A j \in from : start + 1 <= j
      OBVIOUS
    <3>1. from \subseteq Nat
      <4> HIDE DEF from
      <4> QED BY <1>2, <2>1
    <3>2. FirstOf(from) \in from /\ \A j \in from : FirstOf(from) <= j
      <4> HIDE DEF from
      <4> QED BY <3>1, FirstOfIs
    <3>3. PICK m : m = FirstOf(from)
      OBVIOUS
    <3>4. m \in from /\ \A j \in from : m <= j
      <4> HIDE DEF from
      <4> QED BY <3>2, <3>3
    <3>5. m \in 1..Len(s)
      BY <2>1, <3>4
    <3>6. start = m - 1
      BY <1>q, <3>3
    <3> HIDE DEF from
    <3> QED BY <1>2, <3>4, <3>5, <3>6
  <2>3. CASE at(b) = {}
    <3>1. count = 0
      BY <2>3, FS_EmptySet
    <3>2. start \in Nat /\ start <= Len(s)
      <4>1. CASE from = {}
        BY <1>2, <1>q, <4>1
      <4>2. CASE from # {}
        <5>1. start \in Nat /\ start + 1 \in 1..Len(s)
          BY <2>1, <2>2, <4>2
        <5> QED BY <1>2, <5>1
      <4> QED BY <4>1, <4>2
    <3> HIDE DEF count
    <3> QED BY <1>2, <2>3, <3>1, <3>2
  <2>4. CASE at(b) # {}
    <3> DEFINE m == start + 1
    <3>1. from # {}
      BY <2>1, <2>4
    <3>2. m \in from /\ (\A j \in from : m <= j) /\ start \in Nat
      BY <2>2, <3>1
    <3>3. PICK k \in at(b) : TRUE
      BY <2>4
    <3> HIDE DEF m
    <3>4. m \in at(b)
      <4>1. PICK c \in b..blocks - 1 : m \in at(c)
        BY <3>2
      <4>2. m \in 1..Len(s) /\ k \in 1..Len(s) /\ m <= k
            /\ rows[s[m] + 1].block = c /\ rows[s[k] + 1].block = b
        BY <1>p, <2>1, <3>2, <3>3, <4>1
      <4>3. c <= b
        BY <1>4, <4>2
      <4>4. c = b
        BY <4>1, <4>3
      <4> QED BY <4>1, <4>4
    <3>5. at(b) \subseteq 1..Len(s) /\ \A i \in at(b) : m <= i
      BY <2>1, <3>2
    <3>6. \A i \in at(b) : \A j \in m..i : j \in at(b)
      <4> SUFFICES ASSUME NEW i \in at(b), NEW j \in m..i PROVE j \in at(b)
        OBVIOUS
      <4>1. m \in 1..Len(s) /\ i \in 1..Len(s) /\ j \in 1..Len(s) /\ m <= j /\ j <= i
            /\ rows[s[m] + 1].block = b /\ rows[s[i] + 1].block = b
        BY <1>p, <3>4, <3>5
      <4>2. m \in Nat /\ i \in Nat /\ j \in Nat
        BY <1>2, <4>1
      <4>3. m = j \/ rows[s[m] + 1].block <= rows[s[j] + 1].block
        BY <1>4, <4>1, <4>2
      <4>4. j = i \/ rows[s[j] + 1].block <= rows[s[i] + 1].block
        BY <1>4, <4>1, <4>2
      <4>5. rows[s[j] + 1].block \in Nat /\ b \in Nat
        BY <1>3, <4>1
      <4>6. rows[s[j] + 1].block = b
        BY <4>1, <4>3, <4>4, <4>5
      <4> QED BY <1>p, <4>1, <4>6
    <3>7. at(b) = m..m + count - 1 /\ count \in Nat /\ count <= Len(s) - m + 1
      <4> QED BY <1>2, <3>4, <3>5, <3>6, Interval
    <3>8. m = start + 1
      BY DEF m
    <3> HIDE DEF count
    <3> QED BY <1>2, <3>2, <3>7, <3>8
  <2> QED BY <2>3, <2>4
<1> DEFINE wanted == {id \in Live(rows) : rows[id + 1].block = b}
           span == EntriesInBlock(index, b)
<1>7. span = IdSpan(s, start, count)
  BY <1>0, <1>5 DEF EntriesInBlock
<1>8. \A i \in 1..Len(s) : s[i] \in wanted <=> i \in start + 1..start + count
  <2> SUFFICES ASSUME NEW i \in 1..Len(s)
               PROVE  s[i] \in wanted <=> i \in start + 1..start + count
    OBVIOUS
  <2>1. s[i] \in wanted <=> i \in at(b)
    BY <1>3, <1>p
  <2> HIDE DEF wanted, count
  <2> QED BY <1>6, <2>1
<1>9. wanted \subseteq ids
  OBVIOUS
<1>10. /\ IsExactly(span, wanted) /\ DOMAIN span = 1..Len(span)
       /\ \A i, j \in 1..Len(span) : i < j => <<span[i], span[j]>> \in before
  <2> HIDE DEF ids, before, count, span, wanted
  <2>1. GivesExactly(span, wanted, before)
    BY <1>1, <1>6, <1>7, <1>8, <1>9, SpanExact
  <2> QED BY <2>1 DEF GivesExactly
<1>11. ASSUME NEW i \in 1..Len(span), NEW j \in 1..Len(span), i < j
       PROVE  \/ rows[span[i] + 1].order < rows[span[j] + 1].order
              \/ rows[span[i] + 1].order = rows[span[j] + 1].order /\ span[i] < span[j]
  <2>1. <<span[i], span[j]>> \in before
    BY <1>10, <1>11
  <2>2. LessByBlock(rows, span[i], span[j])
    BY <2>1 DEF BlockOrder
  <2>3. span[i] \in wanted /\ span[j] \in wanted
    <3>1. ToSet(span) = wanted
      BY <1>10 DEF IsExactly
    <3> HIDE DEF span, wanted
    <3> QED BY <1>10, <1>11, <3>1 DEF ToSet
  <2>4. rows[span[i] + 1].block = b /\ rows[span[j] + 1].block = b /\ b \in Nat
    BY <2>3
  <2> HIDE DEF span, wanted, before, ids
  <2> QED BY <2>2, <2>4 DEF LessByBlock
<1> QED BY <1>10, <1>11 DEF EntriesInBlockExact

-----------------------------------------------------------------------------
(* compare_bytes() and compare_key() are three-way comparisons of a strict  *)
(* total order.                                                             *)

\* x and y are equal before place d.
AgreeUpTo(x, y, d) ==
    d \in 1..Len(x) + 1 /\ d \in 1..Len(y) + 1 /\ \A i \in 1..d - 1 : x[i] = y[i]

\* At place d, x has the smaller byte, or ends.
SmallerAt(x, y, d) ==
    /\ AgreeUpTo(x, y, d)
    /\ d <= Len(y)
    /\ d <= Len(x) => x[d] < y[d]

LessBytes(x, y) == \E d \in Nat : SmallerAt(x, y, d)

LEMMA LessBytesOrder ==
    ASSUME NEW x \in Seq(Nat), NEW y \in Seq(Nat), NEW z \in Seq(Nat)
    PROVE  ~LessBytes(x, x) /\ (LessBytes(x, y) /\ LessBytes(y, z) => LessBytes(x, z))
<1>0. Len(x) \in Nat /\ Len(y) \in Nat /\ Len(z) \in Nat
      /\ (\A i \in 1..Len(x) : x[i] \in Nat) /\ (\A i \in 1..Len(y) : y[i] \in Nat)
      /\ \A i \in 1..Len(z) : z[i] \in Nat
  OBVIOUS
<1>1. ~LessBytes(x, x)
  BY <1>0 DEF LessBytes, SmallerAt, AgreeUpTo
<1>2. ASSUME NEW d \in Nat, NEW e \in Nat, SmallerAt(x, y, d), SmallerAt(y, z, e)
      PROVE  LessBytes(x, z)
  <2>1. CASE d <= e
    <3>1. SmallerAt(x, z, d)
      <4>1. d <= Len(y) /\ d <= Len(z) + 1 /\ d <= Len(x) + 1 /\ d >= 1
        BY <1>0, <1>2, <2>1 DEF SmallerAt, AgreeUpTo
      <4>2. \A i \in 1..d - 1 : x[i] = z[i]
        BY <1>0, <1>2, <2>1 DEF SmallerAt, AgreeUpTo
      <4>3. d <= Len(z)
        BY <1>0, <1>2, <2>1 DEF SmallerAt, AgreeUpTo
      <4>4. d < e => y[d] = z[d]
        BY <1>0, <1>2, <4>1 DEF SmallerAt, AgreeUpTo
      <4>5. d = e => y[d] < z[d]
        <5>1. d = e => (d <= Len(y) => y[d] < z[d])
          BY <1>2 DEF SmallerAt
        <5> QED BY <4>1, <5>1
      <4>6. d <= Len(x) => x[d] < y[d]
        BY <1>2 DEF SmallerAt
      <4>7. d <= Len(x) => x[d] < z[d]
        <5> SUFFICES ASSUME d <= Len(x) PROVE x[d] < z[d]
          OBVIOUS
        <5>1. x[d] \in Nat /\ y[d] \in Nat /\ z[d] \in Nat
          BY <1>0, <4>1, <4>3
        <5>2. x[d] < y[d] /\ (y[d] = z[d] \/ y[d] < z[d])
          BY <2>1, <4>4, <4>5, <4>6
        <5> QED BY <5>1, <5>2
      <4>8. d \in 1..Len(x) + 1 /\ d \in 1..Len(z) + 1
        BY <1>0, <4>1
      <4>9. AgreeUpTo(x, z, d)
        BY <4>2, <4>8 DEF AgreeUpTo
      <4> QED BY <4>3, <4>7, <4>9 DEF SmallerAt
    <3> QED BY <3>1 DEF LessBytes
  <2>2. CASE e < d
    <3>1. SmallerAt(x, z, e)
      <4>1. e <= Len(x) /\ e <= Len(y) /\ e <= Len(z) /\ e >= 1
        <5>1. d \in 1..Len(x) + 1 /\ d <= Len(y)
          BY <1>2 DEF SmallerAt, AgreeUpTo
        <5>2. e \in 1..Len(y) + 1 /\ e <= Len(z)
          BY <1>2 DEF SmallerAt, AgreeUpTo
        <5> QED BY <1>0, <2>2, <5>1, <5>2
      <4>2. x[e] = y[e] /\ \A i \in 1..e - 1 : x[i] = z[i]
        BY <1>0, <1>2, <2>2, <4>1 DEF SmallerAt, AgreeUpTo
      <4>3. y[e] < z[e]
        BY <1>2, <4>1 DEF SmallerAt
      <4> QED BY <1>0, <4>1, <4>2, <4>3 DEF SmallerAt, AgreeUpTo
    <3> QED BY <3>1 DEF LessBytes
  <2> QED BY <1>2, <2>1, <2>2
<1> QED BY <1>1, <1>2 DEF LessBytes

\* What a three-way comparison promises.
Compares(cmp, same, less, more) ==
    \/ same /\ cmp = 0
    \/ less /\ cmp \in Int /\ cmp < 0
    \/ more /\ cmp \in Int /\ cmp > 0

LEMMA CompareBytesIs ==
    ASSUME NEW x \in Seq(Nat), NEW y \in Seq(Nat)
    PROVE  Compares(CompareBytes(x, y), x = y, LessBytes(x, y), LessBytes(y, x))
<1> DEFINE common == IF Len(x) < Len(y) THEN Len(x) ELSE Len(y)
           differ == {i \in 1..common : x[i] # y[i]}
<1>0. /\ Len(x) \in Nat /\ Len(y) \in Nat
      /\ common \in Nat /\ common <= Len(x) /\ common <= Len(y)
      /\ common = Len(x) \/ common = Len(y)
      /\ \A i \in 1..common : x[i] \in Nat /\ y[i] \in Nat
  OBVIOUS
<1> HIDE DEF common
<1>1. CASE differ # {}
  <2>1. differ \subseteq Nat
    OBVIOUS
  <2>3. PICK i : i = FirstOf(differ)
    OBVIOUS
  <2>4. i \in differ /\ \A j \in differ : i <= j
    <3> HIDE DEF differ
    <3> QED BY <1>1, <2>1, <2>3, FirstOfIs
  <2>5. CompareBytes(x, y) = x[i] - y[i]
    BY <1>1, <2>3 DEF CompareBytes, common
  <2>6. /\ i \in 1..common /\ x[i] # y[i] /\ x[i] \in Nat /\ y[i] \in Nat
        /\ \A j \in 1..i - 1 : x[j] = y[j]
    BY <1>0, <2>4
  <2>7. AgreeUpTo(x, y, i) /\ AgreeUpTo(y, x, i) /\ i <= Len(x) /\ i <= Len(y) /\ i \in Nat
    <3>1. i \in 1..Len(x) /\ i \in 1..Len(y) /\ i \in Nat
      <4>1. i \in 1..common /\ common \in Nat /\ common <= Len(x) /\ common <= Len(y)
        BY <1>0, <2>6
      <4>2. Len(x) \in Nat /\ Len(y) \in Nat
        BY <1>0
      <4> QED BY <4>1, <4>2
    <3>2. i \in 1..Len(x) + 1 /\ i \in 1..Len(y) + 1
      BY <1>0, <3>1
    <3> QED BY <1>0, <2>6, <3>1, <3>2 DEF AgreeUpTo
  <2>8. CASE x[i] < y[i]
    <3>1. LessBytes(x, y)
      BY <2>7, <2>8 DEF LessBytes, SmallerAt
    <3> QED BY <2>5, <2>6, <2>8, <3>1 DEF Compares
  <2>9. CASE y[i] < x[i]
    <3>1. LessBytes(y, x)
      BY <2>7, <2>9 DEF LessBytes, SmallerAt
    <3> QED BY <2>5, <2>6, <2>9, <3>1 DEF Compares
  <2> QED BY <2>6, <2>8, <2>9
<1>2. CASE differ = {}
  <2>1. CompareBytes(x, y) = Len(x) - Len(y)
    BY <1>2 DEF CompareBytes, common
  <2>2. \A i \in 1..common : x[i] = y[i]
    BY <1>2
  <2>3. CASE Len(x) = Len(y)
    <3>1. x = y
      <4>1. \A i \in 1..Len(x) : x[i] = y[i]
        BY <1>0, <2>2, <2>3
      <4> QED BY <2>3, <4>1, SeqEqual
    <3> QED BY <1>0, <2>1, <2>3, <3>1 DEF Compares
  <2>4. CASE Len(x) < Len(y)
    <3>1. common = Len(x)
      BY <1>0, <2>4
    <3>2. AgreeUpTo(x, y, Len(x) + 1)
      BY <1>0, <2>2, <2>4, <3>1 DEF AgreeUpTo
    <3>3. LessBytes(x, y)
      <4>1. SmallerAt(x, y, Len(x) + 1)
        BY <1>0, <2>4, <3>2 DEF SmallerAt
      <4> QED BY <1>0, <4>1 DEF LessBytes
    <3> QED BY <1>0, <2>1, <2>4, <3>3 DEF Compares
  <2>5. CASE Len(y) < Len(x)
    <3>1. common = Len(y)
      BY <1>0, <2>5
    <3>2. AgreeUpTo(y, x, Len(y) + 1)
      BY <1>0, <2>2, <2>5, <3>1 DEF AgreeUpTo
    <3>3. LessBytes(y, x)
      <4>1. SmallerAt(y, x, Len(y) + 1)
        BY <1>0, <2>5, <3>2 DEF SmallerAt
      <4> QED BY <1>0, <4>1 DEF LessBytes
    <3> QED BY <1>0, <2>1, <2>5, <3>3 DEF Compares
  <2> QED BY <1>0, <2>3, <2>4, <2>5
<1> QED BY <1>1, <1>2

\* The comparison that decides.
LEMMA FirstNonZeroIs ==
    ASSUME NEW n \in Nat, NEW cmps \in Seq(Int), Len(cmps) = n
    PROVE  \/ FirstNonZero(cmps) = 0 /\ \A i \in 1..n : cmps[i] = 0
           \/ \E i \in 1..n : /\ FirstNonZero(cmps) = cmps[i] /\ cmps[i] # 0
                              /\ \A j \in 1..n : j < i => cmps[j] = 0
<1> DEFINE hits == {i \in 1..Len(cmps) : cmps[i] # 0}
<1>1. CASE hits = {}
  BY <1>1 DEF FirstNonZero
<1>2. CASE hits # {}
  <2>1. hits \subseteq Nat
    OBVIOUS
  <2>2. PICK i : i = FirstOf(hits)
    OBVIOUS
  <2>3. i \in hits /\ \A j \in hits : i <= j
    <3> HIDE DEF hits
    <3> QED BY <1>2, <2>1, <2>2, FirstOfIs
  <2>4. FirstNonZero(cmps) = cmps[i]
    BY <1>2, <2>2 DEF FirstNonZero
  <2>5. i \in 1..n /\ cmps[i] # 0 /\ \A j \in 1..n : j < i => cmps[j] = 0
    BY <2>3
  <2> QED BY <2>4, <2>5
<1> QED BY <1>1, <1>2

LEMMA FirstOfThree ==
    ASSUME NEW a \in Int, NEW b \in Int, NEW c \in Int
    PROVE  FirstNonZero(<<a>> \o <<b, c>>)
             = IF a # 0 THEN a ELSE IF b # 0 THEN b ELSE c
<1>1. PICK s : s = <<a>> \o <<b, c>>
  OBVIOUS
<1>2. s \in Seq(Int) /\ Len(s) = 3 /\ s[1] = a /\ s[2] = b /\ s[3] = c
  BY <1>1
<1>3. \/ FirstNonZero(s) = 0 /\ \A i \in 1..3 : s[i] = 0
      \/ \E i \in 1..3 : /\ FirstNonZero(s) = s[i] /\ s[i] # 0
                         /\ \A j \in 1..3 : j < i => s[j] = 0
  BY <1>2, FirstNonZeroIs
<1>4. 1 \in 1..3 /\ 2 \in 1..3 /\ 3 \in 1..3 /\ \A i \in 1..3 : i = 1 \/ i = 2 \/ i = 3
  OBVIOUS
<1> QED BY <1>1, <1>2, <1>3, <1>4

LEMMA FirstOfFour ==
    ASSUME NEW a \in Int, NEW b \in Int, NEW c \in Int, NEW d \in Int
    PROVE  FirstNonZero(<<a>> \o <<b, c, d>>)
             = IF a # 0 THEN a ELSE IF b # 0 THEN b ELSE IF c # 0 THEN c ELSE d
<1>1. PICK s : s = <<a>> \o <<b, c, d>>
  OBVIOUS
<1>2. s \in Seq(Int) /\ Len(s) = 4 /\ s[1] = a /\ s[2] = b /\ s[3] = c /\ s[4] = d
  BY <1>1
<1>3. \/ FirstNonZero(s) = 0 /\ \A i \in 1..4 : s[i] = 0
      \/ \E i \in 1..4 : /\ FirstNonZero(s) = s[i] /\ s[i] # 0
                         /\ \A j \in 1..4 : j < i => s[j] = 0
  BY <1>2, FirstNonZeroIs
<1>4. /\ 1 \in 1..4 /\ 2 \in 1..4 /\ 3 \in 1..4 /\ 4 \in 1..4
      /\ \A i \in 1..4 : i = 1 \/ i = 2 \/ i = 3 \/ i = 4
  OBVIOUS
<1> QED BY <1>1, <1>2, <1>3, <1>4

LEMMA RankOfKind ==
    ASSUME NEW k \in Kinds
    PROVE  KindRank(k) \in 1..Len(KindOrder) /\ KindOrder[KindRank(k)] = k
BY DEF Kinds, KindRank

\* Views as the keys of entries are.
Views == {view \in KeyView : HasItsTexts(view)}

LessView(x, y) ==
    \/ KindRank(x.kind) < KindRank(y.kind)
    \/ /\ x.kind = y.kind
       /\ IF x.kind \in NumberFirst
          THEN LessBytes(x.nums, y.nums) \/ (x.nums = y.nums /\ LessBytes(x.first, y.first))
          ELSE \/ LessBytes(x.first, y.first)
               \/ x.first = y.first /\ LessBytes(x.second, y.second)
               \/ x.first = y.first /\ x.second = y.second /\ LessBytes(x.nums, y.nums)

LEMMA ViewParts ==
    ASSUME NEW x \in Views
    PROVE  /\ x.kind \in Kinds /\ KindRank(x.kind) \in Int
           /\ x.nums \in Seq(Nat) /\ x.first \in Seq(Nat) /\ x.second \in Seq(Nat)
           /\ x.kind \in NumberFirst => x.second = <<>>
           /\ x = [kind |-> x.kind, nums |-> x.nums, first |-> x.first, second |-> x.second]
<1>1. x \in KeyView /\ HasItsTexts(x)
  BY DEF Views
<1>2. x.kind \in Kinds /\ x.nums \in Seq(Nat) /\ x.first \in Seq(Bytes) /\ x.second \in Seq(Bytes)
      /\ x = [kind |-> x.kind, nums |-> x.nums, first |-> x.first, second |-> x.second]
  BY <1>1 DEF KeyView
<1>3. Seq(Bytes) \subseteq Seq(Nat)
  <2> SUFFICES ASSUME NEW s \in Seq(Bytes) PROVE s \in Seq(Nat)
    OBVIOUS
  <2>1. Len(s) \in Nat /\ s \in [1..Len(s) -> Bytes]
    OBVIOUS
  <2>2. s \in [1..Len(s) -> Nat]
    BY <2>1, BytesAssumption
  <2> QED BY <2>1, <2>2
<1>4. KindRank(x.kind) \in Int
  <2>1. KindRank(x.kind) \in 1..Len(KindOrder)
    BY <1>2, RankOfKind
  <2>2. Len(KindOrder) = 15
    BY DEF KindOrder
  <2> QED BY <2>1, <2>2
<1>5. x.kind \in NumberFirst => x.second = <<>>
  <2>1. x.kind \in NumberFirst => TextCount(x.kind) = 1
    BY DEF TextCount, NumberFirst
  <2> QED BY <1>1, <2>1 DEF HasItsTexts
<1> QED BY <1>2, <1>3, <1>4, <1>5

LEMMA LessViewOrder ==
    ASSUME NEW x \in Views, NEW y \in Views, NEW z \in Views
    PROVE  ~LessView(x, x) /\ (LessView(x, y) /\ LessView(y, z) => LessView(x, z))
<1> DEFINE Parts(u) == /\ KindRank(u.kind) \in Int /\ u.nums \in Seq(Nat)
                       /\ u.first \in Seq(Nat) /\ u.second \in Seq(Nat)
<1>1. Parts(x) /\ Parts(y) /\ Parts(z)
  BY ViewParts
<1>2. ~LessBytes(x.nums, x.nums) /\ ~LessBytes(x.first, x.first)
      /\ ~LessBytes(x.second, x.second)
  BY <1>1, LessBytesOrder
<1>3. /\ LessBytes(x.nums, y.nums) /\ LessBytes(y.nums, z.nums) => LessBytes(x.nums, z.nums)
      /\ LessBytes(x.first, y.first) /\ LessBytes(y.first, z.first)
           => LessBytes(x.first, z.first)
      /\ LessBytes(x.second, y.second) /\ LessBytes(y.second, z.second)
           => LessBytes(x.second, z.second)
  BY <1>1, LessBytesOrder
<1>4. ~LessView(x, x)
  BY <1>1, <1>2 DEF LessView
<1>5. ASSUME LessView(x, y), LessView(y, z) PROVE LessView(x, z)
  <2>1. CASE KindRank(x.kind) < KindRank(y.kind)
    <3>1. KindRank(y.kind) < KindRank(z.kind) \/ y.kind = z.kind
      BY <1>5 DEF LessView
    <3>2. KindRank(x.kind) < KindRank(z.kind)
      BY <1>1, <2>1, <3>1
    <3> QED BY <3>2 DEF LessView
  <2>2. CASE KindRank(y.kind) < KindRank(z.kind) /\ x.kind = y.kind
    BY <2>2 DEF LessView
  <2>3. CASE x.kind = y.kind /\ y.kind = z.kind
    BY <1>1, <1>3, <1>5, <2>3 DEF LessView
  <2> QED BY <1>5, <2>1, <2>2, <2>3 DEF LessView
<1> QED BY <1>4, <1>5

\* compare_key(): zero only for equal keys, and its sign is that of an order.
LEMMA CompareViewsIs ==
    ASSUME NEW x \in Views, NEW y \in Views
    PROVE  Compares(CompareViews(x, y), x = y, LessView(x, y), LessView(y, x))
<1> DEFINE k == KindRank(x.kind) - KindRank(y.kind)
           numbers == CompareBytes(x.nums, y.nums)
           first == CompareBytes(x.first, y.first)
           second == CompareBytes(x.second, y.second)
<1>1. /\ x.kind \in Kinds /\ y.kind \in Kinds
      /\ KindRank(x.kind) \in Int /\ KindRank(y.kind) \in Int /\ k \in Int
      /\ x.kind \in NumberFirst => x.second = <<>>
      /\ y.kind \in NumberFirst => y.second = <<>>
  BY ViewParts
<1>2. k = 0 => x.kind = y.kind
  BY <1>1, RankOfKind
<1>3. /\ Compares(numbers, x.nums = y.nums, LessBytes(x.nums, y.nums), LessBytes(y.nums, x.nums))
      /\ Compares(first, x.first = y.first, LessBytes(x.first, y.first),
                  LessBytes(y.first, x.first))
      /\ Compares(second, x.second = y.second, LessBytes(x.second, y.second),
                  LessBytes(y.second, x.second))
  BY ViewParts, CompareBytesIs
<1>4. numbers \in Int /\ first \in Int /\ second \in Int
  BY <1>3 DEF Compares
<1>5. x.kind = y.kind /\ x.nums = y.nums /\ x.first = y.first /\ x.second = y.second => x = y
  BY ViewParts
<1>6. CompareViews(x, y) = IF x.kind \in NumberFirst
                           THEN FirstNonZero(<<k>> \o <<numbers, first>>)
                           ELSE FirstNonZero(<<k>> \o <<first, second, numbers>>)
  BY DEF CompareViews
<1> HIDE DEF k, numbers, first, second
<1>7. CASE x.kind \in NumberFirst
  <2>1. CompareViews(x, y) = IF k # 0 THEN k ELSE IF numbers # 0 THEN numbers ELSE first
    BY <1>1, <1>4, <1>6, <1>7, FirstOfThree
  <2>2. CASE k # 0
    <3>1. k < 0 => KindRank(x.kind) < KindRank(y.kind)
      BY <1>1 DEF k
    <3>2. k > 0 => KindRank(y.kind) < KindRank(x.kind)
      BY <1>1 DEF k
    <3> QED BY <1>1, <2>1, <2>2, <3>1, <3>2 DEF Compares, LessView
  <2>3. CASE k = 0
    <3>1. x.kind = y.kind /\ x.second = y.second
      BY <1>1, <1>2, <1>7, <2>3
    <3>2. CompareViews(x, y) = IF numbers # 0 THEN numbers ELSE first
      BY <2>1, <2>3
    <3> QED BY <1>3, <1>4, <1>5, <1>7, <3>1, <3>2 DEF Compares, LessView
  <2> QED BY <2>2, <2>3
<1>8. CASE x.kind \notin NumberFirst
  <2>1. CompareViews(x, y) = IF k # 0 THEN k ELSE IF first # 0 THEN first
                             ELSE IF second # 0 THEN second ELSE numbers
    BY <1>1, <1>4, <1>6, <1>8, FirstOfFour
  <2>2. CASE k # 0
    <3>1. k < 0 => KindRank(x.kind) < KindRank(y.kind)
      BY <1>1 DEF k
    <3>2. k > 0 => KindRank(y.kind) < KindRank(x.kind)
      BY <1>1 DEF k
    <3> QED BY <1>1, <2>1, <2>2, <3>1, <3>2 DEF Compares, LessView
  <2>3. CASE k = 0
    <3>1. x.kind = y.kind
      BY <1>2, <2>3
    <3>2. CompareViews(x, y) = IF first # 0 THEN first
                               ELSE IF second # 0 THEN second ELSE numbers
      BY <2>1, <2>3
    <3> QED BY <1>3, <1>4, <1>5, <1>8, <3>1, <3>2 DEF Compares, LessView
  <2> QED BY <2>2, <2>3
<1> QED BY <1>7, <1>8

KeyOrder(rows) ==
    {p \in Live(rows) \X Live(rows) : LessByKey(rows, p[1], p[2])}

LEMMA LiveKeys ==
    ASSUME NEW rows, RowsOK(rows), NEW id \in Live(rows)
    PROVE  rows[id + 1].key \in Views /\ id \in Nat
BY LiveIds DEF Views

LEMMA LessByKeyIs ==
    ASSUME NEW rows, RowsOK(rows), NEW a \in Live(rows), NEW b \in Live(rows)
    PROVE  LessByKey(rows, a, b)
             <=> \/ LessView(rows[a + 1].key, rows[b + 1].key)
                 \/ rows[a + 1].key = rows[b + 1].key /\ a < b
<1> PICK x, y : x = rows[a + 1].key /\ y = rows[b + 1].key
  OBVIOUS
<1>1. x \in Views /\ y \in Views
  BY LiveKeys
<1>2. Compares(CompareViews(x, y), x = y, LessView(x, y), LessView(y, x))
  BY <1>1, CompareViewsIs
<1>3. ~LessView(x, x) /\ ~(LessView(x, y) /\ LessView(y, x))
  BY <1>1, LessViewOrder
<1>4. LessByKey(rows, a, b) <=> CompareViews(x, y) < 0 \/ (CompareViews(x, y) = 0 /\ a < b)
  BY DEF LessByKey
<1>5. CASE x = y
  BY <1>2, <1>3, <1>4, <1>5 DEF Compares
<1>6. CASE LessView(x, y)
  BY <1>2, <1>3, <1>4, <1>6 DEF Compares
<1>7. CASE LessView(y, x)
  BY <1>2, <1>3, <1>4, <1>7 DEF Compares
<1> QED BY <1>2, <1>5, <1>6, <1>7 DEF Compares

LEMMA KeyOrderStrict ==
    ASSUME NEW rows, RowsOK(rows)
    PROVE  StrictlyOrders(KeyOrder(rows), Live(rows))
<1> DEFINE ids == Live(rows)
           less(a, b) == \/ LessView(rows[a + 1].key, rows[b + 1].key)
                         \/ rows[a + 1].key = rows[b + 1].key /\ a < b
<1>0. \A a \in ids : a \in Nat /\ rows[a + 1].key \in Views
  BY LiveKeys
<1>1. \A a, b \in ids : <<a, b>> \in KeyOrder(rows) <=> less(a, b)
  BY LessByKeyIs DEF KeyOrder
<1>2. \A a \in ids : ~less(a, a)
  BY <1>0, LessViewOrder
<1>3. ASSUME NEW a \in ids, NEW b \in ids, a # b PROVE less(a, b) \/ less(b, a)
  <2>1. Compares(CompareViews(rows[a + 1].key, rows[b + 1].key),
                 rows[a + 1].key = rows[b + 1].key,
                 LessView(rows[a + 1].key, rows[b + 1].key),
                 LessView(rows[b + 1].key, rows[a + 1].key))
    BY <1>0, CompareViewsIs
  <2>2. a \in Nat /\ b \in Nat
    BY <1>0
  <2>3. a < b \/ b < a
    BY <1>3, <2>2
  <2> QED BY <2>1, <2>3 DEF Compares
<1>4. ASSUME NEW a \in ids, NEW b \in ids, NEW c \in ids, less(a, b), less(b, c)
      PROVE  less(a, c)
  <2>1. LessView(rows[a + 1].key, rows[b + 1].key) /\ LessView(rows[b + 1].key, rows[c + 1].key)
          => LessView(rows[a + 1].key, rows[c + 1].key)
    BY <1>0, LessViewOrder
  <2>2. a \in Nat /\ b \in Nat /\ c \in Nat
    BY <1>0
  <2>3. a < b /\ b < c => a < c
    BY <2>2
  <2> QED BY <1>4, <2>1, <2>3
<1> HIDE DEF less
<1> QED BY <1>1, <1>2, <1>3, <1>4 DEF StrictlyOrders

\* byKey as finalize() leaves it.
LEMMA SortedByKey ==
    ASSUME NEW rows, RowsOK(rows)
    PROVE  Sorts(SortIdsByKey(rows), Live(rows), KeyOrder(rows))
<1>1. SortIdsByKey(rows) = Sorted(Live(rows), KeyOrder(rows))
  BY DEF SortIdsByKey, KeyOrder
<1> QED BY <1>1, LiveIds, KeyOrderStrict, SortedSorts

-----------------------------------------------------------------------------
(* The runs of equal keys.                                                  *)

\* The loop's runs after each turn.
IsRuns(rows, s, n, f) ==
    f = [i \in 0..n |-> IF i = 0 THEN <<>> ELSE AddToRuns(rows, s, f[i - 1], i)]
HasRuns(rows, s, n) == \E f : IsRuns(rows, s, n, f)

LEMMA RunsExist ==
    ASSUME NEW rows, NEW s, NEW n \in Nat
    PROVE  HasRuns(rows, s, n)
<1> DEFINE S == {m \in Nat : HasRuns(rows, s, m)}
<1>1. 0 \in S
  <2>1. PICK f : f = [i \in 0..0 |-> <<>>]
    OBVIOUS
  <2>2. IsRuns(rows, s, 0, f)
    <3>1. \A i \in 0..0 : i = 0
      OBVIOUS
    <3> QED BY <2>1, <3>1 DEF IsRuns
  <2> QED BY <2>2 DEF HasRuns
<1>2. ASSUME NEW m \in Nat, m \in S PROVE m + 1 \in S
  <2>1. PICK f : IsRuns(rows, s, m, f)
    BY <1>2 DEF HasRuns
  <2>2. PICK g : g = [i \in 0..m + 1 |-> IF i = m + 1 THEN AddToRuns(rows, s, f[m], i) ELSE f[i]]
    OBVIOUS
  <2>3. \A i \in 0..m : g[i] = f[i]
    BY <2>2
  <2>4. ASSUME NEW i \in 0..m + 1
        PROVE  g[i] = IF i = 0 THEN <<>> ELSE AddToRuns(rows, s, g[i - 1], i)
    <3>1. CASE i = m + 1
      <4>1. i # 0 /\ i - 1 = m /\ m \in 0..m
        BY <3>1
      <4> QED BY <2>2, <2>3, <3>1, <4>1
    <3>2. CASE i # m + 1
      <4>1. i \in 0..m /\ (i # 0 => i - 1 \in 0..m)
        BY <3>2
      <4>2. f[i] = IF i = 0 THEN <<>> ELSE AddToRuns(rows, s, f[i - 1], i)
        BY <2>1, <4>1 DEF IsRuns
      <4> QED BY <2>3, <4>1, <4>2
    <3> QED BY <3>1, <3>2
  <2>5. g = [i \in 0..m + 1 |-> g[i]]
    BY <2>2
  <2>6. IsRuns(rows, s, m + 1, g)
    BY <2>4, <2>5 DEF IsRuns
  <2>7. HasRuns(rows, s, m + 1)
    BY <2>6 DEF HasRuns
  <2> QED BY <2>7
<1> HIDE DEF S
<1>3. n \in S
  BY <1>1, <1>2, Induction
<1> QED BY <1>3 DEF S

KeyOf(rows, id) == rows[id + 1].key

Run == [start : Nat, count : Nat, repr : Nat]

\* A run covers places of one key, and is named by the first of them.
IsRun(rows, s, run, i) ==
    /\ run.count >= 1 /\ run.start + run.count <= i
    /\ run.repr = s[run.start + 1]
    /\ \A p \in run.start + 1..run.start + run.count : KeyOf(rows, s[p]) = KeyOf(rows, run.repr)

\* The runs of the first i places: each place is in one, and the keys ascend.
RunsOK(rows, s, R, i) ==
    /\ R \in Seq(Run)
    /\ \A k \in 1..Len(R) : IsRun(rows, s, R[k], i)
    /\ \A k, l \in 1..Len(R) : k < l => LessView(KeyOf(rows, R[k].repr), KeyOf(rows, R[l].repr))
    /\ \A p \in 1..i : \E k \in 1..Len(R) : p \in R[k].start + 1..R[k].start + R[k].count
    /\ i > 0 => R # <<>> /\ R[Len(R)].start + R[Len(R)].count = i

LEMMA SortedKeys ==
    ASSUME NEW rows, RowsOK(rows), NEW s, Sorts(s, Live(rows), KeyOrder(rows)),
           NEW i \in 1..Len(s)
    PROVE  /\ s \in Seq(Nat) /\ Len(s) \in Nat
           /\ s[i] \in Live(rows) /\ s[i] \in Nat /\ KeyOf(rows, s[i]) \in Views
           /\ \A j \in 1..Len(s) : i < j => \/ LessView(KeyOf(rows, s[i]), KeyOf(rows, s[j]))
                                            \/ KeyOf(rows, s[i]) = KeyOf(rows, s[j])
<1>1. s \in Seq(Live(rows)) /\ Len(s) \in Nat
  BY DEF Sorts
<1>2. \A j \in 1..Len(s) : s[j] \in Live(rows) /\ s[j] \in Nat
  BY <1>1, LiveIds
<1>3. s \in Seq(Nat)
  <2>1. s \in [1..Len(s) -> Nat]
    BY <1>1, <1>2
  <2> QED BY <1>1, <2>1
<1>4. KeyOf(rows, s[i]) \in Views
  BY <1>2, LiveKeys DEF KeyOf
<1>5. ASSUME NEW j \in 1..Len(s), i < j
      PROVE  \/ LessView(KeyOf(rows, s[i]), KeyOf(rows, s[j]))
             \/ KeyOf(rows, s[i]) = KeyOf(rows, s[j])
  <2>1. <<s[i], s[j]>> \in KeyOrder(rows)
    BY <1>5 DEF Sorts
  <2>2. LessByKey(rows, s[i], s[j])
    BY <2>1 DEF KeyOrder
  <2> QED BY <1>2, <2>2, LessByKeyIs DEF KeyOf
<1> QED BY <1>1, <1>2, <1>3, <1>4, <1>5

\* A turn that makes the last run longer.
LEMMA LongerRun ==
    ASSUME NEW rows, NEW s \in Seq(Nat), NEW i \in 1..Len(s), NEW R, RunsOK(rows, s, R, i - 1),
           NEW m \in Nat \ {0}, m = Len(R), KeyOf(rows, R[m].repr) = KeyOf(rows, s[i]),
           NEW Q \in Seq(Run), Len(Q) = m, \A k \in 1..m : k # m => Q[k] = R[k],
           Q[m].start = R[m].start, Q[m].repr = R[m].repr, Q[m].count = R[m].count + 1
    PROVE  RunsOK(rows, s, Q, i)
<1>0. i \in Nat /\ i - 1 \in Nat /\ i > 0
  OBVIOUS
<1>1. m \in 1..m /\ \A k \in 1..m : R[k] \in Run
  BY DEF RunsOK
<1>2. PICK a, c, r : a = R[m].start /\ c = R[m].count /\ r = R[m].repr
  OBVIOUS
<1>3. a \in Nat /\ c \in Nat
  <2>1. R[m] \in Run
    BY <1>1
  <2> QED BY <1>2, <2>1 DEF Run
<1>4. Q[m].start = a /\ Q[m].count = c + 1 /\ Q[m].repr = r
  BY <1>2
<1>5. IsRun(rows, s, R[m], i - 1)
  BY <1>1 DEF RunsOK
<1>6. /\ c >= 1 /\ a + c <= i - 1 /\ r = s[a + 1]
      /\ \A p \in a + 1..a + c : KeyOf(rows, s[p]) = KeyOf(rows, r)
  BY <1>2, <1>5 DEF IsRun
<1>7. a + c = i - 1
  <2>1. i - 1 > 0
    BY <1>0, <1>3, <1>6
  <2> QED BY <1>0, <1>2, <2>1 DEF RunsOK
<1>8. KeyOf(rows, s[i]) = KeyOf(rows, r)
  BY <1>2
<1>9. \A p \in a + 1..a + (c + 1) : p = i \/ p \in a + 1..a + c
  BY <1>0, <1>3, <1>7
<1>10. a + (c + 1) = i /\ c + 1 >= 1
  BY <1>0, <1>3, <1>7
<1>11. ASSUME NEW k \in 1..m PROVE IsRun(rows, s, Q[k], i)
  <2>1. CASE k # m
    <3>1. IsRun(rows, s, R[k], i - 1) /\ R[k] \in Run
      BY <1>1 DEF RunsOK
    <3>2. R[k].start + R[k].count <= i - 1 /\ R[k].start \in Nat /\ R[k].count \in Nat
      BY <3>1 DEF IsRun, Run
    <3>3. R[k].start + R[k].count <= i
      BY <1>0, <3>2
    <3> QED BY <2>1, <3>1, <3>3 DEF IsRun
  <2>2. CASE k = m
    <3>1. \A p \in a + 1..a + (c + 1) : KeyOf(rows, s[p]) = KeyOf(rows, r)
      BY <1>6, <1>8, <1>9
    <3>2. a + (c + 1) <= i
      BY <1>0, <1>10
    <3> QED BY <1>4, <1>6, <1>10, <2>2, <3>1, <3>2 DEF IsRun
  <2> QED BY <2>1, <2>2
<1>12. \A k \in 1..m : Q[k].repr = R[k].repr
  OBVIOUS
<1>13. ASSUME NEW k \in 1..m, NEW l \in 1..m, k < l
       PROVE  LessView(KeyOf(rows, Q[k].repr), KeyOf(rows, Q[l].repr))
  <2>1. LessView(KeyOf(rows, R[k].repr), KeyOf(rows, R[l].repr))
    BY <1>13 DEF RunsOK
  <2> QED BY <1>12, <2>1
<1>14. ASSUME NEW p \in 1..i
       PROVE  \E k \in 1..m : p \in Q[k].start + 1..Q[k].start + Q[k].count
  <2>1. CASE p \in a + 1..a + (c + 1)
    BY <1>1, <1>4, <2>1
  <2>2. CASE p \notin a + 1..a + (c + 1)
    <3>1. p \in 1..i - 1 /\ p \notin a + 1..a + c
      BY <1>0, <1>3, <1>7, <2>2
    <3>2. PICK k \in 1..m : p \in R[k].start + 1..R[k].start + R[k].count
      BY <3>1 DEF RunsOK
    <3>3. k # m
      BY <1>2, <3>1, <3>2
    <3> QED BY <3>2, <3>3
  <2> QED BY <2>1, <2>2
<1>15. Q # <<>> /\ Q[Len(Q)].start + Q[Len(Q)].count = i
  BY <1>4, <1>10
<1> QED BY <1>11, <1>13, <1>14, <1>15 DEF RunsOK

\* A turn that opens a run.
LEMMA NewRun ==
    ASSUME NEW rows, NEW s \in Seq(Nat), NEW i \in 1..Len(s), NEW R, RunsOK(rows, s, R, i - 1),
           \A k \in 1..Len(R) : LessView(KeyOf(rows, R[k].repr), KeyOf(rows, s[i])),
           NEW Q, Q = Append(R, [start |-> i - 1, count |-> 1, repr |-> s[i]])
    PROVE  RunsOK(rows, s, Q, i)
<1> PICK m : m = Len(R)
  OBVIOUS
<1>0. i \in Nat /\ i - 1 \in Nat /\ i > 0 /\ s[i] \in Nat
  OBVIOUS
<1>1. m \in Nat /\ R \in Seq(Run) /\ \A k \in 1..m : R[k] \in Run
  BY DEF RunsOK
<1>2. PICK run : run = [start |-> i - 1, count |-> 1, repr |-> s[i]]
  OBVIOUS
<1>3. run \in Run /\ run.start = i - 1 /\ run.count = 1 /\ run.repr = s[i]
  BY <1>0, <1>2 DEF Run
<1>4. /\ Q \in Seq(Run) /\ Len(Q) = m + 1 /\ Q[m + 1] = run
      /\ \A k \in 1..m : Q[k] = R[k]
  BY <1>1, <1>2, <1>3
<1>5. \A k \in 1..m + 1 : k \in 1..m \/ k = m + 1
  BY <1>1
<1>6. \A k \in 1..m : R[k].start \in Nat /\ R[k].count \in Nat
  BY <1>1 DEF Run
<1>7. ASSUME NEW k \in 1..m + 1 PROVE IsRun(rows, s, Q[k], i)
  <2>1. CASE k \in 1..m
    <3>1. IsRun(rows, s, R[k], i - 1)
      BY <2>1 DEF RunsOK
    <3> QED BY <1>0, <1>4, <1>6, <2>1, <3>1 DEF IsRun
  <2>2. CASE k = m + 1
    <3>1. (i - 1) + 1 = i
      BY <1>0
    <3>2. \A p \in run.start + 1..run.start + run.count : p = i
      BY <1>0, <1>3
    <3> QED BY <1>0, <1>3, <1>4, <2>2, <3>1, <3>2 DEF IsRun
  <2> QED BY <1>5, <2>1, <2>2
<1>8. ASSUME NEW k \in 1..m + 1, NEW l \in 1..m + 1, k < l
      PROVE  LessView(KeyOf(rows, Q[k].repr), KeyOf(rows, Q[l].repr))
  <2>1. k \in 1..m
    BY <1>1, <1>8
  <2>2. CASE l \in 1..m
    BY <1>4, <1>8, <2>1, <2>2 DEF RunsOK
  <2>3. CASE l = m + 1
    BY <1>3, <1>4, <2>1, <2>3
  <2> QED BY <1>5, <2>2, <2>3
<1>9. ASSUME NEW p \in 1..i
      PROVE  \E k \in 1..m + 1 : p \in Q[k].start + 1..Q[k].start + Q[k].count
  <2>1. CASE p = i
    <3>1. p \in run.start + 1..run.start + run.count
      BY <1>0, <1>3, <2>1
    <3> QED BY <1>1, <1>4, <3>1
  <2>2. CASE p # i
    <3>1. p \in 1..i - 1
      BY <1>0, <2>2
    <3>2. PICK k \in 1..m : p \in R[k].start + 1..R[k].start + R[k].count
      BY <3>1 DEF RunsOK
    <3>3. k \in 1..m + 1
      BY <1>1
    <3> QED BY <1>4, <3>2, <3>3
  <2> QED BY <2>1, <2>2
<1>10. Q # <<>> /\ Q[Len(Q)].start + Q[Len(Q)].count = i
  BY <1>0, <1>1, <1>3, <1>4
<1> QED BY <1>4, <1>7, <1>8, <1>9, <1>10 DEF RunsOK

\* One turn of rebuild_key_index().
LEMMA AddToRunsOK ==
    ASSUME NEW rows, RowsOK(rows), NEW s, Sorts(s, Live(rows), KeyOrder(rows)),
           NEW i \in 1..Len(s), NEW R, RunsOK(rows, s, R, i - 1)
    PROVE  RunsOK(rows, s, AddToRuns(rows, s, R, i), i)
<1> PICK m : m = Len(R)
  OBVIOUS
<1>0. s \in Seq(Nat) /\ Len(s) \in Nat /\ i \in Nat /\ s[i] \in Nat
      /\ KeyOf(rows, s[i]) \in Views
  BY SortedKeys
<1>1. R \in Seq(Run) /\ m \in Nat
  BY DEF RunsOK
<1>2. \A k \in 1..m : R[k] \in Run /\ IsRun(rows, s, R[k], i - 1)
  BY <1>1 DEF RunsOK
\* The key of a run is that of a place before i.
<1>3. ASSUME NEW k \in 1..m
      PROVE  /\ KeyOf(rows, R[k].repr) \in Views
             /\ \/ LessView(KeyOf(rows, R[k].repr), KeyOf(rows, s[i]))
                \/ KeyOf(rows, R[k].repr) = KeyOf(rows, s[i])
  <2>1. PICK a, c : a = R[k].start /\ c = R[k].count
    OBVIOUS
  <2>2. a \in Nat /\ c \in Nat
    <3>1. R[k] \in Run
      BY <1>2
    <3> QED BY <2>1, <3>1 DEF Run
  <2>3. c >= 1 /\ a + c <= i - 1 /\ R[k].repr = s[a + 1]
    BY <1>2, <2>1 DEF IsRun
  <2>4. a + 1 \in 1..Len(s) /\ a + 1 < i
    <3>1. PICK n : n = Len(s)
      OBVIOUS
    <3>2. n \in Nat /\ i \in 1..n
      BY <1>0, <3>1
    <3>3. a + 1 \in 1..n /\ a + 1 < i
      BY <2>2, <2>3, <3>2
    <3> QED BY <3>1, <3>3
  <2> QED BY <2>3, <2>4, SortedKeys
<1>4. CASE R # <<>> /\ CompareViews(KeyOf(rows, R[m].repr), KeyOf(rows, s[i])) = 0
  <2>1. m # 0 /\ m \in 1..m
    BY <1>1, <1>4
  <2>2. KeyOf(rows, R[m].repr) = KeyOf(rows, s[i])
    <3>1. KeyOf(rows, R[m].repr) \in Views
      BY <1>3, <2>1
    <3>2. Compares(CompareViews(KeyOf(rows, R[m].repr), KeyOf(rows, s[i])),
                   KeyOf(rows, R[m].repr) = KeyOf(rows, s[i]),
                   LessView(KeyOf(rows, R[m].repr), KeyOf(rows, s[i])),
                   LessView(KeyOf(rows, s[i]), KeyOf(rows, R[m].repr)))
      BY <1>0, <3>1, CompareViewsIs
    <3> QED BY <1>4, <3>2 DEF Compares
  <2>3. PICK r, last, Q : r = R[m] /\ last = [r EXCEPT !.count = @ + 1]
                          /\ Q = [R EXCEPT ![m] = last]
    OBVIOUS
  <2>4. r \in Run
    BY <1>2, <2>1, <2>3
  <2>5. last \in Run /\ last.start = r.start /\ last.repr = r.repr /\ last.count = r.count + 1
    BY <2>3, <2>4 DEF Run
  <2>6. /\ Q \in Seq(Run) /\ Len(Q) = m /\ Q[m] = last
        /\ \A k \in 1..m : k # m => Q[k] = R[k]
    BY <1>1, <2>1, <2>3, <2>5
  <2>7. Q[m].start = R[m].start /\ Q[m].repr = R[m].repr /\ Q[m].count = R[m].count + 1
    BY <2>3, <2>5, <2>6
  <2>8. RunsOK(rows, s, Q, i)
    BY <1>0, <1>1, <2>1, <2>2, <2>6, <2>7, LongerRun
  <2>9. AddToRuns(rows, s, R, i) = [R EXCEPT ![m].count = @ + 1]
    BY <1>4 DEF AddToRuns, KeyOf
  <2>10. AddToRuns(rows, s, R, i) = Q
    BY <2>3, <2>9
  <2> QED BY <2>8, <2>10
<1>5. CASE ~(R # <<>> /\ CompareViews(KeyOf(rows, R[m].repr), KeyOf(rows, s[i])) = 0)
  <2>1. AddToRuns(rows, s, R, i) = Append(R, [start |-> i - 1, count |-> 1, repr |-> s[i]])
    BY <1>5 DEF AddToRuns, KeyOf
  <2>2. ASSUME NEW k \in 1..m
        PROVE  LessView(KeyOf(rows, R[k].repr), KeyOf(rows, s[i]))
    <3>1. m \in 1..m /\ R # <<>>
      BY <1>1
    <3>2. LessView(KeyOf(rows, R[m].repr), KeyOf(rows, s[i]))
      <4>1. KeyOf(rows, R[m].repr) \in Views
        BY <1>3, <3>1
      <4>2. Compares(CompareViews(KeyOf(rows, R[m].repr), KeyOf(rows, s[i])),
                     KeyOf(rows, R[m].repr) = KeyOf(rows, s[i]),
                     LessView(KeyOf(rows, R[m].repr), KeyOf(rows, s[i])),
                     LessView(KeyOf(rows, s[i]), KeyOf(rows, R[m].repr)))
        BY <1>0, <4>1, CompareViewsIs
      <4>3. ~(LessView(KeyOf(rows, s[i]), KeyOf(rows, R[m].repr)))
        <5>1. LessView(KeyOf(rows, R[m].repr), KeyOf(rows, s[i]))
              \/ KeyOf(rows, R[m].repr) = KeyOf(rows, s[i])
          BY <1>3, <3>1
        <5>2. ~LessView(KeyOf(rows, s[i]), KeyOf(rows, s[i]))
          BY <1>0, LessViewOrder
        <5>3. ~(LessView(KeyOf(rows, R[m].repr), KeyOf(rows, s[i]))
                 /\ LessView(KeyOf(rows, s[i]), KeyOf(rows, R[m].repr)))
          BY <1>0, <4>1, LessViewOrder
        <5> QED BY <5>1, <5>2, <5>3
      <4> QED BY <1>5, <3>1, <4>2, <4>3 DEF Compares
    <3>3. CASE k = m
      BY <3>2, <3>3
    <3>4. CASE k # m
      <4>1. k < m
        BY <1>1, <3>4
      <4>2. LessView(KeyOf(rows, R[k].repr), KeyOf(rows, R[m].repr))
        BY <3>1, <4>1 DEF RunsOK
      <4>3. KeyOf(rows, R[k].repr) \in Views /\ KeyOf(rows, R[m].repr) \in Views
        BY <1>3, <3>1
      <4> QED BY <1>0, <3>2, <4>2, <4>3, LessViewOrder
    <3> QED BY <3>3, <3>4
  <2> QED BY <1>0, <2>1, <2>2, NewRun
<1> QED BY <1>4, <1>5

\* rebuild_key_index().
LEMMA KeyRunsOK ==
    ASSUME NEW rows, RowsOK(rows), NEW s, Sorts(s, Live(rows), KeyOrder(rows))
    PROVE  RunsOK(rows, s, KeyRuns(rows, s), Len(s))
<1> DEFINE n == Len(s)
           runs[i \in 0..n] == IF i = 0 THEN <<>> ELSE AddToRuns(rows, s, runs[i - 1], i)
           S == {m \in Nat : m \in 0..n => RunsOK(rows, s, runs[m], m)}
<1>0. n \in Nat
  BY DEF Sorts
<1>1. KeyRuns(rows, s) = runs[n]
  BY DEF KeyRuns
<1>2. runs = CHOOSE f : IsRuns(rows, s, n, f)
  BY DEF IsRuns
<1>3. IsRuns(rows, s, n, runs)
  <2> HIDE DEF runs
  <2> QED BY <1>0, <1>2, RunsExist DEF HasRuns
<1> HIDE DEF runs
<1>4. \A i \in 0..n : runs[i] = IF i = 0 THEN <<>> ELSE AddToRuns(rows, s, runs[i - 1], i)
  BY <1>3 DEF IsRuns
<1>5. 0 \in S
  <2>1. runs[0] = <<>>
    BY <1>0, <1>4
  <2>2. RunsOK(rows, s, <<>>, 0)
    BY DEF RunsOK
  <2> QED BY <2>1, <2>2
<1>6. ASSUME NEW m \in Nat, m \in S PROVE m + 1 \in S
  <2> SUFFICES ASSUME m + 1 \in 0..n PROVE RunsOK(rows, s, runs[m + 1], m + 1)
    OBVIOUS
  <2>1. m \in 0..n /\ m + 1 \in 1..n /\ (m + 1) - 1 = m /\ m + 1 # 0
    BY <1>0
  <2>2. PICK i : i = m + 1
    OBVIOUS
  <2>3. RunsOK(rows, s, runs[m], i - 1)
    BY <1>6, <2>1, <2>2
  <2>4. runs[i] = AddToRuns(rows, s, runs[m], i)
    BY <1>4, <2>1, <2>2
  <2>5. i \in 1..Len(s)
    BY <2>1, <2>2
  <2> HIDE DEF n
  <2>6. RunsOK(rows, s, AddToRuns(rows, s, runs[m], i), i)
    BY <2>3, <2>5, AddToRunsOK
  <2> QED BY <2>2, <2>4, <2>6
<1>7. n \in S
  <2> HIDE DEF S
  <2> QED BY <1>0, <1>5, <1>6, Induction
<1> QED BY <1>0, <1>1, <1>7

\* The loop of find_all() from each pair of ends.
IsSearch(rows, index, view, f) ==
    f = [at \in (0..Len(index.keySpans)) \X (0..Len(index.keySpans)) |->
            SearchRuns(rows, index, view, f, at)]

\* What the loop answers: the ids of the run of this key among those it still
\* looks at.
HasKey(rows, R, view, at) ==
    {k \in 1..Len(R) : at[1] < k /\ k <= at[2] /\ KeyOf(rows, R[k].repr) = view}
IdsOfRun(index, R, ks) ==
    IF ks = {} THEN <<>>
    ELSE LET k == CHOOSE k \in ks : TRUE
         IN  IdSpan(index.byKey, R[k].start, R[k].count)
Found(rows, index, R, view, at) == IdsOfRun(index, R, HasKey(rows, R, view, at))

\* The runs' keys ascend.
Ascending(rows, R, n) ==
    /\ \A k \in 1..n : KeyOf(rows, R[k].repr) \in Views
    /\ \A k, l \in 1..n : k < l => LessView(KeyOf(rows, R[k].repr), KeyOf(rows, R[l].repr))

\* The search answers right wherever fewer than d runs are left.
AnswersBelow(rows, index, R, view, n, f, d) ==
    \A a, b \in 0..n : b - a < d => f[<<a, b>>] = Found(rows, index, R, view, <<a, b>>)

\* Where the middle of a range of runs lies.
LEMMA Middle ==
    ASSUME NEW n \in Nat, NEW lo \in 0..n, NEW hi \in 0..n, lo < hi,
           NEW mid, mid = lo + (hi - lo) \div 2
    PROVE  mid \in 0..n /\ lo <= mid /\ mid < hi /\ mid + 1 \in 1..n /\ mid + 1 \in 0..n
OBVIOUS

\* One turn, when the rest of the search answers right.
LEMMA SearchTurn ==
    ASSUME NEW rows, NEW view \in Views, NEW n \in Nat, NEW R, Len(R) = n,
           Ascending(rows, R, n),
           NEW index, index.keySpans = R, NEW lo \in 0..n, NEW hi \in 0..n, NEW f,
           AnswersBelow(rows, index, R, view, n, f, hi - lo)
    PROVE  SearchRuns(rows, index, view, f, <<lo, hi>>) = Found(rows, index, R, view, <<lo, hi>>)
<1> DEFINE Has(a, b) == HasKey(rows, R, view, <<a, b>>)
<1>1. \A a, b : Has(a, b) = {k \in 1..n : a < k /\ k <= b /\ KeyOf(rows, R[k].repr) = view}
  BY DEF HasKey
<1>2. CASE lo >= hi
  <2>1. Has(lo, hi) = {}
    BY <1>1, <1>2
  <2>2. SearchRuns(rows, index, view, f, <<lo, hi>>) = <<>>
    BY <1>2 DEF SearchRuns
  <2> QED BY <2>1, <2>2 DEF Found, IdsOfRun
<1>3. CASE lo < hi
  <2> PICK mid : mid = lo + (hi - lo) \div 2
    OBVIOUS
  <2>1. mid \in 0..n /\ lo <= mid /\ mid < hi /\ mid + 1 \in 1..n /\ mid + 1 \in 0..n
    BY <1>3, Middle
  <2> PICK key, cmp : key = KeyOf(rows, R[mid + 1].repr) /\ cmp = CompareViews(view, key)
    OBVIOUS
  <2>2. SearchRuns(rows, index, view, f, <<lo, hi>>)
          = IF cmp = 0 THEN IdSpan(index.byKey, R[mid + 1].start, R[mid + 1].count)
            ELSE IF cmp < 0 THEN f[<<lo, mid>>] ELSE f[<<mid + 1, hi>>]
    <3>1. ~(lo >= hi)
      BY <1>3
    <3> QED BY <3>1 DEF SearchRuns, KeyOf
  <2>3. key \in Views /\ Compares(cmp, view = key, LessView(view, key), LessView(key, view))
    <3>1. key \in Views
      BY <2>1 DEF Ascending
    <3> QED BY <3>1, CompareViewsIs
  <2>4. \A k \in 1..n : mid + 1 < k => LessView(key, KeyOf(rows, R[k].repr))
    BY <2>1 DEF Ascending
  <2>5. \A k \in 1..n : k < mid + 1 => LessView(KeyOf(rows, R[k].repr), key)
    BY <2>1 DEF Ascending
  <2>6. CASE view = key
    <3>1. cmp = 0
      BY <2>3, <2>6, LessViewOrder DEF Compares
    <3>2. \A k \in 1..n : k # mid + 1 => KeyOf(rows, R[k].repr) # view
      <4> SUFFICES ASSUME NEW k \in 1..n, k # mid + 1, KeyOf(rows, R[k].repr) = view
                   PROVE  FALSE
        OBVIOUS
      <4>1. k < mid + 1 \/ mid + 1 < k
        BY <2>1
      <4>2. LessView(view, view)
        BY <2>4, <2>5, <2>6, <4>1
      <4> QED BY <4>2, LessViewOrder
    <3>3. mid + 1 \in Has(lo, hi)
      BY <1>1, <2>1, <2>6
    <3>4. Has(lo, hi) = {mid + 1}
      BY <1>1, <3>2, <3>3
    <3>5. Found(rows, index, R, view, <<lo, hi>>)
            = IdSpan(index.byKey, R[mid + 1].start, R[mid + 1].count)
      BY <3>4 DEF Found, IdsOfRun
    <3> QED BY <2>2, <3>1, <3>5
  <2>7. CASE LessView(view, key)
    <3>1. cmp < 0 /\ cmp # 0
      BY <2>3, <2>7, LessViewOrder DEF Compares
    <3>2. \A k \in 1..n : mid < k => KeyOf(rows, R[k].repr) # view
      <4> SUFFICES ASSUME NEW k \in 1..n, mid < k, KeyOf(rows, R[k].repr) = view
                   PROVE  FALSE
        OBVIOUS
      <4>1. k = mid + 1 \/ mid + 1 < k
        BY <2>1
      <4>2. key = view \/ LessView(key, view)
        BY <2>4, <4>1
      <4> QED BY <2>3, <2>7, <4>2, LessViewOrder
    <3>3. \A k \in 1..n : KeyOf(rows, R[k].repr) = view
                            => (lo < k /\ k <= hi <=> lo < k /\ k <= mid)
      BY <2>1, <3>2
    <3>4. Has(lo, hi) = Has(lo, mid)
      <4>1. /\ Has(lo, hi) = {k \in 1..n : lo < k /\ k <= hi /\ KeyOf(rows, R[k].repr) = view}
            /\ Has(lo, mid)
                 = {k \in 1..n : lo < k /\ k <= mid /\ KeyOf(rows, R[k].repr) = view}
        BY <1>1
      <4> HIDE DEF Has
      <4> QED BY <3>3, <4>1
    <3>5. Found(rows, index, R, view, <<lo, hi>>) = Found(rows, index, R, view, <<lo, mid>>)
      BY <3>4 DEF Found
    <3>6. f[<<lo, mid>>] = Found(rows, index, R, view, <<lo, mid>>)
      <4>1. mid - lo < hi - lo
        BY <2>1
      <4> QED BY <2>1, <4>1 DEF AnswersBelow
    <3> QED BY <2>2, <3>1, <3>5, <3>6
  <2>8. CASE LessView(key, view)
    <3>1. ~(cmp < 0) /\ cmp # 0
      BY <2>3, <2>8, LessViewOrder DEF Compares
    <3>2. \A k \in 1..n : k <= mid + 1 => KeyOf(rows, R[k].repr) # view
      <4> SUFFICES ASSUME NEW k \in 1..n, k <= mid + 1, KeyOf(rows, R[k].repr) = view
                   PROVE  FALSE
        OBVIOUS
      <4>1. k = mid + 1 \/ k < mid + 1
        BY <2>1
      <4>2. key = view \/ LessView(view, key)
        BY <2>5, <4>1
      <4> QED BY <2>3, <2>8, <4>2, LessViewOrder
    <3>3. \A k \in 1..n : KeyOf(rows, R[k].repr) = view
                            => (lo < k /\ k <= hi <=> mid + 1 < k /\ k <= hi)
      BY <2>1, <3>2
    <3>4. Has(lo, hi) = Has(mid + 1, hi)
      <4>1. /\ Has(lo, hi) = {k \in 1..n : lo < k /\ k <= hi /\ KeyOf(rows, R[k].repr) = view}
            /\ Has(mid + 1, hi)
                 = {k \in 1..n : mid + 1 < k /\ k <= hi /\ KeyOf(rows, R[k].repr) = view}
        BY <1>1
      <4> HIDE DEF Has
      <4> QED BY <3>3, <4>1
    <3>5. Found(rows, index, R, view, <<lo, hi>>) = Found(rows, index, R, view, <<mid + 1, hi>>)
      BY <3>4 DEF Found
    <3>6. f[<<mid + 1, hi>>] = Found(rows, index, R, view, <<mid + 1, hi>>)
      <4>1. hi - (mid + 1) < hi - lo
        BY <2>1
      <4> QED BY <2>1, <4>1 DEF AnswersBelow
    <3> QED BY <2>2, <3>1, <3>5, <3>6
  <2> QED BY <2>3, <2>6, <2>7, <2>8 DEF Compares
<1> QED BY <1>2, <1>3

\* What find_all() answers.
LEMMA SearchFinds ==
    ASSUME NEW rows, NEW view \in Views, NEW n \in Nat, NEW R, Len(R) = n,
           Ascending(rows, R, n),
           NEW index, index.keySpans = R
    PROVE  FindAll(rows, index, view) = Found(rows, index, R, view, <<0, n>>)
<1> DEFINE search == CHOOSE f : IsSearch(rows, index, view, f)
           g == [at \in (0..n) \X (0..n) |-> Found(rows, index, R, view, at)]
<1>1. FindAll(rows, index, view) = search[<<0, n>>]
  BY DEF FindAll, IsSearch
\* The loop has an answer, ...
<1>2. IsSearch(rows, index, view, g)
  <2>1. \A a, b \in 0..n : g[<<a, b>>] = Found(rows, index, R, view, <<a, b>>)
    OBVIOUS
  <2> HIDE DEF g
  <2>2. \A a, b \in 0..n :
            SearchRuns(rows, index, view, g, <<a, b>>) = Found(rows, index, R, view, <<a, b>>)
    <3> SUFFICES ASSUME NEW a \in 0..n, NEW b \in 0..n
                 PROVE  SearchRuns(rows, index, view, g, <<a, b>>)
                          = Found(rows, index, R, view, <<a, b>>)
      OBVIOUS
    <3>1. AnswersBelow(rows, index, R, view, n, g, b - a)
      BY <2>1 DEF AnswersBelow
    <3> QED BY <3>1, SearchTurn
  <2>3. \A at \in (0..n) \X (0..n) : /\ at = <<at[1], at[2]>> /\ at[1] \in 0..n /\ at[2] \in 0..n
    OBVIOUS
  <2>4. \A at \in (0..n) \X (0..n) :
            Found(rows, index, R, view, at) = SearchRuns(rows, index, view, g, at)
    BY <2>2, <2>3
  <2> QED BY <2>4 DEF g, IsSearch
<1>3. IsSearch(rows, index, view, search)
  BY <1>2
<1> HIDE DEF search, g
<1>4. \A a, b \in 0..n : search[<<a, b>>] = SearchRuns(rows, index, view, search, <<a, b>>)
  BY <1>3 DEF IsSearch
<1>5. ASSUME NEW a \in 0..n, NEW b \in 0..n, AnswersBelow(rows, index, R, view, n, search, b - a)
      PROVE  search[<<a, b>>] = Found(rows, index, R, view, <<a, b>>)
  <2>1. SearchRuns(rows, index, view, search, <<a, b>>) = Found(rows, index, R, view, <<a, b>>)
    BY <1>5, SearchTurn
  <2> QED BY <1>4, <2>1
\* ... and only this one: by induction on the distance of the ends.
<1> DEFINE S == {d \in Nat : \A a, b \in 0..n :
                     b - a < d => search[<<a, b>>] = Found(rows, index, R, view, <<a, b>>)}
<1>6. 0 \in S
  <2> SUFFICES ASSUME NEW a \in 0..n, NEW b \in 0..n, b - a < 0
               PROVE  search[<<a, b>>] = Found(rows, index, R, view, <<a, b>>)
    OBVIOUS
  <2>1. search[<<a, b>>] = <<>>
    <3>1. a >= b
      OBVIOUS
    <3> QED BY <1>4, <3>1 DEF SearchRuns
  <2>2. HasKey(rows, R, view, <<a, b>>) = {}
    BY DEF HasKey
  <2> QED BY <2>1, <2>2 DEF Found, IdsOfRun
<1>7. ASSUME NEW d \in Nat, d \in S PROVE d + 1 \in S
  <2> SUFFICES ASSUME NEW a \in 0..n, NEW b \in 0..n, b - a < d + 1
               PROVE  search[<<a, b>>] = Found(rows, index, R, view, <<a, b>>)
    OBVIOUS
  <2>1. AnswersBelow(rows, index, R, view, n, search, b - a)
    <3> SUFFICES ASSUME NEW x \in 0..n, NEW y \in 0..n, y - x < b - a
                 PROVE  search[<<x, y>>] = Found(rows, index, R, view, <<x, y>>)
      BY DEF AnswersBelow
    <3>1. y - x < d
      OBVIOUS
    <3> QED BY <1>7, <3>1
  <2> HIDE DEF S
  <2> QED BY <1>5, <2>1
<1>8. n + 1 \in S
  <2>1. n + 1 \in Nat
    OBVIOUS
  <2> HIDE DEF S
  <2> QED BY <1>6, <1>7, <2>1, Induction
<1>9. 0 \in 0..n /\ n \in 0..n /\ n - 0 < n + 1
  OBVIOUS
<1> QED BY <1>1, <1>8, <1>9

\* The places of a run.
LEMMA RunPlaces ==
    ASSUME NEW rows, RowsOK(rows), NEW s, Sorts(s, Live(rows), KeyOrder(rows)),
           NEW R, RunsOK(rows, s, R, Len(s)), NEW k \in 1..Len(R),
           NEW a, a = R[k].start, NEW c, c = R[k].count
    PROVE  /\ a \in Nat /\ c \in Nat /\ a + c <= Len(s)
           /\ KeyOf(rows, R[k].repr) \in Views
           /\ \A p \in a + 1..a + c : p \in 1..Len(s) /\ KeyOf(rows, s[p]) = KeyOf(rows, R[k].repr)
<1>1. R[k] \in Run /\ IsRun(rows, s, R[k], Len(s))
  BY DEF RunsOK
<1>2. PICK n : n = Len(s)
  OBVIOUS
<1>3. n \in Nat
  BY <1>2 DEF Sorts
<1>4. a \in Nat /\ c \in Nat
  BY <1>1 DEF Run
<1>5. /\ c >= 1 /\ a + c <= n /\ R[k].repr = s[a + 1]
      /\ \A p \in a + 1..a + c : KeyOf(rows, s[p]) = KeyOf(rows, R[k].repr)
  BY <1>1, <1>2 DEF IsRun
<1>6. /\ \A p \in a + 1..a + c : p \in 1..n
      /\ a + 1 \in 1..n
  BY <1>3, <1>4, <1>5
<1>7. KeyOf(rows, s[a + 1]) \in Views
  BY <1>2, <1>6, SortedKeys
<1> QED BY <1>2, <1>4, <1>5, <1>6, <1>7

\* find_all(): the ids of a key are those of one run, in the order of the ids.
LEMMA KeyLookupExact ==
    ASSUME NEW rows, RowsOK(rows), NEW view \in Views,
           NEW index, index.byKey = SortIdsByKey(rows),
           index.keySpans = KeyRuns(rows, SortIdsByKey(rows))
    PROVE  FindAllExact(rows, index, view)
<1> DEFINE ids == Live(rows)
           before == KeyOrder(rows)
           wanted == {id \in Live(rows) : rows[id + 1].key = view}
           span == FindAll(rows, index, view)
<1> PICK s, R, n : s = index.byKey /\ R = index.keySpans /\ n = Len(R)
  OBVIOUS
<1>1. Sorts(s, ids, before) /\ StrictlyOrders(before, ids) /\ IsFiniteSet(ids)
  BY SortedByKey, KeyOrderStrict, LiveIds
<1>2. RunsOK(rows, s, R, Len(s)) /\ n \in Nat /\ Len(s) \in Nat
  <2>1. RunsOK(rows, s, R, Len(s))
    BY <1>1, KeyRunsOK
  <2> QED BY <1>1, <2>1 DEF RunsOK, Sorts
<1>3. Ascending(rows, R, n)
  <2>1. \A k \in 1..n : KeyOf(rows, R[k].repr) \in Views
    BY <1>1, <1>2, RunPlaces
  <2> QED BY <1>2, <2>1 DEF Ascending, RunsOK
<1>4. span = Found(rows, index, R, view, <<0, n>>)
  BY <1>2, <1>3, SearchFinds
<1>5. HasKey(rows, R, view, <<0, n>>) = {k \in 1..n : KeyOf(rows, R[k].repr) = view}
  BY <1>2 DEF HasKey
<1>6. \A i \in 1..Len(s) : s[i] \in wanted <=> KeyOf(rows, s[i]) = view
  <2> SUFFICES ASSUME NEW i \in 1..Len(s)
               PROVE  s[i] \in wanted <=> KeyOf(rows, s[i]) = view
    OBVIOUS
  <2>1. s[i] \in Live(rows)
    BY <1>1, SortedKeys
  <2> QED BY <2>1 DEF KeyOf
<1>7. ASSUME NEW i \in 1..Len(s), KeyOf(rows, s[i]) = view
      PROVE  \E k \in 1..n : /\ KeyOf(rows, R[k].repr) = view
                             /\ i \in R[k].start + 1..R[k].start + R[k].count
  <2>1. PICK k \in 1..n : i \in R[k].start + 1..R[k].start + R[k].count
    BY <1>2 DEF RunsOK
  <2>2. KeyOf(rows, s[i]) = KeyOf(rows, R[k].repr)
    BY <1>1, <1>2, <2>1, RunPlaces
  <2> QED BY <1>7, <2>1, <2>2
<1>8. CASE HasKey(rows, R, view, <<0, n>>) = {}
  <2>1. span = <<>>
    BY <1>4, <1>8 DEF Found, IdsOfRun
  <2>2. wanted = {}
    <3> SUFFICES ASSUME NEW id \in wanted PROVE FALSE
      OBVIOUS
    <3>1. PICK i \in 1..Len(s) : s[i] = id
      BY <1>1 DEF Sorts
    <3>2. KeyOf(rows, s[i]) = view
      BY <3>1 DEF KeyOf
    <3> QED BY <1>5, <1>7, <1>8, <3>2
  <2>3. IsExactly(<<>>, {}) /\ Len(<<>>) = 0
    BY FS_EmptySet DEF IsExactly, ToSet
  <2>4. IsExactly(span, wanted) /\ Len(span) = 0
    BY <2>1, <2>2, <2>3
  <2> HIDE DEF span, wanted
  <2>5. FindAllExact(rows, index, view)
    BY <2>4 DEF FindAllExact, span, wanted
  <2> QED BY <2>5
<1>9. CASE HasKey(rows, R, view, <<0, n>>) # {}
  <2>1. PICK k : k = CHOOSE l \in HasKey(rows, R, view, <<0, n>>) : TRUE
    OBVIOUS
  <2>2. k \in 1..n /\ KeyOf(rows, R[k].repr) = view
    BY <1>5, <1>9, <2>1
  <2>3. PICK a, c : a = R[k].start /\ c = R[k].count
    OBVIOUS
  <2>4. span = IdSpan(s, a, c)
    <3>1. PICK ks : ks = HasKey(rows, R, view, <<0, n>>)
      OBVIOUS
    <3>2. Found(rows, index, R, view, <<0, n>>) = IdsOfRun(index, R, ks)
      BY <3>1 DEF Found
    <3>3. ks # {} /\ k = CHOOSE l \in ks : TRUE
      BY <1>9, <2>1, <3>1
    <3>4. IdsOfRun(index, R, ks) = IdSpan(index.byKey, R[k].start, R[k].count)
      BY <3>3 DEF IdsOfRun
    <3> HIDE DEF span
    <3> QED BY <1>4, <2>3, <3>2, <3>4
  <2>5. /\ a \in Nat /\ c \in Nat /\ a + c <= Len(s)
        /\ \A p \in a + 1..a + c : p \in 1..Len(s) /\ KeyOf(rows, s[p]) = view
    <3>1. /\ a \in Nat /\ c \in Nat /\ a + c <= Len(s)
          /\ \A p \in a + 1..a + c :
                 p \in 1..Len(s) /\ KeyOf(rows, s[p]) = KeyOf(rows, R[k].repr)
      <4>1. k \in 1..Len(R)
        BY <2>2
      <4> HIDE DEF ids, before
      <4> QED BY <1>1, <1>2, <2>3, <4>1, RunPlaces DEF ids, before
    <3> QED BY <2>2, <3>1
  <2>6. ASSUME NEW i \in 1..Len(s)
        PROVE  s[i] \in wanted <=> i \in a + 1..a + c
    <3>1. ASSUME KeyOf(rows, s[i]) = view PROVE i \in a + 1..a + c
      <4>1. PICK l \in 1..n : /\ KeyOf(rows, R[l].repr) = view
                              /\ i \in R[l].start + 1..R[l].start + R[l].count
        BY <1>7, <3>1
      <4>2. l = k
        <5> SUFFICES ASSUME l # k PROVE FALSE
          OBVIOUS
        <5>1. l < k \/ k < l
          BY <2>2
        <5>2. LessView(view, view)
          BY <1>3, <2>2, <4>1, <5>1 DEF Ascending
        <5> QED BY <5>2, LessViewOrder
      <4> QED BY <2>3, <4>1, <4>2
    <3> HIDE DEF wanted
    <3> QED BY <1>6, <2>5, <3>1
  <2>7. wanted \subseteq ids
    OBVIOUS
  <2>8. /\ IsExactly(span, wanted) /\ DOMAIN span = 1..Len(span)
        /\ \A i, j \in 1..Len(span) : i < j => <<span[i], span[j]>> \in before
    <3> HIDE DEF ids, before, span, wanted
    <3>1. GivesExactly(span, wanted, before)
      BY <1>1, <2>4, <2>5, <2>6, <2>7, SpanExact
    <3> QED BY <3>1 DEF GivesExactly
  <2>9. ASSUME NEW i \in 1..Len(span), NEW j \in 1..Len(span), i < j
        PROVE  span[i] < span[j]
    <3>1. <<span[i], span[j]>> \in before
      BY <2>8, <2>9
    <3>2. span[i] \in wanted /\ span[j] \in wanted
      <4>1. ToSet(span) = wanted
        BY <2>8 DEF IsExactly
      <4> HIDE DEF span, wanted
      <4> QED BY <2>8, <2>9, <4>1 DEF ToSet
    <3>3. PICK x, y : x = span[i] /\ y = span[j]
      OBVIOUS
    <3>4. x \in ids /\ y \in ids /\ rows[x + 1].key = view /\ rows[y + 1].key = view
      BY <3>2, <3>3
    <3>5. LessByKey(rows, x, y)
      BY <3>1, <3>3 DEF KeyOrder
    <3>6. x < y
      <4>1. ~LessView(view, view)
        BY LessViewOrder
      <4> HIDE DEF span
      <4> QED BY <3>4, <3>5, <4>1, LessByKeyIs
    <3> QED BY <3>3, <3>6
  <2> HIDE DEF span, wanted
  <2>10. FindAllExact(rows, index, view)
    BY <2>8, <2>9 DEF FindAllExact, span, wanted
  <2> QED BY <2>10
<1> QED BY <1>8, <1>9

-----------------------------------------------------------------------------
(* The rows of a store are rows the lookups answer right for.               *)

LEMMA BytesOfSpan ==
    ASSUME NEW a \in Arena, NEW s \in Span
    PROVE  SpanBytes(a, s) \in Seq(Bytes)
<1>1. a.buf \in Seq(Bytes) /\ Len(a.buf) \in Nat /\ s.offset \in Nat /\ s.size \in Nat
  BY OffsetMaxAssumption DEF Arena, Span
<1>2. CASE InArena(a, s)
  <2>1. s.offset + s.size <= Len(a.buf)
    BY <1>2 DEF InArena, ArenaSize
  <2>2. SubSeq(a.buf, s.offset + 1, s.offset + s.size) \in Seq(Bytes)
    BY <1>1, <2>1, SubSeqProperties
  <2> QED BY <1>2, <2>2 DEF SpanBytes
<1>3. CASE ~InArena(a, s)
  BY <1>3 DEF SpanBytes
<1> QED BY <1>2, <1>3

LEMMA RowsAreOK == ASSUME NEW s, Sound(s) PROVE RowsOK(Rows(s))
<1>0. s.arena \in Arena /\ s.entries \in Seq(Entry) /\ Len(s.entries) \in Nat
  BY DEF Sound, StoreOK
<1>1. ASSUME NEW i \in 1..Len(s.entries)
      PROVE  /\ Row(s.arena, s.entries[i]) \in RowView
             /\ HasItsTexts(Row(s.arena, s.entries[i]).key)
  <2>1. PICK e : e = s.entries[i]
    OBVIOUS
  <2>2. e \in Entry /\ KeyFits(s.arena, e.key)
    BY <2>1 DEF Sound, Fits
  <2>3. /\ e.key.kind \in Kinds /\ e.key.nums \in Seq(Nat)
        /\ e.key.first \in Span /\ e.key.second \in Span
        /\ e.block \in Nat /\ e.order \in Nat
    BY <2>2 DEF Entry, Key
  <2>4. /\ SpanBytes(s.arena, e.key.first) \in Seq(Bytes)
        /\ SpanBytes(s.arena, e.key.second) \in Seq(Bytes)
    BY <1>0, <2>3, BytesOfSpan
  <2>5. PICK v : v = ViewKey(s.arena, e.key)
    OBVIOUS
  <2>6. /\ v \in KeyView /\ v.kind = e.key.kind
        /\ v.first = SpanBytes(s.arena, e.key.first)
        /\ v.second = SpanBytes(s.arena, e.key.second)
    BY <2>3, <2>4, <2>5 DEF ViewKey, KeyView
  <2>7. HasItsTexts(v)
    <3>1. TextCount(v.kind) \in 0..2
      BY DEF TextCount
    <3>2. TextCount(v.kind) < 1 => e.key.first = EmptySpan
      BY <2>2, <2>6 DEF KeyFits
    <3>3. TextCount(v.kind) < 2 => e.key.second = EmptySpan
      BY <2>2, <2>6, <3>1 DEF KeyFits
    <3>4. SpanBytes(s.arena, EmptySpan) = <<>>
      BY <1>0, EmptyView
    <3> QED BY <2>6, <3>2, <3>3, <3>4 DEF HasItsTexts
  <2>8. Row(s.arena, e) = [key |-> v, block |-> e.block, order |-> e.order,
                           deleted |-> "Deleted" \in e.flags]
    BY <2>5 DEF Row
  <2> QED BY <2>1, <2>3, <2>6, <2>7, <2>8 DEF RowView
<1>2. Rows(s) = [i \in 1..Len(s.entries) |-> Row(s.arena, s.entries[i])]
  BY DEF Rows
<1>3. Rows(s) \in Seq(RowView) /\ Len(Rows(s)) = Len(s.entries)
  BY <1>0, <1>1, <1>2
<1> QED BY <1>1, <1>2, <1>3 DEF RowsOK

LEMMA FreshLooksUpExact ==
    ASSUME NEW s, Sound(s), Fresh(s), s.finalized
    PROVE  /\ \A view \in {r.key : r \in Requests} : FindAllExact(Rows(s), s.index, view)
           /\ \A b \in 0..s.blocks - 1 : EntriesInBlockExact(Rows(s), s.index, b)
<1>1. PICK rows, blocks, index : rows = Rows(s) /\ blocks = s.blocks /\ index = s.index
  OBVIOUS
<1>2. RowsOK(rows) /\ blocks \in Nat
  BY <1>1, RowsAreOK DEF Sound, StoreOK
<1>3. /\ index.byBlock = SortIdsByBlock(rows)
      /\ index.blockSpans = BlockSpans(rows, blocks, SortIdsByBlock(rows))
      /\ index.byKey = SortIdsByKey(rows)
      /\ index.keySpans = KeyRuns(rows, SortIdsByKey(rows))
  <2>1. index = BuildIndex(rows, blocks)
    BY <1>1 DEF Fresh
  <2> QED BY <2>1 DEF BuildIndex
<1>4. ASSUME NEW r \in Requests PROVE FindAllExact(rows, index, r.key)
  <2>1. r \in EntryView /\ HasItsTexts(r.key)
    BY StoreAssumption
  <2>2. r.key \in Views
    BY <2>1 DEF EntryView, Views
  <2> QED BY <1>2, <1>3, <2>2, KeyLookupExact
<1>5. ASSUME NEW b \in 0..blocks - 1 PROVE EntriesInBlockExact(rows, index, b)
  BY <1>2, <1>3, BlockLookupExact
<1> QED BY <1>1, <1>4, <1>5

\* LookupsExact: whatever was decoded, edited, committed, compacted or refused
\* before, find_all() on a finalized store gives exactly the live entries of
\* the key asked for, in the order of their ids, and entries_in_block() those
\* of the block, in block order, however the searches cut the vectors.
THEOREM LookupsAreAlwaysExact == Spec => []LookupsExact
<1>1. Init => FreshInv
  BY InitFresh
<1>2. FreshInv => LookupsExact
  <2> SUFFICES ASSUME FreshInv, NEW s \in Stores, s.finalized
               PROVE  /\ \A view \in {r.key : r \in Requests} :
                             FindAllExact(Rows(s), s.index, view)
                      /\ \A b \in 0..s.blocks - 1 :
                             EntriesInBlockExact(Rows(s), s.index, b)
    BY DEF LookupsExact
  <2>1. Sound(s)
    BY StoresAreSound DEF FreshInv
  <2>2. Fresh(s)
    BY DEF FreshInv, Stores, Fresh
  <2> QED BY <2>1, <2>2, FreshLooksUpExact
<1> QED BY <1>1, <1>2, FreshNext, PTL DEF Spec


-----------------------------------------------------------------------------
(* The document that a store stands for.  What is put into an arena reads as  *)
(* what was given, unless the arena's flag is up; and it goes on reading so,  *)
(* for an arena only grows.                                                  *)

\* b is a after some calls that store bytes.
Extends(a, b) ==
    /\ b \in Arena /\ (a.over => b.over)
    /\ \E more \in Seq(Bytes) : b.buf = a.buf \o more

\* On the way from a to b, bytes were put where span is.
Holds(a, b, span, bytes) ==
    /\ Extends(a, b) /\ span \in Span /\ InArena(b, span)
    /\ ~b.over => SpanBytes(b, span) = bytes

LEMMA ExtendsRefl == ASSUME NEW a \in Arena PROVE Extends(a, a)
<1>1. <<>> \in Seq(Bytes) /\ a.buf \in Seq(Bytes)
  BY DEF Arena
<1>2. a.buf = a.buf \o <<>>
  BY <1>1, ConcatEmptySeq
<1> QED BY <1>1, <1>2 DEF Extends

LEMMA ThreeInARow ==
    ASSUME NEW x \in Seq(Bytes), NEW y \in Seq(Bytes), NEW z \in Seq(Bytes)
    PROVE  (x \o y) \o z = x \o (y \o z)
BY ConcatAssociative

LEMMA ExtendsTrans ==
    ASSUME NEW a \in Arena, NEW b, NEW c, Extends(a, b), Extends(b, c)
    PROVE  Extends(a, c)
<1>1. PICK m \in Seq(Bytes) : b.buf = a.buf \o m
  BY DEF Extends
<1>2. PICK n \in Seq(Bytes) : c.buf = b.buf \o n
  BY DEF Extends
<1>3. a.buf \in Seq(Bytes) /\ m \in Seq(Bytes) /\ n \in Seq(Bytes)
  BY <1>1, <1>2 DEF Arena
<1>4. m \o n \in Seq(Bytes)
  BY <1>3, ConcatProperties
<1>5. (a.buf \o m) \o n = a.buf \o (m \o n)
  BY <1>3, ThreeInARow
<1>6. c.buf = a.buf \o (m \o n)
  BY <1>1, <1>2, <1>5
<1>7. c \in Arena /\ (a.over => c.over)
  BY DEF Extends
<1> QED BY <1>4, <1>6, <1>7 DEF Extends

LEMMA ExtendsKeepsView ==
    ASSUME NEW a \in Arena, NEW b, Extends(a, b), NEW s \in Span, InArena(a, s)
    PROVE  InArena(b, s) /\ SpanBytes(b, s) = SpanBytes(a, s)
BY GrowthKeepsViews DEF Extends

LEMMA HoldsOn ==
    ASSUME NEW a \in Arena, NEW b, NEW c, NEW span, NEW bytes,
           Holds(a, b, span, bytes), Extends(b, c)
    PROVE  Holds(a, c, span, bytes)
<1>1. b \in Arena /\ Extends(a, c) /\ (b.over => c.over)
  BY ExtendsTrans DEF Holds, Extends
<1>2. InArena(c, span) /\ SpanBytes(c, span) = SpanBytes(b, span)
  BY <1>1, ExtendsKeepsView DEF Holds
<1> QED BY <1>1, <1>2 DEF Holds

LEMMA AppendHolds ==
    ASSUME NEW a \in Arena, NEW bytes \in Seq(Bytes), NEW r, r = Append_(a, bytes)
    PROVE  /\ Holds(a, r.arena, r.span, bytes)
           /\ r.arena.over \/ r.span.size = Len(bytes)
<1>1. HandsOut(a, r, bytes)
  BY AppendExact
<1>2. Extends(a, r.arena) /\ r.span \in Span /\ InArena(r.arena, r.span)
  BY <1>1 DEF HandsOut, Extends
<1>3. CASE CanAppend(a, Len(bytes))
  <2>1. r.span.size = Len(bytes)
    BY <1>3 DEF Append_
  <2>2. CASE r.span = EmptySpan
    <3>1. bytes = <<>>
      BY <2>1, <2>2 DEF EmptySpan
    <3> QED BY <1>2, <2>1, <2>2, <3>1, EmptyView DEF Holds, Extends
  <2>3. CASE r.span # EmptySpan
    BY <1>1, <1>2, <2>1, <2>3 DEF Holds, HandsOut
  <2> QED BY <2>2, <2>3
<1>4. CASE ~CanAppend(a, Len(bytes))
  <2>1. r.arena.over
    BY <1>4 DEF Append_, Arena
  <2> QED BY <1>2, <2>1 DEF Holds
<1> QED BY <1>3, <1>4

\* What an entry does not have reads as nothing.
LEMMA NothingHolds ==
    ASSUME NEW a \in Arena PROVE Holds(a, a, EmptySpan, <<>>)
BY ExtendsRefl, EmptySpanFits, EmptyView DEF Holds

LEMMA PutTextHolds ==
    ASSUME NEW a \in Arena, NEW bytes \in Seq(Bytes), NEW wanted \in BOOLEAN,
           wanted \/ bytes = <<>>, NEW r, r = PutText(a, wanted, bytes)
    PROVE  /\ Holds(a, r.arena, r.span, bytes)
           /\ r.arena.over \/ r.span.size = Len(bytes)
<1>1. CASE wanted
  <2>1. r = Append_(a, bytes)
    BY <1>1 DEF PutText
  <2> QED BY <2>1, AppendHolds
<1>2. CASE ~wanted
  <2>1. r = [arena |-> a, span |-> EmptySpan] /\ bytes = <<>>
    BY <1>2 DEF PutText
  <2> QED BY <2>1, NothingHolds DEF EmptySpan
<1> QED BY <1>1, <1>2

\* The make_*_key() functions.
LEMMA MakeKeyExact ==
    ASSUME NEW a \in Arena, NEW view \in KeyView, HasItsTexts(view), NEW m, m = MakeKey(a, view)
    PROVE  Extends(a, m.arena) /\ (~m.arena.over => ViewKey(m.arena, m.key) = view)
<1>0. /\ view.first \in Seq(Bytes) /\ view.second \in Seq(Bytes)
      /\ TextCount(view.kind) >= 1 \/ view.first = <<>>
      /\ TextCount(view.kind) = 2 \/ view.second = <<>>
  BY DEF KeyView, TextCount, HasItsTexts
<1>1. PICK r1 : r1 = PutText(a, TextCount(view.kind) >= 1, view.first)
  OBVIOUS
<1>2. PICK r2 : r2 = PutText(r1.arena, TextCount(view.kind) = 2, view.second)
  OBVIOUS
<1>3. /\ m.arena = r2.arena
      /\ m.key = [kind |-> view.kind, nums |-> view.nums,
                  first |-> r1.span, second |-> r2.span]
  BY <1>1, <1>2 DEF MakeKey
<1> DEFINE w1 == TextCount(view.kind) >= 1
           w2 == TextCount(view.kind) = 2
<1>w. w1 \in BOOLEAN /\ w2 \in BOOLEAN
  BY DEF TextCount
<1>t. /\ r1 = PutText(a, w1, view.first) /\ (w1 \/ view.first = <<>>)
      /\ r2 = PutText(r1.arena, w2, view.second) /\ (w2 \/ view.second = <<>>)
  BY <1>0, <1>1, <1>2
<1> HIDE DEF w1, w2
<1>h. Holds(a, r1.arena, r1.span, view.first)
  BY <1>0, <1>t, <1>w, PutTextHolds
<1>4. Holds(a, r1.arena, r1.span, view.first) /\ r1.arena \in Arena
  BY <1>h DEF Holds, Extends
<1>5. Holds(r1.arena, r2.arena, r2.span, view.second)
  BY <1>0, <1>t, <1>w, <1>4, PutTextHolds
<1>e. Extends(r1.arena, r2.arena)
  BY <1>5 DEF Holds
<1>6. Holds(a, r2.arena, r1.span, view.first)
  BY <1>4, <1>e, HoldsOn
<1>7. ASSUME ~r2.arena.over PROVE ViewKey(r2.arena, m.key) = view
  <2>1. view = [kind |-> view.kind, nums |-> view.nums, first |-> view.first,
                second |-> view.second]
    BY DEF KeyView
  <2>2. SpanBytes(r2.arena, r1.span) = view.first /\ SpanBytes(r2.arena, r2.span) = view.second
    BY <1>5, <1>6, <1>7 DEF Holds
  <2> QED BY <1>3, <2>1, <2>2 DEF ViewKey
<1> QED BY <1>3, <1>6, <1>7 DEF Holds

\* make_text(), make_bytes() and the other makers of values.
LEMMA MakeValueExact ==
    ASSUME NEW a \in Arena, NEW view \in ValueView, HasItsPayload(view),
           NEW m, m = MakeValue(a, view)
    PROVE  Extends(a, m.arena) /\ (~m.arena.over => ViewValue(m.arena, m.value) = view)
<1>0. view.bytes \in Seq(Bytes) /\ (view.kind \in SpanKinds \/ view.bytes = <<>>)
  BY DEF ValueView, HasItsPayload
<1>1. PICK r : r = PutText(a, view.kind \in SpanKinds, view.bytes)
  OBVIOUS
<1> DEFINE w == view.kind \in SpanKinds
<1>w. w \in BOOLEAN /\ r = PutText(a, w, view.bytes) /\ (w \/ view.bytes = <<>>)
  BY <1>0, <1>1 DEF SpanKinds
<1> HIDE DEF w
<1>2. /\ Holds(a, r.arena, r.span, view.bytes)
      /\ r.arena.over \/ r.span.size = Len(view.bytes)
  BY <1>0, <1>w, PutTextHolds
<1>3. m.arena = r.arena
  BY <1>1 DEF MakeValue
<1>4. ASSUME ~r.arena.over PROVE ViewValue(r.arena, m.value) = view
  <2>1. m.value = [kind |-> view.kind, num |-> view.num, span |-> r.span]
    BY <1>1, <1>2, <1>4 DEF MakeValue
  <2>2. view = [kind |-> view.kind, num |-> view.num, bytes |-> view.bytes]
    BY DEF ValueView
  <2>3. SpanBytes(r.arena, r.span) = view.bytes
    BY <1>2, <1>4 DEF Holds
  <2> QED BY <1>0, <2>1, <2>2, <2>3 DEF ViewValue
<1> QED BY <1>2, <1>3, <1>4 DEF Holds

\* Keys, values and entries that lie in an arena read the same when it grows.
LEMMA KeyReadsOn ==
    ASSUME NEW a \in Arena, NEW b, Extends(a, b), NEW k, KeyFits(a, k)
    PROVE  ViewKey(b, k) = ViewKey(a, k)
<1>1. k.first \in Span /\ k.second \in Span /\ InArena(a, k.first) /\ InArena(a, k.second)
  BY DEF KeyFits, Key
<1>2. /\ SpanBytes(b, k.first) = SpanBytes(a, k.first)
      /\ SpanBytes(b, k.second) = SpanBytes(a, k.second)
  BY <1>1, ExtendsKeepsView
<1> QED BY <1>2 DEF ViewKey

LEMMA ValueReadsOn ==
    ASSUME NEW a \in Arena, NEW b, Extends(a, b), NEW v, ValueFits(a, v)
    PROVE  ViewValue(b, v) = ViewValue(a, v)
<1>1. v.span \in Span /\ InArena(a, v.span)
  BY DEF ValueFits, Value
<1>2. SpanBytes(b, v.span) = SpanBytes(a, v.span)
  BY <1>1, ExtendsKeepsView
<1> QED BY <1>2 DEF ViewValue

LEMMA EntryReadsOn ==
    ASSUME NEW a \in Arena, NEW b, Extends(a, b), NEW e, Fits(a, e)
    PROVE  View(b, e) = View(a, e)
<1>1. /\ KeyFits(a, e.key) /\ ValueFits(a, e.value)
      /\ e.wireName \in Span /\ InArena(a, e.wireName)
  BY DEF Fits, Entry
<1>2. ViewKey(b, e.key) = ViewKey(a, e.key)
  BY <1>1, KeyReadsOn
<1>3. ViewValue(b, e.value) = ViewValue(a, e.value)
  BY <1>1, ValueReadsOn
<1>4. SpanBytes(b, e.wireName) = SpanBytes(a, e.wireName)
  BY <1>1, ExtendsKeepsView
<1> QED BY <1>2, <1>3, <1>4 DEF View

LEMMA MaterialiseExact ==
    ASSUME NEW a \in Arena, NEW view \in EntryView, HasItsTexts(view.key),
           HasItsPayload(view.value), NEW m, m = Materialise(a, view)
    PROVE  Extends(a, m.arena) /\ (~m.arena.over => View(m.arena, m.entry) = view)
<1>0. view.key \in KeyView /\ view.value \in ValueView /\ view.wireName \in Seq(Bytes)
  BY DEF EntryView
<1>1. PICK k : k = MakeKey(a, view.key)
  OBVIOUS
<1>a. PICK vk : vk = view.key
  OBVIOUS
<1>b. PICK vv : vv = view.value
  OBVIOUS
<1>c. vk \in KeyView /\ HasItsTexts(vk) /\ vv \in ValueView /\ HasItsPayload(vv)
  BY <1>0, <1>a, <1>b
<1>d. /\ Extends(a, k.arena)
      /\ ~k.arena.over => ViewKey(k.arena, k.key) = vk
  BY <1>1, <1>a, <1>c, MakeKeyExact
<1>2. /\ Extends(a, k.arena) /\ k.arena \in Arena /\ KeyFits(k.arena, k.key)
      /\ ~k.arena.over => ViewKey(k.arena, k.key) = view.key
  <2>1. KeyFits(k.arena, k.key)
    BY <1>1, <1>0, MakeKeyFits
  <2> QED BY <1>a, <1>d, <2>1 DEF Extends
<1>3. PICK v : v = MakeValue(k.arena, view.value)
  OBVIOUS
<1>4. /\ Extends(k.arena, v.arena) /\ v.arena \in Arena /\ ValueFits(v.arena, v.value)
      /\ ~v.arena.over => ViewValue(v.arena, v.value) = view.value
  <2>1. /\ Extends(k.arena, v.arena)
        /\ ~v.arena.over => ViewValue(v.arena, v.value) = vv
    BY <1>2, <1>3, <1>b, <1>c, MakeValueExact
  <2>2. ValueFits(v.arena, v.value)
    BY <1>0, <1>2, <1>3, MakeValueFits
  <2> QED BY <1>b, <2>1, <2>2 DEF Extends
<1>5. PICK w : w = PutText(v.arena, view.wireName # <<>>, view.wireName)
  OBVIOUS
<1>6. Holds(v.arena, w.arena, w.span, view.wireName)
  <2> DEFINE named == view.wireName # <<>>
  <2>1. named \in BOOLEAN /\ w = PutText(v.arena, named, view.wireName)
        /\ (named \/ view.wireName = <<>>)
    BY <1>5
  <2> HIDE DEF named
  <2> QED BY <1>0, <1>4, <2>1, PutTextHolds
<1>7. /\ m.arena = w.arena
      /\ m.entry = [key |-> k.key, value |-> v.value, block |-> view.block,
                    order |-> view.order, wire |-> view.wire,
                    wireName |-> w.span, flags |-> view.flags]
  BY <1>1, <1>3, <1>5 DEF Materialise
<1>8. Extends(v.arena, w.arena) /\ Extends(k.arena, w.arena) /\ Extends(a, w.arena)
  BY <1>2, <1>4, <1>6, ExtendsTrans DEF Holds
<1>9. ASSUME ~w.arena.over PROVE View(w.arena, m.entry) = view
  <2>1. ViewKey(w.arena, k.key) = view.key
    BY <1>2, <1>8, <1>9, KeyReadsOn DEF Extends
  <2>2. ViewValue(w.arena, v.value) = view.value
    BY <1>4, <1>8, <1>9, ValueReadsOn DEF Extends
  <2>3. SpanBytes(w.arena, w.span) = view.wireName
    BY <1>6, <1>9 DEF Holds
  <2>4. view = [key |-> view.key, value |-> view.value, block |-> view.block,
                order |-> view.order, wire |-> view.wire, wireName |-> view.wireName,
                flags |-> view.flags]
    BY DEF EntryView
  <2> QED BY <1>7, <2>1, <2>2, <2>3, <2>4 DEF View
<1> QED BY <1>7, <1>8, <1>9

-----------------------------------------------------------------------------
(* What is copied reads as it did where it came from.                       *)

\* Between a and b, a copy of bytes was put where span is.
Copied(a, b, span, bytes) ==
    /\ Extends(a, b) /\ span \in Span /\ InArena(b, span)
    /\ SpanBytes(b, span) = bytes

LEMMA CopySpanExact ==
    ASSUME NEW src \in Arena, NEW dst \in Arena, NEW s \in Span,
           NEW c, c = CopySpan(src, dst, s), c.ok
    PROVE  Copied(dst, c.arena, c.span, SpanBytes(src, s))
<1>1. PICK r : r = Append_(dst, SpanBytes(src, s))
  OBVIOUS
<1>2. c.arena = r.arena /\ c.span = r.span /\ ~r.arena.over
  BY <1>1 DEF CopySpan
<1>3. PICK bytes : bytes = SpanBytes(src, s)
  OBVIOUS
<1>4. bytes \in Seq(Bytes) /\ r = Append_(dst, bytes)
  BY <1>1, <1>3, ViewIsBytes
<1>5. Holds(dst, r.arena, r.span, bytes)
  BY <1>4, AppendHolds
<1> QED BY <1>2, <1>3, <1>5 DEF Holds, Copied

\* A span that is not there is not copied and reads as nothing on both sides.
LEMMA NoCopyExact ==
    ASSUME NEW src \in Arena, NEW dst \in Arena, NEW s, s = EmptySpan,
           NEW c, c = NoCopy(dst, s)
    PROVE  Copied(dst, c.arena, c.span, SpanBytes(src, s))
<1>1. c.arena = dst /\ c.span = EmptySpan
  BY DEF NoCopy
<1>2. SpanBytes(src, s) = <<>> /\ SpanBytes(dst, EmptySpan) = <<>>
  BY EmptyView
<1> QED BY <1>1, <1>2, ExtendsRefl, EmptySpanFits DEF Copied

LEMMA CopiedOn ==
    ASSUME NEW a \in Arena, NEW b, NEW c, NEW span, NEW bytes,
           Copied(a, b, span, bytes), Extends(b, c)
    PROVE  Copied(a, c, span, bytes)
<1>1. b \in Arena /\ span \in Span /\ InArena(b, span) /\ Extends(a, b)
  BY DEF Copied, Extends
<1>2. InArena(c, span) /\ SpanBytes(c, span) = SpanBytes(b, span)
  BY <1>1, ExtendsKeepsView
<1>3. Extends(a, c)
  BY <1>1, ExtendsTrans
<1> QED BY <1>1, <1>2, <1>3 DEF Copied

LEMMA CopyKeyExact ==
    ASSUME NEW src \in Arena, NEW dst \in Arena, NEW k, KeyShaped(k),
           NEW c, c = CopyKey(src, dst, k), c.ok
    PROVE  Extends(dst, c.arena) /\ ViewKey(c.arena, c.key) = ViewKey(src, k)
<1>0. /\ k \in Key /\ k.first \in Span /\ k.second \in Span /\ k.kind \in Kinds
      /\ TextCount(k.kind) < 1 => k.first = EmptySpan
      /\ TextCount(k.kind) # 2 => k.second = EmptySpan
      /\ TextCount(k.kind) \in 0..2
  BY DEF KeyShaped, Key, TextCount
<1>1. PICK c1 : c1 = IF TextCount(k.kind) >= 1 THEN CopySpan(src, dst, k.first)
                                               ELSE NoCopy(dst, k.first)
  OBVIOUS
<1>2. PICK c2 : c2 = IF c1.ok /\ TextCount(k.kind) = 2
                     THEN CopySpan(src, c1.arena, k.second)
                     ELSE NoCopy(c1.arena, k.second)
  OBVIOUS
<1>3. /\ c.arena = c2.arena /\ c1.ok /\ c2.ok
      /\ c.key = [k EXCEPT !.first = c1.span, !.second = c2.span]
  BY <1>1, <1>2 DEF CopyKey
<1>4. Copied(dst, c1.arena, c1.span, SpanBytes(src, k.first))
  <2>1. CASE TextCount(k.kind) >= 1
    <3>1. c1 = CopySpan(src, dst, k.first)
      BY <1>1, <2>1
    <3> QED BY <1>0, <1>3, <3>1, CopySpanExact
  <2>2. CASE TextCount(k.kind) < 1
    <3>1. c1 = NoCopy(dst, k.first) /\ k.first = EmptySpan
      BY <1>0, <1>1, <2>2
    <3> QED BY <3>1, NoCopyExact
  <2> QED BY <1>0, <2>1, <2>2
<1>5. c1.arena \in Arena
  BY <1>4 DEF Copied, Extends
<1>6. Copied(c1.arena, c2.arena, c2.span, SpanBytes(src, k.second))
  <2>1. CASE TextCount(k.kind) = 2
    <3>1. c2 = CopySpan(src, c1.arena, k.second)
      BY <1>2, <1>3, <2>1
    <3> QED BY <1>0, <1>3, <1>5, <3>1, CopySpanExact
  <2>2. CASE TextCount(k.kind) # 2
    <3>1. c2 = NoCopy(c1.arena, k.second) /\ k.second = EmptySpan
      BY <1>0, <1>2, <2>2
    <3> QED BY <1>5, <3>1, NoCopyExact
  <2> QED BY <2>1, <2>2
<1>7. Extends(c1.arena, c2.arena)
  BY <1>6 DEF Copied
<1>8. Copied(dst, c2.arena, c1.span, SpanBytes(src, k.first))
  BY <1>4, <1>7, CopiedOn
<1>9. /\ SpanBytes(c.arena, c.key.first) = SpanBytes(src, k.first)
      /\ SpanBytes(c.arena, c.key.second) = SpanBytes(src, k.second)
      /\ c.key.kind = k.kind /\ c.key.nums = k.nums
  BY <1>0, <1>3, <1>6, <1>8 DEF Copied, Key
<1> QED BY <1>3, <1>8, <1>9 DEF Copied, ViewKey

LEMMA CopyValueExact ==
    ASSUME NEW src \in Arena, NEW dst \in Arena, NEW v, ValueShaped(v),
           NEW c, c = CopyValue(src, dst, v), c.ok
    PROVE  Extends(dst, c.arena) /\ ViewValue(c.arena, c.value) = ViewValue(src, v)
<1>0. v \in Value /\ v.span \in Span /\ (v.kind \notin SpanKinds => v.span = EmptySpan)
  BY DEF Value, ValueShaped
<1>1. PICK t : t = IF v.kind \in SpanKinds THEN CopySpan(src, dst, v.span)
                                           ELSE NoCopy(dst, v.span)
  OBVIOUS
<1>2. c.arena = t.arena /\ t.ok /\ c.value = [v EXCEPT !.span = t.span]
  BY <1>1 DEF CopyValue
<1>3. Copied(dst, t.arena, t.span, SpanBytes(src, v.span))
  <2>1. CASE v.kind \in SpanKinds
    <3>1. t = CopySpan(src, dst, v.span)
      BY <1>1, <2>1
    <3> QED BY <1>0, <1>2, <3>1, CopySpanExact
  <2>2. CASE v.kind \notin SpanKinds
    <3>1. t = NoCopy(dst, v.span) /\ v.span = EmptySpan
      BY <1>0, <1>1, <2>2
    <3> QED BY <3>1, NoCopyExact
  <2> QED BY <2>1, <2>2
<1>4. /\ SpanBytes(c.arena, c.value.span) = SpanBytes(src, v.span)
      /\ c.value.kind = v.kind /\ c.value.num = v.num
  BY <1>0, <1>2, <1>3 DEF Copied, Value
<1> QED BY <1>2, <1>3, <1>4 DEF Copied, ViewValue

LEMMA CopyOriginExact ==
    ASSUME NEW src \in Arena, NEW dst \in Arena, NEW name \in Span,
           NEW c, c = CopyOrigin(src, dst, name), c.ok
    PROVE  Copied(dst, c.arena, c.span, SpanBytes(src, name))
<1>1. CASE name.size = 0
  <2>1. c = NoCopy(dst, EmptySpan)
    BY <1>1 DEF CopyOrigin
  <2>2. Copied(dst, c.arena, c.span, SpanBytes(src, EmptySpan))
    BY <2>1, NoCopyExact
  <2>3. SpanBytes(src, name) = <<>>
    <3>1. name.offset \in Nat
      BY OffsetMaxAssumption DEF Span
    <3>2. CASE InArena(src, name)
      <4>1. SpanBytes(src, name) = SubSeq(src.buf, name.offset + 1, name.offset)
        BY <1>1, <3>1, <3>2 DEF SpanBytes
      <4> QED BY <3>1, <4>1, SubSeqEmpty
    <3>3. CASE ~InArena(src, name)
      BY <3>3 DEF SpanBytes
    <3> QED BY <3>2, <3>3
  <2> QED BY <2>2, <2>3, EmptyView
<1>2. CASE name.size # 0
  <2>1. c = CopySpan(src, dst, name)
    BY <1>2 DEF CopyOrigin
  <2> QED BY <2>1, CopySpanExact
<1> QED BY <1>1, <1>2

LEMMA CopyEntryExact ==
    ASSUME NEW src \in Arena, NEW dst \in Arena, NEW e, Shaped(e),
           NEW c, c = CopyEntry(src, dst, e), c.ok
    PROVE  Extends(dst, c.arena) /\ View(c.arena, c.entry) = View(src, e)
<1>0. /\ e \in Entry /\ KeyShaped(e.key) /\ ValueShaped(e.value)
      /\ e.wireName \in Span
  BY DEF Shaped, Entry
<1>1. PICK k : k = CopyKey(src, dst, e.key)
  OBVIOUS
<1>2. PICK v : v = IF k.ok THEN CopyValue(src, k.arena, e.value) ELSE [ok |-> FALSE]
  OBVIOUS
<1>3. PICK w : w = IF v.ok THEN CopyOrigin(src, v.arena, e.wireName) ELSE [ok |-> FALSE]
  OBVIOUS
<1>4. c = IF w.ok
          THEN [ok |-> TRUE, arena |-> w.arena,
                entry |-> [e EXCEPT !.key = k.key, !.value = v.value, !.wireName = w.span]]
          ELSE [ok |-> FALSE]
  BY <1>1, <1>2, <1>3 DEF CopyEntry
<1>5. w.ok /\ v.ok /\ k.ok
  BY <1>2, <1>3, <1>4
<1>6. /\ c.arena = w.arena
      /\ c.entry = [e EXCEPT !.key = k.key, !.value = v.value, !.wireName = w.span]
  BY <1>4, <1>5
<1>7. /\ Extends(dst, k.arena) /\ k.arena \in Arena /\ KeyFits(k.arena, k.key)
      /\ ViewKey(k.arena, k.key) = ViewKey(src, e.key)
  <2>1. Extends(dst, k.arena) /\ ViewKey(k.arena, k.key) = ViewKey(src, e.key)
    BY <1>0, <1>1, <1>5, CopyKeyExact
  <2>2. KeyFits(k.arena, k.key)
    BY <1>0, <1>1, <1>5, CopyKeyFits
  <2> QED BY <2>1, <2>2 DEF Extends
<1>8. v = CopyValue(src, k.arena, e.value) /\ w = CopyOrigin(src, v.arena, e.wireName)
  BY <1>2, <1>3, <1>5
<1>9. /\ Extends(k.arena, v.arena) /\ v.arena \in Arena /\ ValueFits(v.arena, v.value)
      /\ ViewValue(v.arena, v.value) = ViewValue(src, e.value)
  <2>1. Extends(k.arena, v.arena) /\ ViewValue(v.arena, v.value) = ViewValue(src, e.value)
    BY <1>0, <1>5, <1>7, <1>8, CopyValueExact
  <2>2. ValueFits(v.arena, v.value)
    BY <1>0, <1>5, <1>7, <1>8, CopyValueFits
  <2> QED BY <2>1, <2>2 DEF Extends
<1>10. Copied(v.arena, w.arena, w.span, SpanBytes(src, e.wireName))
  BY <1>0, <1>5, <1>8, <1>9, CopyOriginExact
<1>11. Extends(v.arena, w.arena)
  BY <1>10 DEF Copied
<1>12. Extends(k.arena, w.arena)
  BY <1>7, <1>9, <1>11, ExtendsTrans
<1>13. Extends(dst, w.arena)
  BY <1>7, <1>12, ExtendsTrans
<1>14. ViewKey(w.arena, k.key) = ViewKey(src, e.key)
  BY <1>7, <1>12, KeyReadsOn
<1>15. ViewValue(w.arena, v.value) = ViewValue(src, e.value)
  BY <1>9, <1>11, ValueReadsOn
<1>16. SpanBytes(w.arena, w.span) = SpanBytes(src, e.wireName)
  BY <1>10 DEF Copied
<1>17. /\ c.entry.key = k.key /\ c.entry.value = v.value /\ c.entry.wireName = w.span
       /\ c.entry.block = e.block /\ c.entry.order = e.order /\ c.entry.wire = e.wire
       /\ c.entry.flags = e.flags
  BY <1>0, <1>6 DEF Entry
<1> QED BY <1>6, <1>13, <1>14, <1>15, <1>16, <1>17 DEF View

-----------------------------------------------------------------------------
(* The list that a store stands for.                                        *)

ListOf(s) == Document(s).entries

LEMMA DocumentIs ==
    ASSUME NEW s
    PROVE  /\ Document(s) = [entries |-> ListOf(s), blocks |-> s.blocks,
                             sealed |-> s.finalized, refused |-> Refused(s)]
           /\ ListOf(s) = [i \in 1..Len(s.entries) |-> View(s.arena, s.entries[i])]
<1>1. ListOf(s) = [i \in 1..Len(s.entries) |-> View(s.arena, s.entries[i])]
  BY DEF Document, ListOf
<1>2. PICK es : es = [i \in 1..Len(s.entries) |-> View(s.arena, s.entries[i])]
  OBVIOUS
<1>3. Document(s) = [entries |-> es, blocks |-> s.blocks,
                     sealed |-> s.finalized, refused |-> Refused(s)]
  BY <1>2 DEF Document
<1>4. ListOf(s) = es
  BY <1>1, <1>2
<1> QED BY <1>1, <1>3, <1>4, Zenon

LEMMA ViewsSame ==
    ASSUME NEW s, Sound(s), NEW t, Extends(s.arena, t.arena), t.entries = s.entries
    PROVE  ListOf(t) = ListOf(s)
<1>1. \A i \in 1..Len(s.entries) : View(t.arena, s.entries[i]) = View(s.arena, s.entries[i])
  BY EntryReadsOn DEF Sound, StoreOK
<1> QED BY <1>1, DocumentIs

IsList(n, f) == f = [i \in 1..n |-> f[i]]
IsLonger(n, f, v, g) == g[n + 1] = v /\ \A i \in 1..n : g[i] = f[i]

LEMMA AppendIs ==
    ASSUME NEW n \in Nat, NEW f, IsList(n, f), NEW v,
           NEW g, IsList(n + 1, g), IsLonger(n, f, v, g)
    PROVE  g = Append(f, v)
<1>1. /\ f = [i \in 1..n |-> f[i]] /\ g = [i \in 1..n + 1 |-> g[i]]
      /\ g[n + 1] = v /\ \A i \in 1..n : g[i] = f[i]
  BY DEF IsList, IsLonger
<1>2. PICK S : S = {f[i] : i \in 1..n} \cup {v}
  OBVIOUS
<1>3. f \in Seq(S) /\ Len(f) = n /\ v \in S
  BY <1>1, <1>2
<1>4. PICK h : h = Append(f, v)
  OBVIOUS
<1>5. /\ h \in Seq(S) /\ Len(h) = n + 1 /\ h[n + 1] = v
      /\ \A i \in 1..n : h[i] = f[i]
  BY <1>3, <1>4, AppendProperties
<1>6. h = [i \in 1..n + 1 |-> h[i]]
  BY <1>5
<1>7. \A i \in 1..n + 1 : h[i] = g[i]
  <2> TAKE i \in 1..n + 1
  <2>1. i = n + 1 \/ i \in 1..n
    OBVIOUS
  <2> QED BY <1>1, <1>5, <2>1
<1> QED BY <1>1, <1>4, <1>6, <1>7

LEMMA ViewsAppend ==
    ASSUME NEW s, Sound(s), NEW t, Extends(s.arena, t.arena), NEW e \in Entry,
           t.entries = Append(s.entries, e)
    PROVE  ListOf(t) = Append(ListOf(s), View(t.arena, e))
<1>1. s.entries \in Seq(Entry) /\ s.arena \in Arena
  BY DEF Sound, StoreOK
<1>2. PICK n : n = Len(s.entries)
  OBVIOUS
<1>3. /\ n \in Nat /\ Len(t.entries) = n + 1 /\ t.entries[n + 1] = e
      /\ \A i \in 1..n : t.entries[i] = s.entries[i]
  BY <1>1, <1>2, AppendProperties
<1>4. \A i \in 1..n : View(t.arena, s.entries[i]) = View(s.arena, s.entries[i])
  BY <1>1, <1>2, EntryReadsOn DEF Sound
<1>5. PICK f : f = ListOf(s)
  OBVIOUS
<1>6. f = [i \in 1..n |-> View(s.arena, s.entries[i])]
  BY <1>2, <1>5, DocumentIs
<1>7. PICK g : g = ListOf(t)
  OBVIOUS
<1>8. g = [i \in 1..n + 1 |-> View(t.arena, t.entries[i])]
  BY <1>3, <1>7, DocumentIs
<1>9. \A i \in 1..n : g[i] = f[i]
  <2> TAKE i \in 1..n
  <2>1. i \in 1..n + 1
    BY <1>3
  <2> QED BY <1>3, <1>4, <1>6, <1>8, <2>1
<1>10. g[n + 1] = View(t.arena, e)
  BY <1>3, <1>8
<1>11. PICK v : v = View(t.arena, e)
  OBVIOUS
<1>12. IsList(n, f) /\ IsList(n + 1, g) /\ IsLonger(n, f, v, g)
  BY <1>6, <1>8, <1>9, <1>10, <1>11 DEF IsList, IsLonger
<1>13. g = Append(f, v)
  BY <1>3, <1>12, AppendIs
<1> QED BY <1>5, <1>7, <1>11, <1>13

\* A function with another value at one place.
Replaced(f, k, v, g) == g = [f EXCEPT ![k] = v]

LEMMA ViewsReplace ==
    ASSUME NEW s, Sound(s), NEW t, Extends(s.arena, t.arena), NEW e,
           NEW k \in 1..Len(s.entries), Replaced(s.entries, k, e, t.entries)
    PROVE  Replaced(ListOf(s), k, View(t.arena, e), ListOf(t))
<1>1. s.entries \in Seq(Entry) /\ s.arena \in Arena
  BY DEF Sound, StoreOK
<1>2. PICK n : n = Len(s.entries)
  OBVIOUS
<1>3. /\ n \in Nat /\ Len(t.entries) = n /\ t.entries[k] = e /\ k \in 1..n
      /\ \A i \in 1..n : i # k => t.entries[i] = s.entries[i]
  BY <1>1, <1>2 DEF Replaced
<1>4. \A i \in 1..n : View(t.arena, s.entries[i]) = View(s.arena, s.entries[i])
  BY <1>1, <1>2, EntryReadsOn DEF Sound
<1>5. ListOf(s) = [i \in 1..n |-> View(s.arena, s.entries[i])]
  BY <1>2, DocumentIs
<1>6. ListOf(t) = [i \in 1..n |-> View(t.arena, t.entries[i])]
  BY <1>3, DocumentIs
<1>7. ASSUME NEW i \in 1..n
      PROVE  View(t.arena, t.entries[i])
               = IF i = k THEN View(t.arena, e) ELSE View(s.arena, s.entries[i])
  BY <1>3, <1>4
<1> QED BY <1>3, <1>5, <1>6, <1>7 DEF Replaced

-----------------------------------------------------------------------------
(* One operation of commit() is one step on the list.                        *)

LEMMA DoIs ==
    ASSUME NEW es, NEW op
    PROVE  /\ op.kind = "AddEntry" => Abstract!Do(es, op) = Append(es, op.content)
           /\ op.kind = "SetValue" => Abstract!Do(es, op) =
                 IF op.target < Len(es)
                 THEN [es EXCEPT ![op.target + 1] =
                          [es[op.target + 1] EXCEPT !.value = op.value,
                                                    !.flags = @ \cup {"Dirty"}]]
                 ELSE es
           /\ op.kind = "SetValueWithWire" => Abstract!Do(es, op) =
                 IF op.target < Len(es)
                 THEN [es EXCEPT ![op.target + 1] =
                          [es[op.target + 1] EXCEPT
                              !.value = op.value, !.wire = op.wire, !.wireName = <<>>,
                              !.flags = (@ \cup {"Dirty"}) \ {"BigEndian"}]]
                 ELSE es
           /\ op.kind = "Tombstone" => Abstract!Do(es, op) =
                 IF op.target < Len(es)
                 THEN [es EXCEPT ![op.target + 1] =
                          [es[op.target + 1] EXCEPT !.flags = @ \cup {"Dirty", "Deleted"}]]
                 ELSE es
BY DEF Abstract!Do, Abstract!Touch

LEMMA ApplyExact ==
    ASSUME NEW s, Sound(s), NEW ar \in Arena, NEW op, OpShaped(op),
           NEW t, t = ApplyOp(s, ar, op), ~IsFailed(t)
    PROVE  /\ ListOf(t) = Abstract!Do(ListOf(s), Operation(ar, op))
           /\ t.blocks = s.blocks
<1>0. /\ s.arena \in Arena /\ s.entries \in Seq(Entry) /\ s.max \in Nat
      /\ \A i \in 1..Len(s.entries) : Fits(s.arena, s.entries[i])
      /\ DOMAIN s = {"arena", "entries", "blocks", "index", "finalized", "max", "over"}
  BY DEF Sound, StoreOK
<1>v. PICK es : es = ListOf(s)
  OBVIOUS
<1>l. /\ Len(es) = Len(s.entries) /\ Len(es) \in Nat
      /\ \A i \in 1..Len(s.entries) : es[i] = View(s.arena, s.entries[i])
  <2>1. PICK n : n = Len(s.entries)
    OBVIOUS
  <2>a. n \in Nat
    BY <1>0, <2>1
  <2>b. es = [i \in 1..n |-> View(s.arena, s.entries[i])]
    BY <1>v, <2>1, DocumentIs
  <2>2. n \in Nat /\ es = [i \in 1..n |-> View(s.arena, s.entries[i])]
    BY <2>a, <2>b
  <2>3. Len(es) = n
    BY <2>2
  <2> QED BY <2>1, <2>2, <2>3
<1>o. PICK o : o = Operation(ar, op)
  OBVIOUS
<1>1. CASE op.kind = "AddEntry"
  <2>1. t = ApplyAdd(s, ar, op) /\ Shaped(op.entry)
    BY <1>1 DEF ApplyOp, OpShaped
  <2>2. PICK c : c = CopyEntry(ar, s.arena, op.entry)
    OBVIOUS
  <2>3. /\ c.ok
        /\ t = [s EXCEPT !.entries = Append(s.entries, c.entry), !.arena = c.arena]
    BY <2>1, <2>2 DEF ApplyAdd, IsFailed
  <2>4. /\ Extends(s.arena, c.arena) /\ View(c.arena, c.entry) = View(ar, op.entry)
        /\ c.entry \in Entry
    <3>1. Extends(s.arena, c.arena) /\ View(c.arena, c.entry) = View(ar, op.entry)
      BY <1>0, <2>1, <2>2, <2>3, CopyEntryExact
    <3>2. Fits(c.arena, c.entry)
      BY <1>0, <2>1, <2>2, <2>3, CopyEntryFits
    <3> QED BY <3>1, <3>2 DEF Fits
  <2>5. /\ t.arena = c.arena /\ t.entries = Append(s.entries, c.entry)
        /\ t.blocks = s.blocks
    BY <1>0, <2>3
  <2>6. ListOf(t) = Append(es, View(ar, op.entry))
    BY <1>v, <2>4, <2>5, ViewsAppend
  <2>7. o.kind = "AddEntry" /\ o.content = View(ar, op.entry)
    BY <1>1, <1>o DEF Operation
  <2>8. Abstract!Do(es, o) = Append(es, View(ar, op.entry))
    BY <2>7, DoIs
  <2> QED BY <1>o, <1>v, <2>5, <2>6, <2>8
<1>2. CASE op.kind \in {"SetValue", "SetValueWithWire"}
  <2>1. /\ t = ApplySet(s, ar, op) /\ ValueShaped(op.value) /\ op.target \in Nat
        /\ op.kind = "SetValueWithWire" => op.wire \in Nat
    BY <1>2 DEF ApplyOp, OpShaped, EditOp
  <2>o. /\ o.kind = op.kind /\ o.target = op.target /\ o.value = ViewValue(ar, op.value)
        /\ op.kind = "SetValueWithWire" => o.wire = op.wire
    <3>1. o = [op EXCEPT !.value = ViewValue(ar, op.value)]
      BY <1>2, <1>o DEF Operation
    <3> QED BY <1>2, <3>1 DEF OpShaped, EditOp
  <2>2. CASE op.target >= Len(s.entries)
    <3>1. t = s
      BY <2>1, <2>2 DEF ApplySet
    <3>2. ~(o.target < Len(es))
      BY <1>l, <2>1, <2>2, <2>o
    <3>3. Abstract!Do(es, o) = es
      BY <1>2, <2>o, <3>2, DoIs
    <3> QED BY <1>o, <1>v, <3>1, <3>3
  <2>3. CASE ~(op.target >= Len(s.entries))
    <3>1. PICK c : c = CopyValue(ar, s.arena, op.value)
      OBVIOUS
    <3>i. PICK i : i = op.target + 1
      OBVIOUS
    <3>e. PICK e : e = s.entries[i]
      OBVIOUS
    <3>2. i \in 1..Len(s.entries) /\ e \in Entry /\ Fits(s.arena, e)
      BY <1>0, <2>1, <2>3, <3>i, <3>e
    <3>3. PICK up : up =
            IF op.kind = "SetValue"
            THEN [e EXCEPT !.value = c.value, !.flags = e.flags \cup {"Dirty"}]
            ELSE [e EXCEPT !.value = c.value, !.wire = op.wire, !.wireName = EmptySpan,
                           !.flags = (e.flags \cup {"Dirty"}) \ {"BigEndian"}]
      OBVIOUS
    <3>4. c.ok /\ t = [s EXCEPT !.arena = c.arena, !.entries[i] = up]
      BY <2>1, <2>3, <3>1, <3>3, <3>i, <3>e DEF ApplySet, IsFailed
    <3>5. /\ Extends(s.arena, c.arena) /\ c.arena \in Arena
          /\ ViewValue(c.arena, c.value) = o.value
      <4>1. Extends(s.arena, c.arena) /\ ViewValue(c.arena, c.value) = ViewValue(ar, op.value)
        BY <1>0, <2>1, <3>1, <3>4, CopyValueExact
      <4> QED BY <2>o, <4>1 DEF Extends
    <3>6. /\ t.arena = c.arena /\ t.entries = [s.entries EXCEPT ![i] = up]
          /\ t.blocks = s.blocks
      BY <1>0, <3>4
    <3>7. ListOf(t) = [es EXCEPT ![i] = View(c.arena, up)]
      <4>1. Extends(s.arena, t.arena)
        BY <3>5, <3>6
      <4>2. Sound(s)
        BY <1>v
      <4>3. /\ i \in 1..Len(s.entries)
            /\ t.entries = [s.entries EXCEPT ![i] = up]
        BY <3>2, <3>6
      <4>4. Replaced(s.entries, i, up, t.entries)
        BY <4>3 DEF Replaced
      <4>5. Replaced(ListOf(s), i, View(t.arena, up), ListOf(t))
        BY <4>1, <4>2, <4>3, <4>4, ViewsReplace
      <4> QED BY <1>v, <3>6, <4>5 DEF Replaced
    <3>8. View(c.arena, e) = es[i]
      BY <1>0, <1>l, <3>2, <3>5, <3>e, EntryReadsOn
    <3>9. PICK v : v = View(c.arena, e)
      OBVIOUS
    <3>a. PICK a : a = c.arena
      OBVIOUS
    <3>r. PICK r : r = View(a, up)
      OBVIOUS
    <3>b. /\ v.key = ViewKey(a, e.key) /\ v.block = e.block /\ v.order = e.order
          /\ v.wire = e.wire /\ v.wireName = SpanBytes(a, e.wireName) /\ v.flags = e.flags
      BY <3>9, <3>a DEF View
    <3>c. /\ r.key = ViewKey(a, up.key) /\ r.value = ViewValue(a, up.value)
          /\ r.block = up.block /\ r.order = up.order /\ r.wire = up.wire
          /\ r.wireName = SpanBytes(a, up.wireName) /\ r.flags = up.flags
      BY <3>r DEF View
    <3>10. o.target < Len(es) /\ o.target + 1 = i
      BY <1>l, <2>1, <2>3, <2>o, <3>i
    <3>11. CASE op.kind = "SetValue"
      <4>1. /\ up.key = e.key /\ up.value = c.value /\ up.block = e.block
            /\ up.order = e.order /\ up.wire = e.wire /\ up.wireName = e.wireName
            /\ up.flags = e.flags \cup {"Dirty"}
        BY <3>2, <3>3, <3>11 DEF Entry
      <4>a. /\ r.key = v.key /\ r.block = v.block /\ r.order = v.order
            /\ r.wire = v.wire /\ r.wireName = v.wireName
            /\ r.value = o.value /\ r.flags = v.flags \cup {"Dirty"}
        BY <3>5, <3>a, <3>b, <3>c, <4>1
      <4>b. r = [v EXCEPT !.value = r.value, !.flags = r.flags]
        BY <3>9, <3>a, <3>r, <4>a DEF View
      <4>2. View(c.arena, up) = [v EXCEPT !.value = o.value, !.flags = @ \cup {"Dirty"}]
        BY <3>a, <3>r, <4>a, <4>b
      <4>3. Abstract!Do(es, o) = [es EXCEPT ![i] = [es[i] EXCEPT !.value = o.value,
                                                              !.flags = @ \cup {"Dirty"}]]
        BY <2>o, <3>10, <3>11, DoIs
      <4> QED BY <1>o, <1>v, <3>6, <3>7, <3>8, <3>9, <4>2, <4>3
    <3>12. CASE op.kind = "SetValueWithWire"
      <4>1. /\ up.key = e.key /\ up.value = c.value /\ up.block = e.block
            /\ up.order = e.order /\ up.wire = op.wire /\ up.wireName = EmptySpan
            /\ up.flags = (e.flags \cup {"Dirty"}) \ {"BigEndian"}
        BY <3>2, <3>3, <3>12 DEF Entry
      <4>e. SpanBytes(c.arena, EmptySpan) = <<>>
        BY <3>5, EmptyView
      <4>2. View(c.arena, up) =
              [v EXCEPT !.value = o.value, !.wire = o.wire, !.wireName = <<>>,
                        !.flags = (@ \cup {"Dirty"}) \ {"BigEndian"}]
        <5>1. /\ r.key = v.key /\ r.block = v.block /\ r.order = v.order
              /\ r.wire = o.wire /\ r.wireName = <<>> /\ r.value = o.value
              /\ r.flags = (v.flags \cup {"Dirty"}) \ {"BigEndian"}
          BY <2>o, <3>5, <3>12, <3>a, <3>b, <3>c, <4>1, <4>e
        <5>2. r = [v EXCEPT !.value = r.value, !.wire = r.wire, !.wireName = r.wireName,
                            !.flags = r.flags]
          BY <3>9, <3>a, <3>r, <5>1 DEF View
        <5> QED BY <3>a, <3>r, <5>1, <5>2
      <4>3. Abstract!Do(es, o) =
              [es EXCEPT ![i] = [es[i] EXCEPT !.value = o.value, !.wire = o.wire,
                                   !.wireName = <<>>,
                                   !.flags = (@ \cup {"Dirty"}) \ {"BigEndian"}]]
        BY <2>o, <3>10, <3>12, DoIs
      <4> QED BY <1>o, <1>v, <3>6, <3>7, <3>8, <3>9, <4>2, <4>3
    <3> QED BY <1>2, <3>11, <3>12
  <2> QED BY <2>2, <2>3
<1>3. CASE op.kind = "Tombstone"
  <2>1. t = ApplyTombstone(s, op) /\ op.target \in Nat /\ o = op
    BY <1>3, <1>o DEF ApplyOp, OpShaped, EditOp, Operation
  <2>2. CASE op.target >= Len(s.entries)
    <3>1. t = s
      BY <2>1, <2>2 DEF ApplyTombstone
    <3>2. ~(o.target < Len(es))
      BY <1>l, <2>1, <2>2
    <3>3. Abstract!Do(es, o) = es
      BY <1>3, <2>1, <3>2, DoIs
    <3> QED BY <1>o, <1>v, <3>1, <3>3
  <2>3. CASE ~(op.target >= Len(s.entries))
    <3>i. PICK i : i = op.target + 1
      OBVIOUS
    <3>e. PICK e : e = s.entries[i]
      OBVIOUS
    <3>1. i \in 1..Len(s.entries) /\ e \in Entry
      BY <1>0, <2>1, <2>3, <3>i, <3>e
    <3>2. PICK up : up = [e EXCEPT !.flags = @ \cup {"Deleted", "Dirty"}]
      OBVIOUS
    <3>3. t = [s EXCEPT !.entries[i] = up]
      BY <2>1, <2>3, <3>i, <3>e, <3>2 DEF ApplyTombstone
    <3>4. /\ t.arena = s.arena /\ t.entries = [s.entries EXCEPT ![i] = up]
          /\ t.blocks = s.blocks
      BY <1>0, <3>3
    <3>5. ListOf(t) = [es EXCEPT ![i] = View(s.arena, up)]
      <4>1. Extends(s.arena, t.arena) /\ t.arena = s.arena
        BY <1>0, <3>4, ExtendsRefl
      <4>b. /\ i \in 1..Len(s.entries) /\ t.entries = [s.entries EXCEPT ![i] = up]
            /\ Extends(s.arena, t.arena)
        BY <3>1, <3>4, <4>1
      <4>2. Sound(s)
        BY <1>v
      <4>3. Replaced(s.entries, i, up, t.entries)
        BY <4>b DEF Replaced
      <4>4. Replaced(ListOf(s), i, View(t.arena, up), ListOf(t))
        BY <4>b, <4>2, <4>3, ViewsReplace
      <4> QED BY <1>v, <4>1, <4>4 DEF Replaced
    <3>6. /\ up.key = e.key /\ up.value = e.value /\ up.block = e.block
          /\ up.order = e.order /\ up.wire = e.wire /\ up.wireName = e.wireName
          /\ up.flags = e.flags \cup {"Dirty", "Deleted"}
      BY <3>1, <3>2 DEF Entry
    <3>7. View(s.arena, up) = [View(s.arena, e) EXCEPT !.flags = @ \cup {"Dirty", "Deleted"}]
      BY <3>6 DEF View
    <3>8. View(s.arena, e) = es[i]
      BY <1>l, <3>1, <3>e
    <3>9. o.target < Len(es) /\ o.target + 1 = i /\ o.kind = "Tombstone"
      BY <1>3, <1>l, <2>1, <2>3, <3>i
    <3>10. Abstract!Do(es, o)
             = [es EXCEPT ![i] = [es[i] EXCEPT !.flags = @ \cup {"Dirty", "Deleted"}]]
      BY <3>9, DoIs
    <3> QED BY <1>o, <1>v, <3>4, <3>5, <3>7, <3>8, <3>10
  <2> QED BY <2>2, <2>3
<1> QED BY <1>1, <1>2, <1>3 DEF OpShaped, EditOp

-----------------------------------------------------------------------------
(* The loops of the abstract document: applying a list of operations,        *)
(* joining the drafts, keeping the living.  Each is a function on a range    *)
(* of numbers that exists by induction on the end of the range.              *)

\* The list after each of some operations.
IsAfter(es, ops, m, f) ==
    f = [n \in 0..m |-> IF n = 0 THEN es ELSE Abstract!Do(f[n - 1], ops[n])]
HasAfter(es, ops, m) == \E f : IsAfter(es, ops, m, f)
After(es, ops) == CHOOSE f : IsAfter(es, ops, Len(ops), f)

LEMMA AfterExists ==
    ASSUME NEW es, NEW ops, NEW k \in Nat PROVE HasAfter(es, ops, k)
<1> DEFINE S == {m \in Nat : HasAfter(es, ops, m)}
<1>1. 0 \in S
  <2>1. PICK f : f = [i \in 0..0 |-> es]
    OBVIOUS
  <2>2. \A i \in 0..0 : i = 0
    OBVIOUS
  <2>3. IsAfter(es, ops, 0, f)
    BY <2>1, <2>2 DEF IsAfter
  <2> QED BY <2>3 DEF HasAfter
<1>2. ASSUME NEW m \in Nat, m \in S PROVE m + 1 \in S
  <2>1. PICK f : IsAfter(es, ops, m, f)
    BY <1>2 DEF HasAfter
  <2>2. PICK g : g = [i \in 0..m + 1 |->
                        IF i = m + 1 THEN Abstract!Do(f[m], ops[i]) ELSE f[i]]
    OBVIOUS
  <2>3. \A i \in 0..m : g[i] = f[i]
    BY <2>2
  <2>4. ASSUME NEW i \in 0..m + 1
        PROVE  g[i] = IF i = 0 THEN es ELSE Abstract!Do(g[i - 1], ops[i])
    <3>1. CASE i = m + 1
      <4>1. i # 0 /\ i - 1 = m /\ m \in 0..m
        BY <3>1
      <4> QED BY <2>2, <2>3, <3>1, <4>1
    <3>2. CASE i # m + 1
      <4>1. i \in 0..m /\ (i # 0 => i - 1 \in 0..m)
        BY <3>2
      <4>2. f[i] = IF i = 0 THEN es ELSE Abstract!Do(f[i - 1], ops[i])
        BY <2>1, <4>1 DEF IsAfter
      <4> QED BY <2>3, <4>1, <4>2
    <3> QED BY <3>1, <3>2
  <2>5. g = [i \in 0..m + 1 |-> g[i]]
    BY <2>2
  <2>6. IsAfter(es, ops, m + 1, g)
    BY <2>4, <2>5 DEF IsAfter
  <2> QED BY <2>6 DEF HasAfter
<1> HIDE DEF S
<1>3. k \in S
  BY <1>1, <1>2, Induction
<1> QED BY <1>3 DEF S

LEMMA AfterIs ==
    ASSUME NEW es, NEW ops, Len(ops) \in Nat
    PROVE  /\ After(es, ops)[0] = es
           /\ \A n \in 1..Len(ops) :
                 After(es, ops)[n] = Abstract!Do(After(es, ops)[n - 1], ops[n])
           /\ Abstract!Applied(es, ops) = After(es, ops)[Len(ops)]
<1>1. PICK m : m = Len(ops)
  OBVIOUS
<1>2. PICK f : f = After(es, ops)
  OBVIOUS
<1>3. IsAfter(es, ops, m, f)
  <2>1. HasAfter(es, ops, m)
    BY <1>1, AfterExists
  <2> QED BY <1>1, <1>2, <2>1 DEF HasAfter, After
<1>4. f[0] = es
  <2>1. 0 \in 0..m
    BY <1>1
  <2> QED BY <1>3, <2>1 DEF IsAfter
<1>5. ASSUME NEW n \in 1..m PROVE f[n] = Abstract!Do(f[n - 1], ops[n])
  <2>1. n \in 0..m /\ n # 0
    BY <1>1
  <2> QED BY <1>3, <2>1 DEF IsAfter
<1>6. Abstract!Applied(es, ops) = After(es, ops)[Len(ops)]
  BY DEF Abstract!Applied, After, IsAfter
<1> QED BY <1>1, <1>2, <1>4, <1>5, <1>6

\* What is in all drafts up to one of them.
Drafts == [b \in 1..Buffers |->
              IF edits[b].arena.over THEN [void |-> TRUE, ops |-> <<>>]
              ELSE [void |-> FALSE,
                    ops |-> [i \in 1..Len(edits[b].ops) |->
                                Operation(edits[b].arena, edits[b].ops[i])]]]

IsUpto(drafts, m, f) ==
    f = [b \in 0..m |-> IF b = 0 THEN <<>> ELSE f[b - 1] \o drafts[b].ops]
HasUpto(drafts, m) == \E f : IsUpto(drafts, m, f)
Upto(drafts) == CHOOSE f : IsUpto(drafts, Buffers, f)

LEMMA UptoExists ==
    ASSUME NEW drafts, NEW k \in Nat PROVE HasUpto(drafts, k)
<1> DEFINE S == {m \in Nat : HasUpto(drafts, m)}
<1>1. 0 \in S
  <2>1. PICK f : f = [i \in 0..0 |-> <<>>]
    OBVIOUS
  <2>2. \A i \in 0..0 : i = 0
    OBVIOUS
  <2>3. IsUpto(drafts, 0, f)
    BY <2>1, <2>2 DEF IsUpto
  <2> QED BY <2>3 DEF HasUpto
<1>2. ASSUME NEW m \in Nat, m \in S PROVE m + 1 \in S
  <2>1. PICK f : IsUpto(drafts, m, f)
    BY <1>2 DEF HasUpto
  <2>2. PICK g : g = [i \in 0..m + 1 |->
                        IF i = m + 1 THEN f[m] \o drafts[i].ops ELSE f[i]]
    OBVIOUS
  <2>3. \A i \in 0..m : g[i] = f[i]
    BY <2>2
  <2>4. ASSUME NEW i \in 0..m + 1
        PROVE  g[i] = IF i = 0 THEN <<>> ELSE g[i - 1] \o drafts[i].ops
    <3>1. CASE i = m + 1
      <4>1. i # 0 /\ i - 1 = m /\ m \in 0..m
        BY <3>1
      <4> QED BY <2>2, <2>3, <3>1, <4>1
    <3>2. CASE i # m + 1
      <4>1. i \in 0..m /\ (i # 0 => i - 1 \in 0..m)
        BY <3>2
      <4>2. f[i] = IF i = 0 THEN <<>> ELSE f[i - 1] \o drafts[i].ops
        BY <2>1, <4>1 DEF IsUpto
      <4> QED BY <2>3, <4>1, <4>2
    <3> QED BY <3>1, <3>2
  <2>5. g = [i \in 0..m + 1 |-> g[i]]
    BY <2>2
  <2>6. IsUpto(drafts, m + 1, g)
    BY <2>4, <2>5 DEF IsUpto
  <2> QED BY <2>6 DEF HasUpto
<1> HIDE DEF S
<1>3. k \in S
  BY <1>1, <1>2, Induction
<1> QED BY <1>3 DEF S

\* The drafts are joined in their order, each behind the ones before it.
JoinedUpTo(drafts, f, S, b) ==
    /\ f[b] \in Seq(S)
    /\ \A c \in 0..b :
          /\ Len(f[c]) \in Nat /\ Len(f[c]) <= Len(f[b])
          /\ \A i \in 1..Len(f[c]) : f[b][i] = f[c][i]

RecordedIn(drafts, S) == \A b \in 1..Buffers : drafts[b].ops \in Seq(S)

LEMMA UptoIs ==
    ASSUME NEW drafts, NEW S, RecordedIn(drafts, S),
           NEW f, f = Upto(drafts)
    PROVE  /\ f[0] = <<>>
           /\ \A b \in 1..Buffers : f[b] = f[b - 1] \o drafts[b].ops
           /\ \A b \in 0..Buffers : JoinedUpTo(drafts, f, S, b)
<1>1. Buffers \in Nat
  BY StoreAssumption
<1>2. IsUpto(drafts, Buffers, f)
  BY <1>1, UptoExists DEF HasUpto, Upto
<1>3. f[0] = <<>>
  <2>1. 0 \in 0..Buffers
    BY <1>1
  <2> QED BY <1>2, <2>1 DEF IsUpto
<1>4. ASSUME NEW b \in 1..Buffers PROVE f[b] = f[b - 1] \o drafts[b].ops
  <2>1. b \in 0..Buffers /\ b # 0
    BY <1>1
  <2> QED BY <1>2, <2>1 DEF IsUpto
<1> DEFINE T == {b \in Nat : b <= Buffers => JoinedUpTo(drafts, f, S, b)}
<1>5. 0 \in T
  <2>1. \A c \in 0..0 : c = 0
    OBVIOUS
  <2>2. f[0] \in Seq(S) /\ Len(f[0]) = 0
    BY <1>3
  <2> QED BY <2>1, <2>2 DEF JoinedUpTo
<1>6. ASSUME NEW b \in Nat, b \in T PROVE b + 1 \in T
  <2> SUFFICES ASSUME b + 1 <= Buffers PROVE JoinedUpTo(drafts, f, S, b + 1)
    OBVIOUS
  <2>1. JoinedUpTo(drafts, f, S, b)
    BY <1>1, <1>6
  <2>2. PICK x : x = f[b]
    OBVIOUS
  <2>3. PICK y : y = drafts[b + 1].ops
    OBVIOUS
  <2>4. PICK z : z = f[b + 1]
    OBVIOUS
  <2>5. b + 1 \in 1..Buffers /\ (b + 1) - 1 = b
    BY <1>1
  <2>6. z = x \o y /\ x \in Seq(S) /\ y \in Seq(S)
    BY <1>4, <2>1, <2>2, <2>3, <2>4, <2>5 DEF JoinedUpTo, RecordedIn
  <2>7. /\ z \in Seq(S) /\ Len(z) = Len(x) + Len(y) /\ Len(x) \in Nat /\ Len(y) \in Nat
        /\ \A i \in 1..Len(x) : z[i] = x[i]
    BY <2>6, ConcatProperties
  <2>8. ASSUME NEW c \in 0..b + 1
        PROVE  /\ Len(f[c]) \in Nat /\ Len(f[c]) <= Len(z)
               /\ \A i \in 1..Len(f[c]) : z[i] = f[c][i]
    <3>1. CASE c = b + 1
      BY <2>4, <2>7, <3>1
    <3>2. CASE c # b + 1
      <4>1. c \in 0..b
        BY <3>2
      <4>2. /\ Len(f[c]) \in Nat /\ Len(f[c]) <= Len(x)
            /\ \A i \in 1..Len(f[c]) : x[i] = f[c][i]
        BY <2>1, <2>2, <4>1 DEF JoinedUpTo
      <4>3. PICK n : n = Len(f[c])
        OBVIOUS
      <4>4. \A i \in 1..n : i \in 1..Len(x)
        BY <2>7, <4>2, <4>3
      <4> QED BY <2>7, <4>2, <4>3, <4>4
    <3> QED BY <3>1, <3>2
  <2> QED BY <2>4, <2>7, <2>8 DEF JoinedUpTo
<1> HIDE DEF T
<1>7. Nat \subseteq T
  BY <1>5, <1>6, Induction
<1>8. ASSUME NEW b \in 0..Buffers PROVE JoinedUpTo(drafts, f, S, b)
  BY <1>1, <1>7 DEF T
<1> QED BY <1>3, <1>4, <1>8

LEMMA AllDraftsIs == Abstract!AllDrafts = Upto(Drafts)[Buffers]
BY DEF Abstract!AllDrafts, Upto, IsUpto, Drafts

\* Where the operations of one draft are among all: behind those before it.
Placed(drafts, S, f, b) ==
    /\ f[Buffers] \in Seq(S) /\ Len(f[b - 1]) \in Nat
    /\ Len(f[b]) = Len(f[b - 1]) + Len(drafts[b].ops) /\ Len(f[b]) <= Len(f[Buffers])
    /\ \A i \in 1..Len(drafts[b].ops) :
          f[Buffers][Len(f[b - 1]) + i] = drafts[b].ops[i]

LEMMA PlaceOfDraft ==
    ASSUME NEW drafts, NEW S, RecordedIn(drafts, S),
           NEW f, f = Upto(drafts), NEW b \in 1..Buffers
    PROVE  Placed(drafts, S, f, b)
<1>0. PICK all : all = f[Buffers]
  OBVIOUS
<1>1. Buffers \in Nat
  BY StoreAssumption
<1>2. /\ f[b] = f[b - 1] \o drafts[b].ops
      /\ JoinedUpTo(drafts, f, S, b - 1)
      /\ JoinedUpTo(drafts, f, S, Buffers)
  <2>1. /\ \A c \in 1..Buffers : f[c] = f[c - 1] \o drafts[c].ops
        /\ \A c \in 0..Buffers : JoinedUpTo(drafts, f, S, c)
    BY UptoIs
  <2>2. b - 1 \in 0..Buffers /\ Buffers \in 0..Buffers
    BY <1>1
  <2> QED BY <2>1, <2>2
<1>3. PICK x : x = f[b - 1]
  OBVIOUS
<1>4. PICK y : y = drafts[b].ops
  OBVIOUS
<1>5. PICK z : z = f[b]
  OBVIOUS
<1>6. x \in Seq(S) /\ y \in Seq(S) /\ z = x \o y /\ all \in Seq(S)
  BY <1>0, <1>2, <1>3, <1>4, <1>5 DEF JoinedUpTo, RecordedIn
<1>7. /\ Len(z) = Len(x) + Len(y) /\ Len(x) \in Nat /\ Len(y) \in Nat
      /\ \A i \in 1..Len(x) + Len(y) :
            z[i] = IF i <= Len(x) THEN x[i] ELSE y[i - Len(x)]
  BY <1>6, ConcatProperties
<1>8. /\ Len(z) <= Len(all)
      /\ \A i \in 1..Len(z) : all[i] = z[i]
  <2>1. b \in 0..Buffers
    BY <1>1
  <2> QED BY <1>0, <1>2, <1>5, <2>1 DEF JoinedUpTo
<1>9. ASSUME NEW i \in 1..Len(y) PROVE all[Len(x) + i] = y[i]
  <2>1. /\ Len(x) + i \in 1..Len(z) /\ ~(Len(x) + i <= Len(x))
        /\ (Len(x) + i) - Len(x) = i
    BY <1>7
  <2> QED BY <1>7, <1>8, <2>1
<1> QED BY <1>0, <1>3, <1>4, <1>5, <1>6, <1>7, <1>8, <1>9 DEF Placed

\* The living among the first entries.
IsAmong(es, m, f) ==
    f = [n \in 0..m |-> IF n = 0 THEN <<>>
                        ELSE IF "Deleted" \in es[n].flags THEN f[n - 1]
                        ELSE Append(f[n - 1], es[n])]
HasAmong(es, m) == \E f : IsAmong(es, m, f)
Among(es) == CHOOSE f : IsAmong(es, Len(es), f)

LEMMA AmongExists ==
    ASSUME NEW es, NEW k \in Nat PROVE HasAmong(es, k)
<1> DEFINE S == {m \in Nat : HasAmong(es, m)}
<1>1. 0 \in S
  <2>1. PICK f : f = [i \in 0..0 |-> <<>>]
    OBVIOUS
  <2>2. \A i \in 0..0 : i = 0
    OBVIOUS
  <2>3. IsAmong(es, 0, f)
    BY <2>1, <2>2 DEF IsAmong
  <2> QED BY <2>3 DEF HasAmong
<1>2. ASSUME NEW m \in Nat, m \in S PROVE m + 1 \in S
  <2>1. PICK f : IsAmong(es, m, f)
    BY <1>2 DEF HasAmong
  <2>2. PICK g : g = [i \in 0..m + 1 |->
                        IF i # m + 1 THEN f[i]
                        ELSE IF "Deleted" \in es[i].flags THEN f[m]
                        ELSE Append(f[m], es[i])]
    OBVIOUS
  <2>3. \A i \in 0..m : g[i] = f[i]
    BY <2>2
  <2>4. ASSUME NEW i \in 0..m + 1
        PROVE  g[i] = IF i = 0 THEN <<>>
                      ELSE IF "Deleted" \in es[i].flags THEN g[i - 1]
                      ELSE Append(g[i - 1], es[i])
    <3>1. CASE i = m + 1
      <4>1. i # 0 /\ i - 1 = m /\ m \in 0..m
        BY <3>1
      <4> QED BY <2>2, <2>3, <3>1, <4>1
    <3>2. CASE i # m + 1
      <4>1. i \in 0..m /\ (i # 0 => i - 1 \in 0..m)
        BY <3>2
      <4>2. f[i] = IF i = 0 THEN <<>>
                   ELSE IF "Deleted" \in es[i].flags THEN f[i - 1]
                   ELSE Append(f[i - 1], es[i])
        BY <2>1, <4>1 DEF IsAmong
      <4> QED BY <2>3, <4>1, <4>2
    <3> QED BY <3>1, <3>2
  <2>5. g = [i \in 0..m + 1 |-> g[i]]
    BY <2>2
  <2>6. IsAmong(es, m + 1, g)
    BY <2>4, <2>5 DEF IsAmong
  <2> QED BY <2>6 DEF HasAmong
<1> HIDE DEF S
<1>3. k \in S
  BY <1>1, <1>2, Induction
<1> QED BY <1>3 DEF S

LEMMA AmongIs ==
    ASSUME NEW es, Len(es) \in Nat
    PROVE  /\ Among(es)[0] = <<>>
           /\ \A n \in 1..Len(es) :
                 Among(es)[n] = IF "Deleted" \in es[n].flags THEN Among(es)[n - 1]
                                ELSE Append(Among(es)[n - 1], es[n])
           /\ Abstract!Living(es) = Among(es)[Len(es)]
<1>1. PICK m : m = Len(es)
  OBVIOUS
<1>2. PICK f : f = Among(es)
  OBVIOUS
<1>3. IsAmong(es, m, f)
  <2>1. HasAmong(es, m)
    BY <1>1, AmongExists
  <2> QED BY <1>1, <1>2, <2>1 DEF HasAmong, Among
<1>4. f[0] = <<>>
  <2>1. 0 \in 0..m
    BY <1>1
  <2> QED BY <1>3, <2>1 DEF IsAmong
<1>5. ASSUME NEW n \in 1..m
      PROVE  f[n] = IF "Deleted" \in es[n].flags THEN f[n - 1] ELSE Append(f[n - 1], es[n])
  <2>1. n \in 0..m /\ n # 0
    BY <1>1
  <2> QED BY <1>3, <2>1 DEF IsAmong
<1>6. Abstract!Living(es) = Among(es)[Len(es)]
  BY DEF Abstract!Living, Among, IsAmong
<1> QED BY <1>1, <1>2, <1>4, <1>5, <1>6

-----------------------------------------------------------------------------
(* What the refinement needs to know of the states.  A draft becomes void    *)
(* only once the document is sealed, so buffers must be empty before; what   *)
(* buffers hold must read as it did when it was recorded; and the local copy *)
(* of a running call stands for a list between the two of the abstract step. *)

Nothing == [none |-> TRUE]
Answered == IF returned = NoStore THEN Nothing ELSE Document(returned)

OpFits(a, op) ==
    /\ op.kind = "AddEntry" => Fits(a, op.entry)
    /\ op.kind \in {"SetValue", "SetValueWithWire"} => ValueFits(a, op.value)

EditsRead ==
    \A b \in 1..Buffers : \A i \in 1..Len(edits[b].ops) :
        OpFits(edits[b].arena, edits[b].ops[i])

NothingYet ==
    ~store.finalized => \A b \in 1..Buffers :
        edits[b].arena.buf = <<>> /\ ~edits[b].arena.over

\* The operations of commit() that are done.
Done == Len(Upto(Drafts)[job.edit - 1]) + job.op - 1

CommitAt ==
    job # NoJob /\ job.kind = "commit" =>
        /\ \A b \in 1..Buffers : ~edits[b].arena.over
        /\ job.edit \in 1..Buffers => job.op <= Len(edits[job.edit].ops) + 1
        /\ job.edit = Buffers + 1 => job.op = 1
        /\ ListOf(job.out) = After(ListOf(store), Upto(Drafts)[Buffers])[Done]
        /\ job.out.blocks = store.blocks

CompactAt ==
    job # NoJob /\ job.kind = "compact" =>
        /\ ListOf(job.out) = Among(ListOf(store))[job.next]
        /\ job.out.blocks = store.blocks

DocInv == Inv /\ EditsRead /\ NothingYet /\ CommitAt /\ CompactAt

LEMMA StoreIsSomething ==
    ASSUME NEW s, StoreOK(s) PROVE s # NoStore
<1>1. "none" \in DOMAIN NoStore /\ "none" \notin DOMAIN s
  BY DEF NoStore, StoreOK
<1> QED BY <1>1

LEMMA DocumentIsSomething == ASSUME NEW s PROVE Document(s) # Nothing
<1>1. "none" \in DOMAIN Nothing /\ "none" \notin DOMAIN Document(s)
  BY DEF Nothing, Document
<1> QED BY <1>1

LEMMA LensOfLists ==
    ASSUME NEW s, StoreOK(s)
    PROVE  /\ Len(ListOf(s)) = Len(s.entries) /\ Len(ListOf(s)) \in Nat
           /\ \A i \in 1..Len(s.entries) : ListOf(s)[i] = View(s.arena, s.entries[i])
<1>1. PICK n : n = Len(s.entries)
  OBVIOUS
<1>2. n \in Nat
  BY <1>1 DEF StoreOK
<1>3. ListOf(s) = [i \in 1..n |-> View(s.arena, s.entries[i])]
  BY <1>1, DocumentIs
<1>4. Len(ListOf(s)) = n
  BY <1>2, <1>3
<1> QED BY <1>1, <1>2, <1>3, <1>4

-----------------------------------------------------------------------------
(* The steps of the abstract document.                                       *)

\* Nothing but the document changes, and no answer is waiting.
DocumentAlone == Answered = Nothing /\ Answered' = Answered /\ Drafts' = Drafts

LEMMA IsStutter ==
    ASSUME Answered' = Answered, Drafts' = Drafts, Document(store') = Document(store)
    PROVE  UNCHANGED Abstract!vars
BY DEF Answered, Nothing, Drafts, Abstract!vars

LEMMA IsRefuse ==
    ASSUME DocumentAlone, NEW yes, yes = TRUE,
           Document(store') = [Document(store) EXCEPT !.refused = yes]
    PROVE  Abstract!Next
BY DEF DocumentAlone, Answered, Nothing, Drafts, Abstract!Next, Abstract!Refuse,
       Abstract!Becomes, Abstract!NoAnswer

LEMMA IsExtend ==
    ASSUME DocumentAlone, ~Document(store).sealed,
           NEW c, c \in Requests \/ \E i \in DOMAIN Document(store).entries :
                                       c = Document(store).entries[i],
           Document(store') = [Document(store) EXCEPT !.entries = Append(@, c)]
    PROVE  Abstract!Next
<1>1. c \in Requests \cup Abstract!ToSet(Document(store).entries)
  BY DEF Abstract!ToSet
<1> QED BY <1>1 DEF DocumentAlone, Answered, Nothing, Drafts, Abstract!Next,
       Abstract!Extend, Abstract!Becomes, Abstract!NoAnswer

LEMMA IsAddBlock ==
    ASSUME DocumentAlone, ~Document(store).sealed,
           Document(store') = [Document(store) EXCEPT !.blocks = @ + 1]
    PROVE  Abstract!Next
BY DEF DocumentAlone, Answered, Nothing, Drafts, Abstract!Next, Abstract!AddBlock,
       Abstract!Becomes, Abstract!NoAnswer

LEMMA IsSeal ==
    ASSUME DocumentAlone, NEW yes, yes = TRUE,
           Document(store') = [Document(store) EXCEPT !.sealed = yes]
    PROVE  Abstract!Next
BY DEF DocumentAlone, Answered, Nothing, Drafts, Abstract!Next, Abstract!Seal,
       Abstract!Becomes, Abstract!NoAnswer

LEMMA IsDraft ==
    ASSUME Answered = Nothing, Answered' = Answered, Document(store') = Document(store),
           Document(store).sealed, NEW b \in 1..Buffers, ~Drafts[b].void,
           \/ \E op \in Abstract!Operations : Drafts' = [Drafts EXCEPT ![b].ops = Append(@, op)]
           \/ Drafts' = [Drafts EXCEPT ![b] = [void |-> TRUE, ops |-> <<>>]]
    PROVE  Abstract!Next
BY DEF Answered, Nothing, Drafts, Abstract!Next, Abstract!Draft, Abstract!Void,
       Abstract!NoAnswer

LEMMA IsDropDrafts ==
    ASSUME Answered = Nothing, Answered' = Answered, Document(store') = Document(store),
           Drafts' = [b \in 1..Buffers |-> [void |-> FALSE, ops |-> <<>>]]
    PROVE  Abstract!Next
BY DEF Answered, Nothing, Drafts, Abstract!Next, Abstract!DropDrafts, Abstract!Empty,
       Abstract!NoAnswer

\* A call answers, and leaves the document and the drafts alone.
Answers(d) ==
    /\ Answered = Nothing /\ Answered' = d
    /\ Drafts' = Drafts /\ Document(store') = Document(store)

LEMMA IsAnswerRefused ==
    ASSUME NEW yes, yes = TRUE, Answers([Document(store) EXCEPT !.refused = yes])
    PROVE  Abstract!Next
BY DEF Answers, Answered, Nothing, Drafts, Abstract!Next, Abstract!AnswerRefused,
       Abstract!Answer, Abstract!NoAnswer

LEMMA IsCommit ==
    ASSUME ~Document(store).refused, \A b \in 1..Buffers : ~Drafts[b].void,
           NEW yes, yes = TRUE,
           NEW es, es = Abstract!Applied(Document(store).entries, Abstract!AllDrafts),
           Answers([Document(store) EXCEPT !.sealed = yes, !.entries = es])
    PROVE  Abstract!Next
BY DEF Answers, Answered, Nothing, Drafts, Abstract!Next, Abstract!Commit,
       Abstract!Answer, Abstract!NoAnswer

LEMMA IsCompact ==
    ASSUME ~Document(store).refused,
           NEW yes, yes = TRUE, NEW es, es = Abstract!Living(Document(store).entries),
           Answers([Document(store) EXCEPT !.sealed = yes, !.entries = es])
    PROVE  Abstract!Next
BY DEF Answers, Answered, Nothing, Drafts, Abstract!Next, Abstract!Compact,
       Abstract!Answer, Abstract!NoAnswer

LEMMA IsAdopt ==
    ASSUME Answered # Nothing, Answered' = Nothing, Drafts' = Drafts,
           Document(store') = Answered
    PROVE  Abstract!Next
BY DEF Answered, Nothing, Drafts, Abstract!Next, Abstract!Adopt, Abstract!NoAnswer

LEMMA IsDrop ==
    ASSUME Answered # Nothing, Answered.refused, Answered' = Nothing, Drafts' = Drafts,
           Document(store') = Document(store)
    PROVE  Abstract!Next
BY DEF Answered, Nothing, Drafts, Abstract!Next, Abstract!Drop, Abstract!NoAnswer

-----------------------------------------------------------------------------
(* Building the store: what changes the store alone.                         *)

LEMMA OnStoreDoc ==
    ASSUME DocInv, Inv', NEW s, OnStore(s), store.finalized => s.finalized
    PROVE  DocInv' /\ DocumentAlone /\ store' = s
<1>1. /\ store' = s /\ edits' = edits /\ job' = job /\ returned' = returned
      /\ job = NoJob /\ returned = NoStore
  BY DEF OnStore, Idle
<1>2. EditsRead'
  BY <1>1 DEF DocInv, EditsRead
<1>3. NothingYet'
  BY <1>1 DEF DocInv, NothingYet
<1>4. CommitAt' /\ CompactAt'
  BY <1>1 DEF CommitAt, CompactAt
<1>5. DocumentAlone
  BY <1>1 DEF DocumentAlone, Answered, Drafts
<1> QED BY <1>1, <1>2, <1>3, <1>4, <1>5 DEF DocInv

\* The list and the seal stay, and no refusal is forgotten.
Keeps(s, t) ==
    /\ ListOf(t) = ListOf(s) /\ t.blocks = s.blocks /\ t.finalized = s.finalized
    /\ Refused(s) => Refused(t)

LEMMA RefuseOrNothing ==
    ASSUME DocumentAlone, Keeps(store, store')
    PROVE  Abstract!Next \/ UNCHANGED Abstract!vars
<1>1. Document(store) = [entries |-> ListOf(store), blocks |-> store.blocks,
                         sealed |-> store.finalized, refused |-> Refused(store)]
  BY DocumentIs
<1>2. Document(store') = [entries |-> ListOf(store), blocks |-> store.blocks,
                          sealed |-> store.finalized, refused |-> Refused(store')]
  BY DocumentIs DEF Keeps
<1>3. PICK r : r = Refused(store)
  OBVIOUS
<1>4. PICK q : q = Refused(store')
  OBVIOUS
<1>5. r \in BOOLEAN /\ q \in BOOLEAN /\ (r => q)
  BY <1>3, <1>4 DEF Keeps, Refused
<1>6. CASE q = r
  <2>1. Document(store') = Document(store)
    BY <1>1, <1>2, <1>3, <1>4, <1>6
  <2> QED BY <2>1, IsStutter DEF DocumentAlone
<1>7. CASE q # r
  <2>1. q = TRUE
    BY <1>5, <1>7
  <2>2. PICK d : d = Document(store)
    OBVIOUS
  <2>3. PICK f : f = Document(store')
    OBVIOUS
  <2>4. PICK e, b, y : e = ListOf(store) /\ b = store.blocks /\ y = store.finalized
    OBVIOUS
  <2>5. /\ d = [entries |-> e, blocks |-> b, sealed |-> y, refused |-> r]
        /\ f = [entries |-> e, blocks |-> b, sealed |-> y, refused |-> q]
    BY <1>1, <1>2, <1>3, <1>4, <2>2, <2>3, <2>4
  <2>6. f = [d EXCEPT !.refused = q]
    BY <2>5
  <2> QED BY <2>1, <2>2, <2>3, <2>6, IsRefuse
<1> QED BY <1>6, <1>7

LEMMA FlaggedKeeps == ASSUME NEW s, StoreOK(s) PROVE Keeps(s, Flagged(s)) /\ Refused(Flagged(s))
<1>1. PICK t : t = Flagged(s)
  OBVIOUS
<1>2. /\ t.entries = s.entries /\ t.arena = s.arena /\ t.blocks = s.blocks
      /\ t.finalized = s.finalized /\ t.over
  BY <1>1 DEF Flagged, StoreOK
<1>3. ListOf(t) = ListOf(s)
  BY <1>2 DEF ListOf, Document
<1> QED BY <1>1, <1>2, <1>3 DEF Keeps, Refused

\* A store whose arena alone has grown.
LEMMA GrownKeeps ==
    ASSUME NEW s, Sound(s), NEW a, Extends(s.arena, a), NEW t, t = [s EXCEPT !.arena = a]
    PROVE  Keeps(s, t) /\ t.arena = a /\ t.entries = s.entries /\ t.over = s.over
<1>1. /\ t.arena = a /\ t.entries = s.entries /\ t.over = s.over /\ t.blocks = s.blocks
      /\ t.finalized = s.finalized
  BY DEF Sound, StoreOK
<1>2. ListOf(t) = ListOf(s)
  BY <1>1, ViewsSame
<1> QED BY <1>1, <1>2 DEF Keeps, Refused, Extends

LEMMA ConstrainExtends ==
    ASSUME NEW a \in Arena, NEW n \in Nat, NEW b, b = ArenaConstrain(a, n)
    PROVE  Extends(a, b) /\ b.buf = a.buf /\ (a.buf = <<>> /\ ~a.over => ~b.over)
<1>1. PICK low : low = LowerCeiling(a.max, n)
  OBVIOUS
<1>2. low \in Nat
  BY <1>1 DEF LowerCeiling, Arena
<1>3. PICK over : over = (a.over \/ ArenaSize(a) > low)
  OBVIOUS
<1>4. over \in BOOLEAN /\ (a.over => over)
  BY <1>3
<1>5. b = [a EXCEPT !.max = low, !.over = over]
  BY <1>1, <1>3 DEF ArenaConstrain
<1>6. b \in Arena /\ b.buf = a.buf /\ b.over = over
  BY <1>2, <1>4, <1>5 DEF Arena
<1>7. b.buf = a.buf \o <<>> /\ <<>> \in Seq(Bytes)
  BY <1>6 DEF Arena
<1>8. ASSUME a.buf = <<>>, ~a.over PROVE ~over
  <2>1. ~(0 > low)
    BY <1>2
  <2>2. ArenaSize(a) = 0
    BY <1>8 DEF ArenaSize
  <2> QED BY <1>3, <1>8, <2>1, <2>2
<1> QED BY <1>4, <1>6, <1>7, <1>8 DEF Extends

LEMMA ConstrainKeeps ==
    ASSUME NEW s, Sound(s), NEW n \in Nat, NEW m \in Nat
    PROVE  Keeps(s, StoreConstrain(s, n, m))
<1>1. PICK a : a = ArenaConstrain(s.arena, m)
  OBVIOUS
<1>2. Extends(s.arena, a)
  BY <1>1, ConstrainExtends DEF Sound, StoreOK
<1>3. PICK t : t = StoreConstrain(s, n, m)
  OBVIOUS
<1>4. PICK low : low = LowerCeiling(s.max, n)
  OBVIOUS
<1>5. PICK over : over = (s.over \/ Len(s.entries) > low \/ s.blocks > low)
  OBVIOUS
<1>6. t = [s EXCEPT !.max = low, !.arena = a, !.over = over]
  BY <1>1, <1>3, <1>4, <1>5 DEF StoreConstrain
<1>7. /\ t.arena = a /\ t.entries = s.entries /\ t.blocks = s.blocks
      /\ t.finalized = s.finalized /\ t.over = over
  BY <1>6 DEF Sound, StoreOK
<1>8. ListOf(t) = ListOf(s)
  BY <1>2, <1>7, ViewsSame
<1>9. s.over => over
  BY <1>5
<1> QED BY <1>2, <1>3, <1>7, <1>8, <1>9 DEF Keeps, Refused, Extends

LEMMA ReserveKeeps ==
    ASSUME NEW s, Sound(s), NEW b \in Nat, NEW e \in Nat, NEW n \in Nat
    PROVE  Keeps(s, StoreReserve(s, b, e, n))
<1>1. CASE s.finalized
  BY <1>1 DEF StoreReserve, Keeps
<1>2. CASE ~s.finalized /\ (b > s.max \/ e > s.max)
  BY <1>2, FlaggedKeeps DEF StoreReserve, Sound
<1>3. CASE ~s.finalized /\ ~(b > s.max \/ e > s.max)
  <2>1. PICK over : over = (s.arena.over \/ n > s.arena.max)
    OBVIOUS
  <2>2. PICK a : a = [s.arena EXCEPT !.over = over]
    OBVIOUS
  <2>3. over \in BOOLEAN /\ (s.arena.over => over) /\ s.arena \in Arena
    BY <2>1 DEF Sound, StoreOK
  <2>4. a \in Arena /\ a.buf = s.arena.buf /\ a.over = over
    BY <2>2, <2>3 DEF Arena
  <2>5. a.buf = s.arena.buf \o <<>> /\ <<>> \in Seq(Bytes)
    BY <2>3, <2>4 DEF Arena
  <2>6. Extends(s.arena, a)
    BY <2>3, <2>4, <2>5 DEF Extends
  <2>7. StoreReserve(s, b, e, n) = [s EXCEPT !.arena = a]
    BY <1>3, <2>1, <2>2 DEF StoreReserve, ArenaReserve
  <2> QED BY <2>6, <2>7, GrownKeeps
<1> QED BY <1>1, <1>2, <1>3

\* add_entry(): refused, or the entry comes last.
LEMMA AddView ==
    ASSUME NEW s, Sound(s), ~s.finalized, NEW e, Fits(s.arena, e), NEW t, t = StoreAdd(s, e)
    PROVE  /\ t.blocks = s.blocks /\ t.finalized = s.finalized
           /\ \/ Refused(t) /\ ListOf(t) = ListOf(s)
              \/ /\ ListOf(t) = Append(ListOf(s), View(s.arena, e))
                 /\ ~s.arena.over /\ t.over = s.over /\ t.arena = s.arena
<1>1. CASE Len(s.entries) >= s.max \/ s.arena.over
  <2>1. t = Flagged(s)
    BY <1>1 DEF StoreAdd
  <2> QED BY <2>1, FlaggedKeeps DEF Keeps, Sound
<1>2. CASE ~(Len(s.entries) >= s.max \/ s.arena.over)
  <2>1. t = [s EXCEPT !.entries = Append(s.entries, e)]
    BY <1>2 DEF StoreAdd
  <2>2. /\ t.entries = Append(s.entries, e) /\ t.arena = s.arena /\ t.over = s.over
        /\ t.blocks = s.blocks /\ t.finalized = s.finalized
    BY <2>1 DEF Sound, StoreOK
  <2>3. e \in Entry /\ Extends(s.arena, t.arena)
    BY <2>2, ExtendsRefl DEF Fits, Sound, StoreOK
  <2>4. ListOf(t) = Append(ListOf(s), View(t.arena, e))
    BY <2>2, <2>3, ViewsAppend
  <2> QED BY <1>2, <2>2, <2>4
<1> QED BY <1>1, <1>2

LEMMA ExtendStep ==
    ASSUME DocumentAlone, ~store.finalized, store'.finalized = store.finalized,
           store'.blocks = store.blocks, Refused(store') = Refused(store),
           NEW c, ListOf(store') = Append(ListOf(store), c),
           c \in Requests \/ \E i \in 1..Len(store.entries) : c = ListOf(store)[i]
    PROVE  Abstract!Next
<1>1. Document(store) = [entries |-> ListOf(store), blocks |-> store.blocks,
                         sealed |-> store.finalized, refused |-> Refused(store)]
  BY DocumentIs
<1>2. Document(store') = [entries |-> ListOf(store'), blocks |-> store.blocks,
                          sealed |-> store.finalized, refused |-> Refused(store)]
  BY DocumentIs, Zenon
<1>a. PICK d : d = Document(store)
  OBVIOUS
<1>b. PICK f : f = Document(store')
  OBVIOUS
<1>c. /\ f.blocks = d.blocks /\ f.sealed = d.sealed /\ f.refused = d.refused
      /\ f.entries = Append(d.entries, c)
  BY <1>1, <1>2, <1>a, <1>b
<1>d. f = [d EXCEPT !.entries = f.entries]
  BY <1>a, <1>b, <1>c DEF Document
<1>3. Document(store') = [Document(store) EXCEPT !.entries = Append(@, c)]
  BY <1>a, <1>b, <1>c, <1>d
<1>4. Document(store).entries = ListOf(store)
  BY DEF ListOf
<1>5. DOMAIN Document(store).entries = 1..Len(store.entries)
  BY <1>4, DocumentIs
<1>6. ~Document(store).sealed
  BY <1>1
<1>7. c \in Requests \/ \E i \in DOMAIN Document(store).entries :
                           c = Document(store).entries[i]
  BY <1>4, <1>5
<1> QED BY <1>3, <1>6, <1>7, IsExtend

\* The abstract document takes a step, or nothing happens to it.
Stepped == Abstract!Next \/ UNCHANGED Abstract!vars

LEMMA KeepingStep ==
    ASSUME DocInv, Inv', NEW s, OnStore(s), Keeps(store, s)
    PROVE  DocInv' /\ Stepped
<1>1. store.finalized => s.finalized
  BY DEF Keeps
<1>2. DocInv' /\ DocumentAlone /\ store' = s
  BY <1>1, OnStoreDoc
<1> QED BY <1>2, RefuseOrNothing DEF Stepped

LEMMA AddBlockDoc ==
    ASSUME DocInv, Inv', AddBlock PROVE DocInv' /\ Stepped
<1>0. Sound(store) /\ StoreOK(store) /\ store.blocks \in Nat
  BY DEF DocInv, Inv, Sound, StoreOK
<1>1. OnStore(StoreAddBlock(store))
  BY DEF AddBlock
<1>2. CASE store.finalized
  <2>1. Keeps(store, StoreAddBlock(store))
    BY <1>2 DEF StoreAddBlock, Keeps
  <2> QED BY <1>1, <2>1, KeepingStep
<1>3. CASE ~store.finalized /\ (store.blocks >= store.max \/ store.arena.over)
  <2>1. Keeps(store, StoreAddBlock(store))
    BY <1>0, <1>3, FlaggedKeeps DEF StoreAddBlock
  <2> QED BY <1>1, <2>1, KeepingStep
<1>4. CASE ~store.finalized /\ ~(store.blocks >= store.max \/ store.arena.over)
  <2>1. PICK s : s = StoreAddBlock(store)
    OBVIOUS
  <2>2. s = [store EXCEPT !.blocks = store.blocks + 1]
    BY <1>4, <2>1 DEF StoreAddBlock
  <2>3. /\ s.entries = store.entries /\ s.arena = store.arena
        /\ s.blocks = store.blocks + 1 /\ s.over = store.over
        /\ s.finalized = store.finalized
    BY <1>0, <2>2 DEF StoreOK
  <2>4. DocInv' /\ DocumentAlone /\ store' = s
    BY <1>1, <2>1, <2>3, OnStoreDoc
  <2>5. ListOf(s) = ListOf(store) /\ Refused(s) = Refused(store)
    BY <2>3 DEF ListOf, Document, Refused
  <2>6. PICK e, n, y, r : /\ e = ListOf(store) /\ n = store.blocks
                          /\ y = store.finalized /\ r = Refused(store)
    OBVIOUS
  <2>7. PICK d, f : d = Document(store) /\ f = Document(s)
    OBVIOUS
  <2>8. /\ d = [entries |-> e, blocks |-> n, sealed |-> y, refused |-> r]
        /\ f = [entries |-> e, blocks |-> n + 1, sealed |-> y, refused |-> r]
    <3>1. d = [entries |-> e, blocks |-> n, sealed |-> y, refused |-> r]
      BY <2>6, <2>7, DocumentIs
    <3>2. Document(s) = [entries |-> ListOf(s), blocks |-> s.blocks,
                         sealed |-> s.finalized, refused |-> Refused(s)]
      BY DocumentIs
    <3>3. f = [entries |-> e, blocks |-> n + 1, sealed |-> y, refused |-> r]
      BY <2>3, <2>5, <2>6, <2>7, <3>2
    <3> QED BY <3>1, <3>3
  <2>9. f = [d EXCEPT !.blocks = @ + 1]
    BY <2>8
  <2>10. ~d.sealed
    BY <1>4, <2>6, <2>8
  <2> QED BY <2>4, <2>7, <2>9, <2>10, IsAddBlock DEF Stepped
<1> QED BY <1>2, <1>3, <1>4

\* An entry is added to a store whose arena has grown by what it needs.
LEMMA AddingStep ==
    ASSUME DocInv, Inv', ~store.finalized, NEW s, Sound(s), Keeps(store, s),
           s.over = store.over, s.entries = store.entries, s.arena.over \/ ~store.arena.over,
           NEW e, Fits(s.arena, e), OnStore(StoreAdd(s, e)),
           NEW c, ~s.arena.over => View(s.arena, e) = c,
           c \in Requests \/ \E i \in 1..Len(store.entries) : c = ListOf(store)[i]
    PROVE  DocInv' /\ Stepped
<1>1. PICK t : t = StoreAdd(s, e)
  OBVIOUS
<1>2. ~s.finalized
  BY DEF Keeps
<1>3. /\ t.blocks = s.blocks /\ t.finalized = s.finalized
      /\ \/ Refused(t) /\ ListOf(t) = ListOf(s)
         \/ /\ ListOf(t) = Append(ListOf(s), View(s.arena, e))
            /\ ~s.arena.over /\ t.over = s.over /\ t.arena = s.arena
  BY <1>1, <1>2, AddView
<1>4. t.finalized = store.finalized /\ t.blocks = store.blocks
  BY <1>3 DEF Keeps
<1>5. OnStore(t)
  BY <1>1
<1>6. CASE Refused(t) /\ ListOf(t) = ListOf(s)
  <2>1. Keeps(store, t)
    BY <1>4, <1>6 DEF Keeps
  <2> QED BY <1>5, <2>1, KeepingStep
<1>7. CASE /\ ListOf(t) = Append(ListOf(s), View(s.arena, e))
           /\ ~s.arena.over /\ t.over = s.over /\ t.arena = s.arena
  <2>1. DocInv' /\ DocumentAlone /\ store' = t
    BY <1>4, <1>5, OnStoreDoc
  <2>2. Refused(t) = Refused(store)
    BY <1>7 DEF Refused
  <2>3. ListOf(t) = Append(ListOf(store), c)
    BY <1>7 DEF Keeps
  <2>4. Abstract!Next
    BY <1>4, <2>1, <2>2, <2>3, ExtendStep
  <2> QED BY <2>1, <2>4 DEF Stepped
<1> QED BY <1>3, <1>6, <1>7

LEMMA AddEntryDoc ==
    ASSUME DocInv, Inv', AddEntry PROVE DocInv' /\ Stepped
<1>0. Sound(store) /\ StoreOK(store) /\ store.arena \in Arena
  BY DEF DocInv, Inv, Sound, StoreOK
<1>1. PICK view \in Requests :
         OnStore(StoreAdd([store EXCEPT !.arena = Materialise(store.arena, view).arena],
                          Materialise(store.arena, view).entry))
  BY DEF AddEntry
<1>2. PICK m : m = Materialise(store.arena, view)
  OBVIOUS
<1>3. view \in EntryView /\ HasItsTexts(view.key) /\ HasItsPayload(view.value)
  BY StoreAssumption
<1>4. Grows(store.arena, m.arena) /\ Fits(m.arena, m.entry)
  BY <1>0, <1>2, <1>3, MaterialiseFits
<1>5. Extends(store.arena, m.arena) /\ (~m.arena.over => View(m.arena, m.entry) = view)
  BY <1>0, <1>2, <1>3, MaterialiseExact
<1>6. PICK s : s = [store EXCEPT !.arena = m.arena]
  OBVIOUS
<1>7. Keeps(store, s) /\ s.arena = m.arena /\ s.entries = store.entries /\ s.over = store.over
  BY <1>0, <1>5, <1>6, GrownKeeps
<1>8. Sound(s)
  BY <1>0, <1>4, <1>6, ArenaFollows DEF Follows
<1>9. OnStore(StoreAdd(s, m.entry)) /\ ~store.finalized
  BY <1>1, <1>2, <1>6 DEF AddEntry
<1>10. s.arena.over \/ ~store.arena.over
  BY <1>5, <1>7 DEF Extends
<1>11. PICK e : e = m.entry
  OBVIOUS
<1>12. Fits(s.arena, e) /\ (~s.arena.over => View(s.arena, e) = view) /\ OnStore(StoreAdd(s, e))
  BY <1>4, <1>5, <1>7, <1>9, <1>11
<1> QED BY <1>7, <1>8, <1>9, <1>10, <1>12, AddingStep

LEMMA AddSharingDoc ==
    ASSUME DocInv, Inv', AddSharing PROVE DocInv' /\ Stepped
<1>0. Sound(store) /\ StoreOK(store)
  BY DEF DocInv, Inv, Sound
<1>1. PICK i \in 1..Len(store.entries) : OnStore(StoreAdd(store, store.entries[i]))
  BY DEF AddSharing
<1>2. CASE store.finalized
  <2>1. Keeps(store, StoreAdd(store, store.entries[i]))
    BY <1>2 DEF StoreAdd, Keeps
  <2> QED BY <1>1, <2>1, KeepingStep
<1>3. CASE ~store.finalized
  <2>1. PICK e : e = store.entries[i]
    OBVIOUS
  <2>2. PICK c : c = ListOf(store)[i]
    OBVIOUS
  <2>3. Fits(store.arena, e) /\ OnStore(StoreAdd(store, e)) /\ View(store.arena, e) = c
    BY <1>0, <1>1, <2>1, <2>2, LensOfLists DEF Sound
  <2>4. Keeps(store, store)
    BY DEF Keeps
  <2> QED BY <1>0, <1>3, <2>2, <2>3, <2>4, AddingStep
<1> QED BY <1>2, <1>3

LEMMA FinalizeDoc ==
    ASSUME DocInv, Inv', Finalize PROVE DocInv' /\ Stepped
<1>0. StoreOK(store)
  BY DEF DocInv, Inv, Sound
<1>1. PICK s : s = Finalized(store)
  OBVIOUS
<1>2. /\ s.entries = store.entries /\ s.arena = store.arena /\ s.blocks = store.blocks
      /\ s.over = store.over /\ s.finalized = TRUE
  BY <1>0, <1>1 DEF StoreOK, Finalized
<1>3. DocInv' /\ DocumentAlone /\ store' = s
  BY <1>1, <1>2, OnStoreDoc DEF Finalize
<1>4. ListOf(s) = ListOf(store) /\ Refused(s) = Refused(store)
  BY <1>2 DEF ListOf, Document, Refused
<1>5. PICK e, n, y, r, yes : /\ e = ListOf(store) /\ n = store.blocks /\ yes = TRUE
                             /\ y = store.finalized /\ r = Refused(store)
  OBVIOUS
<1>6. PICK d, f : d = Document(store) /\ f = Document(s)
  OBVIOUS
<1>7. d = [entries |-> e, blocks |-> n, sealed |-> y, refused |-> r]
  BY <1>5, <1>6, DocumentIs
<1>8. Document(s) = [entries |-> ListOf(s), blocks |-> s.blocks,
                     sealed |-> s.finalized, refused |-> Refused(s)]
  BY DocumentIs
<1>9. s.finalized = yes
  BY <1>2, <1>5
<1>10. f = [entries |-> e, blocks |-> n, sealed |-> yes, refused |-> r]
  <2>1. s.blocks = n /\ ListOf(s) = e /\ Refused(s) = r
    BY <1>2, <1>4, <1>5
  <2> QED BY <1>6, <1>8, <1>9, <2>1
<1>11. f = [d EXCEPT !.sealed = yes]
  BY <1>7, <1>10
<1> QED BY <1>3, <1>5, <1>6, <1>11, IsSeal DEF Stepped

LEMMA BuildDoc == ASSUME DocInv, Build PROVE DocInv' /\ Stepped
<1>0. Inv' /\ Sound(store) /\ StoreOK(store) /\ store.arena \in Arena
  BY BuildInv DEF DocInv, Inv, Sound, StoreOK
<1>1. CASE AddBlock
  BY <1>0, <1>1, AddBlockDoc
<1>2. CASE AddEntry
  BY <1>0, <1>2, AddEntryDoc
<1>3. CASE AddSharing
  BY <1>0, <1>3, AddSharingDoc
<1>4. CASE AppendPayload
  <2>1. PICK view \in NewValues :
           OnStore([store EXCEPT !.arena = MakeValue(store.arena, view).arena])
    BY <1>4 DEF AppendPayload
  <2>2. PICK v : v = MakeValue(store.arena, view)
    OBVIOUS
  <2>3. view \in ValueView /\ HasItsPayload(view)
    BY StoreAssumption
  <2>4. Extends(store.arena, v.arena)
    BY <1>0, <2>2, <2>3, MakeValueExact
  <2>5. PICK s : s = [store EXCEPT !.arena = v.arena]
    OBVIOUS
  <2>6. Keeps(store, s)
    BY <1>0, <2>4, <2>5, GrownKeeps
  <2>7. OnStore(s)
    BY <2>1, <2>2, <2>5
  <2> QED BY <1>0, <2>6, <2>7, KeepingStep
<1>5. CASE Constrain
  <2>1. PICK n \in EntryCeilings, m \in ArenaCeilings : OnStore(StoreConstrain(store, n, m))
    BY <1>5 DEF Constrain
  <2>2. n \in Nat /\ m \in Nat
    BY StoreAssumption
  <2>3. Keeps(store, StoreConstrain(store, n, m))
    BY <1>0, <2>2, ConstrainKeeps
  <2> QED BY <1>0, <2>1, <2>3, KeepingStep
<1>6. CASE Reserve
  <2>1. PICK b \in EntryCeilings, e \in EntryCeilings, m \in ArenaCeilings :
           OnStore(StoreReserve(store, b, e, m))
    BY <1>6 DEF Reserve
  <2>2. b \in Nat /\ e \in Nat /\ m \in Nat
    BY StoreAssumption
  <2>3. Keeps(store, StoreReserve(store, b, e, m))
    BY <1>0, <2>2, ReserveKeeps
  <2> QED BY <1>0, <2>1, <2>3, KeepingStep
<1>7. CASE Finalize
  BY <1>0, <1>7, FinalizeDoc
<1> QED BY <1>1, <1>2, <1>3, <1>4, <1>5, <1>6, <1>7 DEF Build

-----------------------------------------------------------------------------
(* Recording edits.                                                          *)

LEMMA FitsOn ==
    ASSUME NEW a \in Arena, NEW b, Extends(a, b), NEW e, Fits(a, e)
    PROVE  Fits(b, e)
<1>1. /\ e.key.first \in Span /\ e.key.second \in Span
      /\ e.value.span \in Span /\ e.wireName \in Span
  BY DEF Fits, Entry, Key, Value
<1>2. /\ InArena(b, e.key.first) /\ InArena(b, e.key.second)
      /\ InArena(b, e.value.span) /\ InArena(b, e.wireName)
  BY <1>1, ExtendsKeepsView DEF Fits, KeyFits, ValueFits
<1> QED BY <1>2 DEF Fits, KeyFits, ValueFits

LEMMA ValueFitsOn ==
    ASSUME NEW a \in Arena, NEW b, Extends(a, b), NEW v, ValueFits(a, v)
    PROVE  ValueFits(b, v)
<1>1. v.span \in Span
  BY DEF ValueFits, Value
<1>2. InArena(b, v.span)
  BY <1>1, ExtendsKeepsView DEF ValueFits
<1> QED BY <1>2 DEF ValueFits

LEMMA OpFitsOn ==
    ASSUME NEW a \in Arena, NEW b, Extends(a, b), NEW op, OpShaped(op), OpFits(a, op)
    PROVE  OpFits(b, op) /\ Operation(b, op) = Operation(a, op)
<1>1. op.kind \in {"AddEntry", "SetValue", "SetValueWithWire", "Tombstone"}
  BY DEF OpShaped, EditOp
<1>2. CASE op.kind = "AddEntry"
  <2>1. Fits(b, op.entry) /\ View(b, op.entry) = View(a, op.entry)
    BY <1>2, FitsOn, EntryReadsOn DEF OpFits
  <2> QED BY <1>2, <2>1 DEF OpFits, Operation
<1>3. CASE op.kind \in {"SetValue", "SetValueWithWire"}
  <2>1. ValueFits(b, op.value) /\ ViewValue(b, op.value) = ViewValue(a, op.value)
    BY <1>3, ValueFitsOn, ValueReadsOn DEF OpFits
  <2>2. op.kind # "AddEntry" /\ op.kind # "Tombstone"
    BY <1>3
  <2> QED BY <2>1, <2>2 DEF OpFits, Operation
<1>4. CASE op.kind = "Tombstone"
  BY <1>4 DEF OpFits, Operation
<1> QED BY <1>1, <1>2, <1>3, <1>4

\* What the abstract document sees of a buffer.
DraftOf(edit) ==
    IF edit.arena.over THEN [void |-> TRUE, ops |-> <<>>]
    ELSE [void |-> FALSE,
          ops |-> [i \in 1..Len(edit.ops) |-> Operation(edit.arena, edit.ops[i])]]

LEMMA DraftsAre == Drafts = [b \in 1..Buffers |-> DraftOf(edits[b])]
BY DEF Drafts, DraftOf

LEMMA DraftsChange ==
    ASSUME NEW b \in 1..Buffers, NEW edit, EditsOK, edits' = [edits EXCEPT ![b] = edit]
    PROVE  Drafts' = [Drafts EXCEPT ![b] = DraftOf(edit)]
<1>1. Drafts' = [c \in 1..Buffers |-> DraftOf(edits'[c])]
  BY DEF Drafts, DraftOf
<1>2. \A c \in 1..Buffers : edits'[c] = IF c = b THEN edit ELSE edits[c]
  BY DEF EditsOK
<1>3. \A c \in 1..Buffers :
         DraftOf(edits'[c]) = IF c = b THEN DraftOf(edit) ELSE DraftOf(edits[c])
  BY <1>2
<1>4. PICK x : x = DraftOf(edit)
  OBVIOUS
<1>5. \A c \in 1..Buffers : Drafts[c] = DraftOf(edits[c])
  BY DraftsAre
<1>6. Drafts' = [c \in 1..Buffers |-> IF c = b THEN x ELSE Drafts[c]]
  BY <1>1, <1>3, <1>4, <1>5
<1>7. DOMAIN Drafts = 1..Buffers
  BY DEF Drafts
<1> QED BY <1>4, <1>6, <1>7

\* A buffer whose arena has grown, with what it held before.
LEMMA DraftStays ==
    ASSUME NEW edit, edit.arena \in Arena, edit.ops \in Seq(EditOp),
           \A i \in 1..Len(edit.ops) : OpShaped(edit.ops[i]) /\ OpFits(edit.arena, edit.ops[i]),
           NEW a, Extends(edit.arena, a)
    PROVE  \A i \in 1..Len(edit.ops) :
              /\ OpFits(a, edit.ops[i])
              /\ Operation(a, edit.ops[i]) = Operation(edit.arena, edit.ops[i])
<1> TAKE i \in 1..Len(edit.ops)
<1> QED BY OpFitsOn

LEMMA DraftGrows ==
    ASSUME NEW edit, edit.arena \in Arena, edit.ops \in Seq(EditOp),
           \A i \in 1..Len(edit.ops) : OpShaped(edit.ops[i]) /\ OpFits(edit.arena, edit.ops[i]),
           NEW a, Extends(edit.arena, a), ~a.over, NEW op \in EditOp,
           NEW grown, grown = [arena |-> a, ops |-> Append(edit.ops, op)]
    PROVE  /\ DraftOf(edit).void = FALSE
           /\ DraftOf(grown) = [void |-> FALSE,
                                ops |-> Append(DraftOf(edit).ops, Operation(a, op))]
<1>1. ~edit.arena.over
  BY DEF Extends
<1>2. PICK n : n = Len(edit.ops)
  OBVIOUS
<1>3. PICK ops : ops = Append(edit.ops, op)
  OBVIOUS
<1>4. /\ n \in Nat /\ Len(ops) = n + 1 /\ ops[n + 1] = op
      /\ \A i \in 1..n : ops[i] = edit.ops[i]
  BY <1>2, <1>3
<1>5. PICK list : list = [i \in 1..n |-> Operation(edit.arena, edit.ops[i])]
  OBVIOUS
<1>6. DraftOf(edit) = [void |-> FALSE, ops |-> list]
  BY <1>1, <1>2, <1>5 DEF DraftOf
<1>7. PICK longer : longer = [i \in 1..n + 1 |-> Operation(a, ops[i])]
  OBVIOUS
<1>8. DraftOf(grown) = [void |-> FALSE, ops |-> longer]
  BY <1>3, <1>4, <1>7 DEF DraftOf
<1>9. PICK o : o = Operation(a, op)
  OBVIOUS
<1>10. \A i \in 1..n : longer[i] = list[i]
  <2> TAKE i \in 1..n
  <2>1. i \in 1..n + 1 /\ longer[i] = Operation(a, ops[i])
    BY <1>4, <1>7
  <2>2. Operation(a, edit.ops[i]) = Operation(edit.arena, edit.ops[i])
    BY <1>2, DraftStays
  <2> QED BY <1>4, <1>5, <2>1, <2>2
<1>11. longer[n + 1] = o
  BY <1>4, <1>7, <1>9
<1>12. IsList(n, list) /\ IsList(n + 1, longer) /\ IsLonger(n, list, o, longer)
  BY <1>5, <1>7, <1>10, <1>11 DEF IsList, IsLonger
<1>13. longer = Append(list, o)
  BY <1>4, <1>12, AppendIs
<1> QED BY <1>6, <1>8, <1>9, <1>13

LEMMA RecordDoc ==
    ASSUME DocInv, Inv', NEW b \in 1..Buffers, NEW ar, Extends(edits[b].arena, ar),
           NEW op, OpShaped(op), OpFits(ar, op), Record(b, ar, op),
           ~ar.over => Operation(ar, op) \in Abstract!Operations
    PROVE  DocInv' /\ Stepped
<1>1. PICK edit : edit = edits[b]
  OBVIOUS
<1>2. /\ edit.arena \in Arena /\ edit.ops \in Seq(EditOp) /\ op \in EditOp
      /\ \A i \in 1..Len(edit.ops) : OpShaped(edit.ops[i]) /\ OpFits(edit.arena, edit.ops[i])
  BY <1>1 DEF DocInv, Inv, EditsOK, EditsRead, OpShaped
<1>3. PICK grown : grown = [arena |-> ar, ops |-> Append(edit.ops, op)]
  OBVIOUS
<1>4. /\ edits' = [edits EXCEPT ![b] = grown] /\ store.finalized
      /\ store' = store /\ job' = job /\ returned' = returned
      /\ job = NoJob /\ returned = NoStore
  BY <1>1, <1>3 DEF Record, Idle
<1>5. EditsOK /\ edits \in [1..Buffers -> [arena : Arena, ops : Seq(EditOp)]]
  BY DEF DocInv, Inv, EditsOK
<1>6. EditsRead'
  <2>1. ASSUME NEW c \in 1..Buffers, NEW i \in 1..Len(edits'[c].ops)
        PROVE  OpFits(edits'[c].arena, edits'[c].ops[i])
    <3>1. CASE c # b
      <4>1. edits'[c] = edits[c]
        BY <1>4, <1>5, <3>1
      <4> QED BY <2>1, <4>1 DEF DocInv, EditsRead
    <3>2. CASE c = b
      <4>1. edits'[c] = grown /\ grown.arena = ar /\ grown.ops = Append(edit.ops, op)
        BY <1>3, <1>4, <1>5, <3>2
      <4>2. i \in 1..Len(Append(edit.ops, op))
        BY <2>1, <4>1
      <4>3. CASE i = Len(edit.ops) + 1
        <5>1. grown.ops[i] = op
          BY <1>2, <4>1, <4>3
        <5> QED BY <4>1, <5>1
      <4>4. CASE i # Len(edit.ops) + 1
        <5>1. i \in 1..Len(edit.ops) /\ grown.ops[i] = edit.ops[i]
          BY <1>2, <4>1, <4>2, <4>4
        <5>2. OpFits(ar, edit.ops[i])
          BY <1>1, <1>2, <5>1, DraftStays
        <5> QED BY <4>1, <5>1, <5>2
      <4> QED BY <4>3, <4>4
    <3> QED BY <3>1, <3>2
  <2> QED BY <2>1 DEF EditsRead
<1>7. DocInv'
  BY <1>4, <1>6 DEF DocInv, NothingYet, CommitAt, CompactAt
<1>8. Drafts' = [Drafts EXCEPT ![b] = DraftOf(grown)] /\ Drafts[b] = DraftOf(edit)
  BY <1>1, <1>4, <1>5, DraftsChange, DraftsAre
<1>9. Answered = Nothing /\ Answered' = Answered /\ Document(store') = Document(store)
  BY <1>4 DEF Answered
<1>10. Document(store).sealed
  BY <1>4 DEF Document
<1>a. DOMAIN Drafts = 1..Buffers /\ Drafts = [c \in 1..Buffers |-> Drafts[c]]
  BY DEF Drafts
<1>11. CASE edit.arena.over
  <2>1. ar.over /\ grown.arena = ar
    BY <1>1, <1>3, <1>11 DEF Extends
  <2>2. DraftOf(grown) = DraftOf(edit)
    BY <1>11, <2>1 DEF DraftOf
  <2>3. Drafts' = Drafts
    BY <1>8, <1>a, <2>2
  <2> QED BY <1>7, <1>9, <2>3, IsStutter DEF Stepped
<1>12. CASE ~edit.arena.over /\ ar.over
  <2>1. DraftOf(grown) = [void |-> TRUE, ops |-> <<>>]
    BY <1>3, <1>12 DEF DraftOf
  <2>2. ~Drafts[b].void
    BY <1>8, <1>12 DEF DraftOf
  <2> QED BY <1>7, <1>8, <1>9, <1>10, <2>1, <2>2, IsDraft DEF Stepped
<1>13. CASE ~ar.over
  <2>1. PICK o : o = Operation(ar, op)
    OBVIOUS
  <2>2. /\ DraftOf(edit).void = FALSE
        /\ DraftOf(grown) = [void |-> FALSE, ops |-> Append(DraftOf(edit).ops, o)]
    BY <1>1, <1>2, <1>3, <1>13, <2>1, DraftGrows
  <2>3. DraftOf(edit) = [void |-> FALSE, ops |-> DraftOf(edit).ops]
    BY <2>2 DEF DraftOf
  <2>4. DraftOf(grown) = [DraftOf(edit) EXCEPT !.ops = Append(@, o)]
    <3>1. PICK d, f, no : d = DraftOf(edit) /\ f = DraftOf(grown) /\ no = FALSE
      OBVIOUS
    <3>2. PICK ops, longer : ops = d.ops /\ longer = Append(ops, o)
      OBVIOUS
    <3>3. d = [void |-> no, ops |-> ops] /\ f = [void |-> no, ops |-> longer]
      BY <2>2, <2>3, <3>1, <3>2
    <3>4. f = [d EXCEPT !.ops = longer]
      BY <3>3
    <3> QED BY <3>1, <3>2, <3>4
  <2>5. Drafts' = [Drafts EXCEPT ![b].ops = Append(@, o)]
    BY <1>8, <2>4
  <2>6. o \in Abstract!Operations /\ ~Drafts[b].void
    BY <1>8, <1>13, <2>1, <2>2
  <2> QED BY <1>7, <1>9, <1>10, <2>5, <2>6, IsDraft DEF Stepped
<1> QED BY <1>11, <1>12, <1>13

LEMMA AddIsRecorded ==
    ASSUME NEW a, NEW e, NEW view \in Requests, View(a, e) = view,
           NEW op, op = [kind |-> "AddEntry", entry |-> e]
    PROVE  Operation(a, op) \in Abstract!Operations
<1>1. Operation(a, op) = [kind |-> "AddEntry", content |-> view]
  BY DEF Operation
<1> QED BY <1>1 DEF Abstract!Operations

LEMMA SetIsRecorded ==
    ASSUME NEW a, NEW v, NEW view \in NewValues, ViewValue(a, v) = view, NEW target \in Targets,
           NEW op, op = [kind |-> "SetValue", target |-> target, value |-> v]
    PROVE  Operation(a, op) \in Abstract!Operations
<1>1. op.kind = "SetValue" /\ op.value = v
  OBVIOUS
<1>2. Operation(a, op) = [op EXCEPT !.value = view]
  BY <1>1 DEF Operation
<1>3. [op EXCEPT !.value = view] = [kind |-> "SetValue", target |-> target, value |-> view]
  OBVIOUS
<1> QED BY <1>2, <1>3 DEF Abstract!Operations

LEMMA SetWireIsRecorded ==
    ASSUME NEW a, NEW v, NEW view \in NewValues, ViewValue(a, v) = view, NEW target \in Targets,
           NEW wire \in NewWires,
           NEW op, op = [kind |-> "SetValueWithWire", target |-> target,
                         value |-> v, wire |-> wire]
    PROVE  Operation(a, op) \in Abstract!Operations
<1>1. op.kind = "SetValueWithWire" /\ op.value = v
  OBVIOUS
<1>2. Operation(a, op) = [op EXCEPT !.value = view]
  BY <1>1 DEF Operation
<1>3. [op EXCEPT !.value = view] = [kind |-> "SetValueWithWire", target |-> target,
                                   value |-> view, wire |-> wire]
  OBVIOUS
<1> QED BY <1>2, <1>3 DEF Abstract!Operations

\* The arena of a buffer becomes another, and its operations stay.
LEMMA ConstrainDoc ==
    ASSUME DocInv, Inv', NEW b \in 1..Buffers, EditConstrain(b)
    PROVE  DocInv' /\ Stepped
<1>1. PICK n \in EditCeilings : edits' = [edits EXCEPT ![b].arena = ArenaConstrain(@, n)]
  BY DEF EditConstrain
<1>2. PICK edit, a : edit = edits[b] /\ a = ArenaConstrain(edit.arena, n)
  OBVIOUS
<1>3. /\ edit.arena \in Arena /\ edit.ops \in Seq(EditOp)
      /\ edit \in [arena : Arena, ops : Seq(EditOp)]
      /\ \A i \in 1..Len(edit.ops) : OpShaped(edit.ops[i]) /\ OpFits(edit.arena, edit.ops[i])
  BY <1>2 DEF DocInv, Inv, EditsOK, EditsRead
<1>4. /\ Extends(edit.arena, a) /\ a.buf = edit.arena.buf
      /\ edit.arena.buf = <<>> /\ ~edit.arena.over => ~a.over
  BY <1>2, <1>3, StoreAssumption, ConstrainExtends
<1>5. PICK new : new = [edit EXCEPT !.arena = a]
  OBVIOUS
<1>6. new.arena = a /\ new.ops = edit.ops
  BY <1>3, <1>5
<1>7. /\ edits' = [edits EXCEPT ![b] = new]
      /\ store' = store /\ job' = job /\ returned' = returned
      /\ job = NoJob /\ returned = NoStore
  BY <1>1, <1>2, <1>5 DEF EditConstrain, Idle
<1>8. EditsOK /\ edits \in [1..Buffers -> [arena : Arena, ops : Seq(EditOp)]]
  BY DEF DocInv, Inv, EditsOK
<1>9. \A i \in 1..Len(edit.ops) :
         /\ OpFits(a, edit.ops[i])
         /\ Operation(a, edit.ops[i]) = Operation(edit.arena, edit.ops[i])
  BY <1>3, <1>4, DraftStays
<1>10. EditsRead'
  <2>1. ASSUME NEW c \in 1..Buffers, NEW i \in 1..Len(edits'[c].ops)
        PROVE  OpFits(edits'[c].arena, edits'[c].ops[i])
    <3>1. CASE c # b
      <4>1. edits'[c] = edits[c]
        BY <1>7, <1>8, <3>1
      <4> QED BY <2>1, <4>1 DEF DocInv, EditsRead
    <3>2. CASE c = b
      <4>1. edits'[c] = new
        BY <1>7, <1>8, <3>2
      <4> QED BY <1>6, <1>9, <2>1, <4>1
    <3> QED BY <3>1, <3>2
  <2> QED BY <2>1 DEF EditsRead
<1>11. NothingYet'
  <2>1. ASSUME ~store.finalized, NEW c \in 1..Buffers
        PROVE  edits'[c].arena.buf = <<>> /\ ~edits'[c].arena.over
    <3>1. edits[c].arena.buf = <<>> /\ ~edits[c].arena.over
      BY <2>1 DEF DocInv, NothingYet
    <3>2. CASE c # b
      BY <1>7, <1>8, <3>1, <3>2
    <3>3. CASE c = b
      <4>1. edits'[c] = new
        BY <1>7, <1>8, <3>3
      <4> QED BY <1>2, <1>4, <1>6, <3>1, <3>3, <4>1
    <3> QED BY <3>2, <3>3
  <2> QED BY <1>7, <2>1 DEF NothingYet
<1>12. DocInv'
  BY <1>7, <1>10, <1>11 DEF DocInv, CommitAt, CompactAt
<1>13. Drafts' = [Drafts EXCEPT ![b] = DraftOf(new)] /\ Drafts[b] = DraftOf(edit)
  BY <1>2, <1>7, <1>8, DraftsChange, DraftsAre
<1>14. Answered = Nothing /\ Answered' = Answered /\ Document(store') = Document(store)
  BY <1>7 DEF Answered
<1>15. DOMAIN Drafts = 1..Buffers /\ Drafts = [c \in 1..Buffers |-> Drafts[c]]
  BY DEF Drafts
<1>16. CASE a.over = edit.arena.over
  <2>1. [i \in 1..Len(edit.ops) |-> Operation(a, edit.ops[i])]
           = [i \in 1..Len(edit.ops) |-> Operation(edit.arena, edit.ops[i])]
    BY <1>9
  <2>2. DraftOf(new) = DraftOf(edit)
    BY <1>6, <1>16, <2>1 DEF DraftOf
  <2>3. Drafts' = Drafts
    BY <1>13, <1>15, <2>2
  <2> QED BY <1>12, <1>14, <2>3, IsStutter DEF Stepped
<1>17. CASE ~edit.arena.over /\ a.over
  <2>1. DraftOf(new) = [void |-> TRUE, ops |-> <<>>]
    BY <1>6, <1>17 DEF DraftOf
  <2>2. ~Drafts[b].void
    BY <1>13, <1>17 DEF DraftOf
  <2>3. store.finalized
    BY <1>2, <1>4, <1>17 DEF DocInv, NothingYet
  <2>4. Document(store).sealed
    BY <2>3 DEF Document
  <2> QED BY <1>12, <1>13, <1>14, <2>1, <2>2, <2>4, IsDraft DEF Stepped
<1>18. a.over \in BOOLEAN /\ edit.arena.over \in BOOLEAN /\ (edit.arena.over => a.over)
  BY <1>3, <1>4 DEF Extends, Arena
<1> QED BY <1>16, <1>17, <1>18

LEMMA RecordEditDoc == ASSUME DocInv, RecordEdit PROVE DocInv' /\ Stepped
<1>0. Inv'
  BY RecordEditInv DEF DocInv
<1>1. PICK b \in 1..Buffers : EditAdd(b) \/ EditSet(b) \/ EditSetWire(b)
                              \/ EditTombstone(b) \/ EditConstrain(b)
  BY DEF RecordEdit
<1>2. PICK a : a = edits[b].arena
  OBVIOUS
<1>3. a \in Arena
  BY <1>2 DEF DocInv, Inv, EditsOK
<1>4. CASE EditAdd(b)
  <2>1. PICK view \in Requests :
           Record(b, Materialise(edits[b].arena, view).arena,
                  [kind |-> "AddEntry",
                   entry |-> Materialise(edits[b].arena, view).entry])
    BY <1>4 DEF EditAdd
  <2>2. PICK m : m = Materialise(a, view)
    OBVIOUS
  <2>3. view \in EntryView /\ HasItsTexts(view.key) /\ HasItsPayload(view.value)
    BY StoreAssumption
  <2>4. Fits(m.arena, m.entry)
    BY <1>3, <2>2, <2>3, MaterialiseFits
  <2>5. Extends(a, m.arena) /\ (~m.arena.over => View(m.arena, m.entry) = view)
    BY <1>3, <2>2, <2>3, MaterialiseExact
  <2>6. PICK op : op = [kind |-> "AddEntry", entry |-> m.entry]
    OBVIOUS
  <2>7. OpShaped(op) /\ OpFits(m.arena, op)
    BY <2>4, <2>6, FitsIsShaped DEF OpShaped, OpFits, EditOp, Fits
  <2>8. ~m.arena.over => Operation(m.arena, op) \in Abstract!Operations
    BY <2>5, <2>6, AddIsRecorded
  <2>9. Record(b, m.arena, op)
    BY <1>2, <2>1, <2>2, <2>6
  <2> QED BY <1>0, <1>2, <2>5, <2>7, <2>8, <2>9, RecordDoc
<1>5. CASE EditSet(b)
  <2>1. PICK target \in Targets, view \in NewValues :
           Record(b, MakeValue(edits[b].arena, view).arena,
                  [kind |-> "SetValue", target |-> target,
                   value |-> MakeValue(edits[b].arena, view).value])
    BY <1>5 DEF EditSet
  <2>2. PICK v : v = MakeValue(a, view)
    OBVIOUS
  <2>3. view \in ValueView /\ HasItsPayload(view) /\ target \in Nat
    BY StoreAssumption
  <2>4. ValueFits(v.arena, v.value) /\ ValueShaped(v.value)
    BY <1>3, <2>2, <2>3, MakeValueFits DEF ValueFits, ValueShaped
  <2>5. Extends(a, v.arena) /\ (~v.arena.over => ViewValue(v.arena, v.value) = view)
    BY <1>3, <2>2, <2>3, MakeValueExact
  <2>6. PICK op : op = [kind |-> "SetValue", target |-> target, value |-> v.value]
    OBVIOUS
  <2>7. OpShaped(op) /\ OpFits(v.arena, op)
    BY <2>3, <2>4, <2>6 DEF OpShaped, OpFits, EditOp, ValueShaped
  <2>8. ~v.arena.over => Operation(v.arena, op) \in Abstract!Operations
    BY <2>5, <2>6, SetIsRecorded
  <2>9. Record(b, v.arena, op)
    BY <1>2, <2>1, <2>2, <2>6
  <2> QED BY <1>0, <1>2, <2>5, <2>7, <2>8, <2>9, RecordDoc
<1>6. CASE EditSetWire(b)
  <2>1. PICK target \in Targets, view \in NewValues, wire \in NewWires :
           Record(b, MakeValue(edits[b].arena, view).arena,
                  [kind |-> "SetValueWithWire", target |-> target,
                   value |-> MakeValue(edits[b].arena, view).value, wire |-> wire])
    BY <1>6 DEF EditSetWire
  <2>2. PICK v : v = MakeValue(a, view)
    OBVIOUS
  <2>3. view \in ValueView /\ HasItsPayload(view) /\ target \in Nat /\ wire \in Nat
    BY StoreAssumption
  <2>4. ValueFits(v.arena, v.value) /\ ValueShaped(v.value)
    BY <1>3, <2>2, <2>3, MakeValueFits DEF ValueFits, ValueShaped
  <2>5. Extends(a, v.arena) /\ (~v.arena.over => ViewValue(v.arena, v.value) = view)
    BY <1>3, <2>2, <2>3, MakeValueExact
  <2>6. PICK op : op = [kind |-> "SetValueWithWire", target |-> target,
                        value |-> v.value, wire |-> wire]
    OBVIOUS
  <2>7. OpShaped(op) /\ OpFits(v.arena, op)
    BY <2>3, <2>4, <2>6 DEF OpShaped, OpFits, EditOp, ValueShaped
  <2>8. ~v.arena.over => Operation(v.arena, op) \in Abstract!Operations
    BY <2>5, <2>6, SetWireIsRecorded
  <2>9. Record(b, v.arena, op)
    BY <1>2, <2>1, <2>2, <2>6
  <2> QED BY <1>0, <1>2, <2>5, <2>7, <2>8, <2>9, RecordDoc
<1>7. CASE EditTombstone(b)
  <2>1. PICK target \in Targets :
           Record(b, edits[b].arena, [kind |-> "Tombstone", target |-> target])
    BY <1>7 DEF EditTombstone
  <2>2. PICK op : op = [kind |-> "Tombstone", target |-> target]
    OBVIOUS
  <2>3. OpShaped(op) /\ OpFits(a, op)
    BY <2>2, StoreAssumption DEF OpShaped, OpFits, EditOp
  <2>4. Operation(a, op) \in Abstract!Operations
    BY <2>2 DEF Operation, Abstract!Operations
  <2>5. Record(b, a, op) /\ Extends(a, a)
    BY <1>2, <1>3, <2>1, <2>2, ExtendsRefl
  <2> QED BY <1>0, <1>2, <2>3, <2>4, <2>5, RecordDoc
<1>8. CASE EditConstrain(b)
  BY <1>0, <1>8, ConstrainDoc
<1> QED BY <1>1, <1>4, <1>5, <1>6, <1>7, <1>8

LEMMA DropEditsDoc == ASSUME DocInv, DropEdits PROVE DocInv' /\ Stepped
<1>1. /\ edits' = [b \in 1..Buffers |-> EmptyEdit]
      /\ store' = store /\ job' = job /\ returned' = returned
      /\ job = NoJob /\ returned = NoStore
  BY DEF DropEdits, Idle
<1>2. Inv'
  BY NextInv DEF DocInv, Next
<1>3. /\ EmptyEdit.ops = <<>> /\ Len(<<>>) = 0
      /\ EmptyEdit.arena.buf = <<>> /\ EmptyEdit.arena.over = FALSE
  BY DEF EmptyEdit, EmptyArena
<1>4. EditsRead' /\ NothingYet'
  BY <1>1, <1>3 DEF EditsRead, NothingYet
<1>5. DocInv'
  BY <1>1, <1>2, <1>4 DEF DocInv, CommitAt, CompactAt
<1>6. DraftOf(EmptyEdit) = [void |-> FALSE, ops |-> <<>>]
  <2>1. [i \in 1..0 |-> Operation(EmptyEdit.arena, EmptyEdit.ops[i])] = <<>>
    OBVIOUS
  <2> QED BY <1>3, <2>1 DEF DraftOf
<1>7. Drafts' = [b \in 1..Buffers |-> DraftOf(EmptyEdit)]
  <2>1. Drafts' = [b \in 1..Buffers |-> DraftOf(edits'[b])]
    BY DEF Drafts, DraftOf
  <2> QED BY <1>1, <2>1
<1>8. Answered = Nothing /\ Answered' = Answered /\ Document(store') = Document(store)
  BY <1>1 DEF Answered
<1> QED BY <1>5, <1>6, <1>7, <1>8, IsDropDrafts DEF Stepped

-----------------------------------------------------------------------------
(* The calls.                                                                *)

LEMMA RestStays ==
    ASSUME DocInv, store' = store, edits' = edits
    PROVE  EditsRead' /\ NothingYet' /\ Drafts' = Drafts /\ Document(store') = Document(store)
BY DEF DocInv, EditsRead, NothingYet, Drafts

LEMMA ReturnFlaggedDoc ==
    ASSUME DocInv, returned = NoStore, Return(Flagged(store))
    PROVE  DocInv' /\ Stepped
<1>1. PICK s : s = Flagged(store)
  OBVIOUS
<1>2. /\ job' = NoJob /\ returned' = s /\ store' = store /\ edits' = edits
  BY <1>1 DEF Return
<1>3. Inv' /\ StoreOK(store) /\ Sound(store)
  BY ReturnFlaggedInv DEF DocInv, Inv, Sound
<1>4. DocInv'
  BY <1>2, <1>3, RestStays DEF DocInv, CommitAt, CompactAt
<1>5. StoreOK(s) /\ Keeps(store, s) /\ Refused(s)
  BY <1>1, <1>3, FlaggedKeeps, FlaggedFollows DEF Follows, Sound
<1>6. Answered = Nothing /\ Answered' = Document(s)
  BY <1>2, <1>5, StoreIsSomething DEF Answered
<1>7. PICK e, n, y, r, yes : /\ e = ListOf(store) /\ n = store.blocks /\ yes = TRUE
                             /\ y = store.finalized /\ r = Refused(store)
  OBVIOUS
<1>8. PICK d, f : d = Document(store) /\ f = Document(s)
  OBVIOUS
<1>9. d = [entries |-> e, blocks |-> n, sealed |-> y, refused |-> r]
  BY <1>7, <1>8, DocumentIs
<1>10. Document(s) = [entries |-> ListOf(s), blocks |-> s.blocks,
                      sealed |-> s.finalized, refused |-> Refused(s)]
  BY DocumentIs
<1>11. ListOf(s) = e /\ s.blocks = n /\ s.finalized = y /\ Refused(s) = yes
  <2>1. Refused(s) = TRUE
    BY <1>5 DEF Refused, StoreOK, Arena
  <2> QED BY <1>5, <1>7, <2>1 DEF Keeps
<1>12. f = [entries |-> e, blocks |-> n, sealed |-> y, refused |-> yes]
  BY <1>8, <1>10, <1>11
<1>13. f = [d EXCEPT !.refused = yes]
  BY <1>9, <1>12
<1>14. Answers([Document(store) EXCEPT !.refused = yes])
  BY <1>2, <1>6, <1>8, <1>13, RestStays DEF Answers
<1> QED BY <1>4, <1>7, <1>14, IsAnswerRefused DEF Stepped

IsDoc(d, e, n, y, r) == d = [entries |-> e, blocks |-> n, sealed |-> y, refused |-> r]
Sealed(d, yes, es) == [d EXCEPT !.sealed = yes, !.entries = es]

LEMMA SealedIs ==
    ASSUME NEW e, NEW n, NEW y, NEW r, NEW yes, NEW es,
           NEW d, IsDoc(d, e, n, y, r), NEW f, IsDoc(f, es, n, yes, r)
    PROVE  f = Sealed(d, yes, es)
<1>1. PICK g : g = [d EXCEPT !.sealed = yes]
  OBVIOUS
<1>2. g = [entries |-> e, blocks |-> n, sealed |-> yes, refused |-> r]
  BY <1>1 DEF IsDoc
<1>3. f = [g EXCEPT !.entries = es]
  BY <1>2 DEF IsDoc
<1>4. Sealed(d, yes, es) = [[d EXCEPT !.sealed = yes] EXCEPT !.entries = es]
  BY DEF Sealed
<1> QED BY <1>1, <1>3, <1>4

IsTrue(yes) == yes = TRUE

\* A finished copy is returned.
LEMMA FinishDoc ==
    ASSUME DocInv, CopyOK, ~Refused(job.out), Finish(job.out), NEW es, ListOf(job.out) = es,
           job.out.blocks = store.blocks, NEW yes, IsTrue(yes)
    PROVE  /\ DocInv' /\ ~Document(store).refused
           /\ Answers([Document(store) EXCEPT !.sealed = yes, !.entries = es])
<1>1. PICK out, s : out = job.out /\ s = Finalized(out)
  OBVIOUS
<1>2. /\ job' = NoJob /\ returned' = s /\ store' = store /\ edits' = edits
      /\ returned = NoStore /\ ~Refused(store) /\ Sound(out)
  BY <1>1 DEF Finish, Return, CopyOK, Proceeds
<1>3. Inv'
  BY FinishInv DEF DocInv
<1>4. DocInv'
  BY <1>2, <1>3, RestStays DEF DocInv, CommitAt, CompactAt
<1>5. StoreOK(out) /\ StoreOK(s)
  BY <1>1, <1>2, FinalizedFollows DEF Follows, Sound
<1>6. /\ s.entries = out.entries /\ s.arena = out.arena /\ s.blocks = out.blocks
      /\ s.over = out.over /\ s.finalized = TRUE
  BY <1>1, <1>5 DEF StoreOK, Finalized
<1>7. ListOf(s) = es /\ Refused(s) = FALSE /\ s.blocks = store.blocks
  <2>1. ListOf(s) = ListOf(out)
    BY <1>6 DEF ListOf, Document
  <2>2. ~Refused(s)
    BY <1>1, <1>6 DEF Refused
  <2> QED BY <1>1, <1>6, <2>1, <2>2 DEF Refused
<1>8. Answered = Nothing /\ Answered' = Document(s)
  BY <1>2, <1>5, StoreIsSomething DEF Answered
<1>9. PICK e, n, y, no : /\ e = ListOf(store) /\ n = store.blocks /\ no = FALSE
                         /\ y = store.finalized
  OBVIOUS
<1>10. PICK d, f : d = Document(store) /\ f = Document(s)
  OBVIOUS
<1>11. Refused(store) = FALSE
  BY <1>2 DEF Refused
<1>12. d = [entries |-> e, blocks |-> n, sealed |-> y, refused |-> no]
  <2>1. Document(store) = [entries |-> ListOf(store), blocks |-> store.blocks,
                           sealed |-> store.finalized, refused |-> Refused(store)]
    BY DocumentIs
  <2>2. Refused(store) = no
    BY <1>9, <1>11
  <2> QED BY <1>9, <1>10, <2>1, <2>2
<1>13. Document(s) = [entries |-> ListOf(s), blocks |-> s.blocks,
                      sealed |-> s.finalized, refused |-> Refused(s)]
  BY DocumentIs
<1>14. ListOf(s) = es /\ s.blocks = n /\ s.finalized = yes /\ Refused(s) = no
  BY <1>6, <1>7, <1>9 DEF IsTrue
<1>15. f = [entries |-> es, blocks |-> n, sealed |-> yes, refused |-> no]
  BY <1>10, <1>13, <1>14
<1>16. f = Sealed(d, yes, es)
  <2>1. IsDoc(d, e, n, y, no) /\ IsDoc(f, es, n, yes, no)
    BY <1>12, <1>15 DEF IsDoc
  <2> QED BY <2>1, SealedIs
<1>17. ~Document(store).refused
  BY <1>9, <1>10, <1>12
<1>18. Answers([Document(store) EXCEPT !.sealed = yes, !.entries = es])
  BY <1>2, <1>8, <1>10, <1>16, RestStays DEF Answers, Sealed
<1> QED BY <1>4, <1>17, <1>18

\* Where the operations of each buffer stand among those of all of them.
PlacedEdit(f, all, b) ==
    /\ Len(f[b - 1]) \in Nat /\ Len(edits[b].ops) \in Nat
    /\ Len(f[b]) = Len(f[b - 1]) + Len(edits[b].ops) /\ Len(f[b]) <= Len(all)
    /\ \A i \in 1..Len(edits[b].ops) :
          all[Len(f[b - 1]) + i] = Operation(edits[b].arena, edits[b].ops[i])

LEMMA PlaceOfEdit ==
    ASSUME Inv, \A b \in 1..Buffers : ~edits[b].arena.over,
           NEW f, f = Upto(Drafts), NEW all, all = f[Buffers]
    PROVE  /\ Len(all) \in Nat /\ f[0] = <<>>
           /\ \A b \in 1..Buffers : PlacedEdit(f, all, b)
<1>1. PICK S : S = UNION {{Operation(edits[b].arena, edits[b].ops[i]) :
                              i \in 1..Len(edits[b].ops)} : b \in 1..Buffers}
  OBVIOUS
<1>2. ASSUME NEW b \in 1..Buffers
      PROVE  /\ Drafts[b].ops \in Seq(S) /\ Len(Drafts[b].ops) = Len(edits[b].ops)
             /\ Len(edits[b].ops) \in Nat
             /\ \A i \in 1..Len(edits[b].ops) :
                   Drafts[b].ops[i] = Operation(edits[b].arena, edits[b].ops[i])
  <2>1. PICK n : n = Len(edits[b].ops)
    OBVIOUS
  <2>2. n \in Nat
    BY <2>1 DEF Inv, EditsOK
  <2>3. PICK ops : ops = [i \in 1..n |-> Operation(edits[b].arena, edits[b].ops[i])]
    OBVIOUS
  <2>4. Drafts[b].ops = ops
    BY <2>1, <2>3 DEF Drafts
  <2>5. \A i \in 1..n : ops[i] \in S
    BY <1>1, <2>1, <2>3
  <2>6. ops \in Seq(S) /\ Len(ops) = n
    BY <2>2, <2>3, <2>5
  <2> QED BY <2>1, <2>2, <2>3, <2>4, <2>6
<1>3. RecordedIn(Drafts, S)
  BY <1>2 DEF RecordedIn
<1>4. Buffers \in 1..Buffers
  BY StoreAssumption
<1>5. ASSUME NEW b \in 1..Buffers PROVE Placed(Drafts, S, f, b)
  BY <1>3, PlaceOfDraft
<1>6. f[0] = <<>>
  BY <1>3, UptoIs
<1>7. Len(all) \in Nat
  BY <1>4, <1>5 DEF Placed
<1> QED BY <1>2, <1>5, <1>6, <1>7 DEF Placed, PlacedEdit

LEMMA CommitIs ==
    ASSUME DocInv, job # NoJob, job.kind = "commit",
           NEW f, f = Upto(Drafts), NEW all, all = f[Buffers],
           NEW g, g = After(ListOf(store), all)
    PROVE  /\ DOMAIN job = {"kind", "out", "edit", "op"}
           /\ job.edit \in 1..Buffers + 1 /\ job.op \in Nat \ {0} /\ CopyOK
           /\ Sound(job.out) /\ Sound(store) /\ returned = NoStore
           /\ \A b \in 1..Buffers : ~edits[b].arena.over
           /\ job.edit \in 1..Buffers => job.op <= Len(edits[job.edit].ops) + 1
           /\ job.edit = Buffers + 1 => job.op = 1
           /\ ListOf(job.out) = g[Len(f[job.edit - 1]) + job.op - 1]
           /\ job.out.blocks = store.blocks
<1>1. /\ DOMAIN job = {"kind", "out", "edit", "op"}
      /\ job.edit \in 1..Buffers + 1 /\ job.op \in Nat \ {0} /\ CopyOK
  BY DEF DocInv, Inv, JobOK
<1>2. Sound(job.out) /\ Sound(store) /\ returned = NoStore
  BY <1>1 DEF CopyOK, Proceeds, DocInv, Inv
<1>3. /\ \A b \in 1..Buffers : ~edits[b].arena.over
      /\ job.edit \in 1..Buffers => job.op <= Len(edits[job.edit].ops) + 1
      /\ job.edit = Buffers + 1 => job.op = 1
      /\ ListOf(job.out) = After(ListOf(store), Upto(Drafts)[Buffers])[Done]
      /\ job.out.blocks = store.blocks
  BY DEF DocInv, CommitAt
<1>4. Done = Len(f[job.edit - 1]) + job.op - 1
  BY DEF Done
<1> QED BY <1>1, <1>2, <1>3, <1>4

\* The call goes on, at the place its local copy has reached.
LEMMA CommitGoesOn ==
    ASSUME DocInv, Inv', store' = store, edits' = edits, returned' = returned,
           returned = NoStore, job' # NoJob, job'.kind = "commit",
           \A b \in 1..Buffers : ~edits[b].arena.over,
           NEW f, f = Upto(Drafts), NEW all, all = f[Buffers],
           NEW g, g = After(ListOf(store), all),
           job'.edit \in 1..Buffers => job'.op <= Len(edits[job'.edit].ops) + 1,
           job'.edit = Buffers + 1 => job'.op = 1,
           ListOf(job'.out) = g[Len(f[job'.edit - 1]) + job'.op - 1],
           job'.out.blocks = store.blocks
    PROVE  DocInv' /\ Stepped
<1>1. /\ EditsRead' /\ NothingYet' /\ Drafts' = Drafts /\ Document(store') = Document(store)
  BY RestStays
<1>2. ListOf(store') = ListOf(store)
  OBVIOUS
<1>3. Done' = Len(Upto(Drafts')[job'.edit - 1]) + job'.op - 1
  BY DEF Done
<1>4. Done' = Len(f[job'.edit - 1]) + job'.op - 1
  BY <1>1, <1>3
<1>5. /\ ListOf(job.out)' = After(ListOf(store'), Upto(Drafts')[Buffers])[Done']
  BY <1>1, <1>2, <1>4
<1>6. CommitAt'
  BY <1>5 DEF CommitAt
<1>7. CompactAt'
  BY DEF CompactAt
<1>8. Answered' = Answered
  BY DEF Answered
<1> QED BY <1>1, <1>6, <1>7, <1>8, IsStutter DEF DocInv, Stepped

LEMMA CommitBeginDoc ==
    ASSUME DocInv, CommitBegin PROVE DocInv' /\ Stepped
<1>0. Inv'
  BY CommitInv DEF DocInv, Commit
<1>1. CASE Return(Flagged(store))
  <2>1. returned = NoStore
    BY DEF CommitBegin, Idle
  <2> QED BY <1>1, <2>1, ReturnFlaggedDoc
<1>2. CASE /\ \A b \in 1..Buffers : ~edits[b].arena.over
           /\ ~Refused(store) /\ Idle /\ StartCommit
  <2>1. PICK out : out = Unfinalized(store)
    OBVIOUS
  <2>2. /\ job' = [kind |-> "commit", out |-> out, edit |-> 1, op |-> 1]
        /\ store' = store /\ edits' = edits /\ returned' = returned /\ returned = NoStore
    BY <1>2, <2>1 DEF StartCommit, Idle
  <2>3. /\ job' # NoJob /\ job'.kind = "commit" /\ job'.edit = 1 /\ job'.op = 1
        /\ job'.out = out
    BY <2>2 DEF NoJob
  <2>4. out.entries = store.entries /\ out.arena = store.arena /\ out.blocks = store.blocks
    BY <2>1 DEF Unfinalized, DocInv, Inv, Sound, StoreOK
  <2>5. ListOf(out) = ListOf(store)
    BY <2>4 DEF ListOf, Document
  <2>6. PICK f, all, g : /\ f = Upto(Drafts) /\ all = f[Buffers]
                         /\ g = After(ListOf(store), all)
    OBVIOUS
  <2>7. /\ Len(all) \in Nat /\ f[0] = <<>>
        /\ \A b \in 1..Buffers : Len(edits[b].ops) \in Nat
    BY <1>2, <2>6, PlaceOfEdit DEF DocInv, PlacedEdit
  <2>8. g[0] = ListOf(store)
    BY <2>6, <2>7, AfterIs
  <2>9. Len(f[1 - 1]) + 1 - 1 = 0
    BY <2>7
  <2>10. ListOf(job'.out) = g[Len(f[job'.edit - 1]) + job'.op - 1]
    BY <2>3, <2>5, <2>8, <2>9
  <2>11. /\ job'.edit \in 1..Buffers => job'.op <= Len(edits[job'.edit].ops) + 1
         /\ job'.edit = Buffers + 1 => job'.op = 1
    BY <2>3, <2>7
  <2> QED BY <1>0, <1>2, <2>2, <2>3, <2>4, <2>6, <2>10, <2>11, CommitGoesOn
<1> QED BY <1>1, <1>2 DEF CommitBegin

LEMMA CommitOpDoc ==
    ASSUME DocInv, CommitOp PROVE DocInv' /\ Stepped
<1>0. Inv'
  BY CommitInv DEF DocInv, Commit
<1>1. /\ job.kind = "commit" /\ job # NoJob
      /\ job.edit <= Buffers /\ job.op <= Len(edits[job.edit].ops)
  BY DEF CommitOp, NoJob
<1>2. PICK f, all, g : /\ f = Upto(Drafts) /\ all = f[Buffers]
                       /\ g = After(ListOf(store), all)
  OBVIOUS
<1>3. /\ DOMAIN job = {"kind", "out", "edit", "op"}
      /\ job.edit \in 1..Buffers + 1 /\ job.op \in Nat \ {0}
      /\ Sound(job.out) /\ returned = NoStore
      /\ \A b \in 1..Buffers : ~edits[b].arena.over
      /\ ListOf(job.out) = g[Len(f[job.edit - 1]) + job.op - 1]
      /\ job.out.blocks = store.blocks
  BY <1>1, <1>2, CommitIs
<1>4. PICK b, i : b = job.edit /\ i = job.op
  OBVIOUS
<1>5. b \in 1..Buffers /\ i \in Nat /\ i # 0 /\ i <= Len(edits[b].ops)
  BY <1>1, <1>3, <1>4, StoreAssumption
<1>6. /\ Len(all) \in Nat /\ Len(f[b - 1]) \in Nat /\ Len(edits[b].ops) \in Nat
      /\ Len(f[b]) = Len(f[b - 1]) + Len(edits[b].ops) /\ Len(f[b]) <= Len(all)
      /\ \A j \in 1..Len(edits[b].ops) :
            all[Len(f[b - 1]) + j] = Operation(edits[b].arena, edits[b].ops[j])
  <2>1. Len(all) \in Nat /\ PlacedEdit(f, all, b)
    BY <1>2, <1>3, <1>5, PlaceOfEdit DEF DocInv
  <2> QED BY <2>1 DEF PlacedEdit
<1>7. i \in 1..Len(edits[b].ops)
  BY <1>5, <1>6
<1>8. PICK ar, op : ar = edits[b].arena /\ op = edits[b].ops[i]
  OBVIOUS
<1>9. ar \in Arena /\ OpShaped(op)
  BY <1>5, <1>7, <1>8 DEF DocInv, Inv, EditsOK
<1>10. PICK out : out = ApplyOp(job.out, ar, op)
  OBVIOUS
<1>11. CASE IsFailed(out)
  <2>1. Return(Flagged(store))
    BY <1>4, <1>8, <1>10, <1>11 DEF CommitOp
  <2> QED BY <1>3, <2>1, ReturnFlaggedDoc
<1>12. CASE ~IsFailed(out)
  <2>1. /\ job' = [job EXCEPT !.out = out, !.op = @ + 1]
        /\ store' = store /\ edits' = edits /\ returned' = returned
    BY <1>4, <1>8, <1>10, <1>12 DEF CommitOp
  <2>2. /\ DOMAIN job' = {"kind", "out", "edit", "op"} /\ job'.kind = "commit"
        /\ job'.edit = b /\ job'.op = i + 1 /\ job'.out = out
    BY <1>1, <1>3, <1>4, <2>1
  <2>3. job' # NoJob
    BY <2>2 DEF NoJob
  <2>4. /\ ListOf(out) = Abstract!Do(ListOf(job.out), Operation(ar, op))
        /\ out.blocks = job.out.blocks
    BY <1>3, <1>9, <1>10, <1>12, ApplyExact
  <2>5. PICK n : n = Len(f[b - 1]) + i
    OBVIOUS
  <2>6. /\ n \in 1..Len(all) /\ Len(f[b - 1]) + i - 1 = n - 1
        /\ Len(f[b - 1]) + (i + 1) - 1 = n
    <3>1. PICK p, q, k, m : /\ p = Len(f[b - 1]) /\ q = Len(f[b])
                            /\ k = Len(edits[b].ops) /\ m = Len(all)
      OBVIOUS
    <3>2. p \in Nat /\ k \in Nat /\ m \in Nat /\ q = p + k /\ q <= m
      BY <1>6, <3>1
    <3>3. i \in 1..k /\ n = p + i
      BY <1>7, <2>5, <3>1
    <3>4. n \in 1..m /\ p + i - 1 = n - 1 /\ p + (i + 1) - 1 = n
      BY <3>2, <3>3
    <3> QED BY <3>1, <3>4
  <2>7. all[n] = Operation(ar, op)
    BY <1>6, <1>7, <1>8, <2>5
  <2>8. g[n] = Abstract!Do(g[n - 1], all[n])
    BY <1>2, <1>6, <2>6, AfterIs
  <2>9. ListOf(job.out) = g[n - 1]
    BY <1>3, <1>4, <2>6
  <2>10. ListOf(job'.out) = g[Len(f[job'.edit - 1]) + job'.op - 1]
    BY <2>2, <2>4, <2>6, <2>7, <2>8, <2>9
  <2>11. /\ job'.edit \in 1..Buffers => job'.op <= Len(edits[job'.edit].ops) + 1
         /\ job'.edit = Buffers + 1 => job'.op = 1
    BY <1>5, <1>6, <2>2, StoreAssumption
  <2> QED BY <1>0, <1>2, <1>3, <2>1, <2>2, <2>3, <2>4, <2>10, <2>11, CommitGoesOn
<1> QED BY <1>11, <1>12

LEMMA CommitNextEditDoc ==
    ASSUME DocInv, CommitNextEdit PROVE DocInv' /\ Stepped
<1>0. Inv'
  BY CommitInv DEF DocInv, Commit
<1>1. /\ job.kind = "commit" /\ job # NoJob
      /\ job.edit <= Buffers /\ job.op > Len(edits[job.edit].ops)
      /\ job' = [job EXCEPT !.edit = @ + 1, !.op = 1]
      /\ store' = store /\ edits' = edits /\ returned' = returned
  BY DEF CommitNextEdit, NoJob
<1>2. PICK f, all, g : /\ f = Upto(Drafts) /\ all = f[Buffers]
                       /\ g = After(ListOf(store), all)
  OBVIOUS
<1>3. /\ DOMAIN job = {"kind", "out", "edit", "op"}
      /\ job.edit \in 1..Buffers + 1 /\ job.op \in Nat \ {0}
      /\ Sound(job.out) /\ returned = NoStore
      /\ \A b \in 1..Buffers : ~edits[b].arena.over
      /\ ListOf(job.out) = g[Len(f[job.edit - 1]) + job.op - 1]
      /\ job.edit \in 1..Buffers => job.op <= Len(edits[job.edit].ops) + 1
      /\ job.out.blocks = store.blocks
  BY <1>1, <1>2, CommitIs
<1>4. PICK b, i : b = job.edit /\ i = job.op
  OBVIOUS
<1>5. b \in 1..Buffers /\ i \in Nat
  BY <1>1, <1>3, <1>4, StoreAssumption
<1>6. /\ Len(f[b - 1]) \in Nat /\ Len(edits[b].ops) \in Nat
      /\ Len(f[b]) = Len(f[b - 1]) + Len(edits[b].ops)
      /\ \A c \in 1..Buffers : Len(edits[c].ops) \in Nat
  <2>1. \A c \in 1..Buffers : PlacedEdit(f, all, c)
    BY <1>2, <1>3, PlaceOfEdit DEF DocInv
  <2> QED BY <1>5, <2>1 DEF PlacedEdit
<1>7. i = Len(edits[b].ops) + 1
  BY <1>1, <1>3, <1>4, <1>5, <1>6
<1>8. /\ DOMAIN job' = {"kind", "out", "edit", "op"} /\ job'.kind = "commit"
      /\ job'.edit = b + 1 /\ job'.op = 1 /\ job'.out = job.out
  BY <1>1, <1>3, <1>4
<1>9. job' # NoJob
  BY <1>8 DEF NoJob
<1>10. (b + 1) - 1 = b /\ Len(f[b - 1]) + i - 1 = Len(f[b]) + 1 - 1
  BY <1>5, <1>6, <1>7
<1>11. ListOf(job'.out) = g[Len(f[job'.edit - 1]) + job'.op - 1]
  BY <1>3, <1>4, <1>8, <1>10
<1>12. /\ job'.edit \in 1..Buffers => job'.op <= Len(edits[job'.edit].ops) + 1
       /\ job'.edit = Buffers + 1 => job'.op = 1
  BY <1>6, <1>8
<1> QED BY <1>0, <1>1, <1>2, <1>3, <1>8, <1>9, <1>11, <1>12, CommitGoesOn

LEMMA CommitEndDoc ==
    ASSUME DocInv, CommitEnd PROVE DocInv' /\ Stepped
<1>1. job.kind = "commit" /\ job # NoJob /\ job.edit > Buffers /\ Finish(job.out)
  BY DEF CommitEnd, NoJob
<1>2. PICK f, all, g : /\ f = Upto(Drafts) /\ all = f[Buffers]
                       /\ g = After(ListOf(store), all)
  OBVIOUS
<1>3. /\ job.edit \in 1..Buffers + 1 /\ CopyOK /\ returned = NoStore
      /\ job.edit = Buffers + 1 => job.op = 1
      /\ \A b \in 1..Buffers : ~edits[b].arena.over
      /\ ListOf(job.out) = g[Len(f[job.edit - 1]) + job.op - 1]
      /\ job.out.blocks = store.blocks
  BY <1>1, <1>2, CommitIs
<1>4. CASE Refused(job.out)
  <2>1. Return(Flagged(store))
    BY <1>1, <1>4 DEF Finish
  <2> QED BY <1>3, <2>1, ReturnFlaggedDoc
<1>5. CASE ~Refused(job.out)
  <2>1. Len(all) \in Nat
    BY <1>2, <1>3, PlaceOfEdit DEF DocInv
  <2>2. job.edit = Buffers + 1 /\ job.op = 1 /\ (Buffers + 1) - 1 = Buffers
    BY <1>1, <1>3, StoreAssumption
  <2>3. Len(f[job.edit - 1]) + job.op - 1 = Len(all)
    BY <1>2, <2>1, <2>2
  <2>4. PICK es : es = Abstract!Applied(Document(store).entries, Abstract!AllDrafts)
    OBVIOUS
  <2>5. Abstract!AllDrafts = all
    BY <1>2, AllDraftsIs
  <2>6. es = g[Len(all)]
    BY <1>2, <2>1, <2>4, <2>5, AfterIs DEF ListOf
  <2>7. ListOf(job.out) = es
    BY <1>3, <2>3, <2>6
  <2>8. PICK yes : yes = TRUE
    OBVIOUS
  <2>9. IsTrue(yes)
    BY <2>8 DEF IsTrue
  <2>10. /\ DocInv' /\ ~Document(store).refused
         /\ Answers([Document(store) EXCEPT !.sealed = yes, !.entries = es])
    BY <1>1, <1>3, <1>5, <2>7, <2>9, FinishDoc
  <2>11. \A b \in 1..Buffers : ~Drafts[b].void
    BY <1>3 DEF Drafts
  <2> QED BY <2>4, <2>8, <2>10, <2>11, IsCommit DEF Stepped
<1> QED BY <1>4, <1>5

LEMMA CommitDoc == ASSUME DocInv, Commit PROVE DocInv' /\ Stepped
BY CommitBeginDoc, CommitOpDoc, CommitNextEditDoc, CommitEndDoc DEF Commit

LEMMA CompactIs ==
    ASSUME DocInv, job # NoJob, job.kind = "compact", NEW g, g = Among(ListOf(store))
    PROVE  /\ DOMAIN job = {"kind", "out", "next"}
           /\ job.next \in 0..Len(store.entries) /\ CopyOK
           /\ Sound(job.out) /\ Sound(store) /\ returned = NoStore
           /\ ListOf(job.out) = g[job.next] /\ job.out.blocks = store.blocks
<1>1. /\ DOMAIN job = {"kind", "out", "next"}
      /\ job.next \in 0..Len(store.entries) /\ CopyOK
  BY DEF DocInv, Inv, JobOK
<1>2. Sound(job.out) /\ Sound(store) /\ returned = NoStore
  BY <1>1 DEF CopyOK, Proceeds, DocInv, Inv
<1>3. ListOf(job.out) = g[job.next] /\ job.out.blocks = store.blocks
  BY DEF DocInv, CompactAt
<1> QED BY <1>1, <1>2, <1>3

LEMMA CompactGoesOn ==
    ASSUME DocInv, Inv', store' = store, edits' = edits, returned' = returned,
           returned = NoStore, job' # NoJob, job'.kind = "compact",
           NEW g, g = Among(ListOf(store)),
           ListOf(job'.out) = g[job'.next], job'.out.blocks = store.blocks
    PROVE  DocInv' /\ Stepped
<1>1. /\ EditsRead' /\ NothingYet' /\ Drafts' = Drafts /\ Document(store') = Document(store)
  BY RestStays
<1>2. CompactAt'
  BY DEF CompactAt
<1>3. CommitAt'
  BY DEF CommitAt
<1>4. Answered' = Answered
  BY DEF Answered
<1> QED BY <1>1, <1>2, <1>3, <1>4, IsStutter DEF DocInv, Stepped

LEMMA CompactBeginDoc ==
    ASSUME DocInv, CompactBegin PROVE DocInv' /\ Stepped
<1>0. Inv' /\ StoreOK(store)
  BY CompactInv DEF DocInv, Compact, Inv, Sound
<1>1. CASE Return(Flagged(store))
  <2>1. returned = NoStore
    BY DEF CompactBegin, Idle
  <2> QED BY <1>1, <2>1, ReturnFlaggedDoc
<1>2. CASE ~Refused(store) /\ Idle /\ StartCompact
  <2>1. PICK out : out = [Unfinalized(store) EXCEPT
                             !.entries = <<>>, !.arena = ArenaClear(store.arena)]
    OBVIOUS
  <2>2. /\ job' = [kind |-> "compact", next |-> 0, out |-> out]
        /\ store' = store /\ edits' = edits /\ returned' = returned /\ returned = NoStore
    BY <1>2, <2>1 DEF StartCompact, Idle
  <2>3. /\ job' # NoJob /\ job'.kind = "compact" /\ job'.next = 0 /\ job'.out = out
    BY <2>2 DEF NoJob
  <2>4. out.entries = <<>> /\ out.blocks = store.blocks
    BY <1>0, <2>1 DEF Unfinalized, StoreOK
  <2>5. ListOf(out) = <<>>
    <3>1. Len(out.entries) = 0
      BY <2>4
    <3>2. ListOf(out) = [i \in 1..0 |-> View(out.arena, out.entries[i])]
      BY <3>1, DocumentIs
    <3> QED BY <3>2
  <2>6. PICK g : g = Among(ListOf(store))
    OBVIOUS
  <2>7. g[0] = <<>>
    BY <1>0, <2>6, LensOfLists, AmongIs
  <2>8. ListOf(job'.out) = g[job'.next]
    BY <2>3, <2>5, <2>7
  <2> QED BY <1>0, <2>2, <2>3, <2>4, <2>6, <2>8, CompactGoesOn
<1> QED BY <1>1, <1>2 DEF CompactBegin

LEMMA CompactEntryDoc ==
    ASSUME DocInv, CompactEntry PROVE DocInv' /\ Stepped
<1>0. Inv'
  BY CompactInv DEF DocInv, Compact
<1>1. job.kind = "compact" /\ job # NoJob /\ job.next < Len(store.entries)
  BY DEF CompactEntry, NoJob
<1>2. PICK g : g = Among(ListOf(store))
  OBVIOUS
<1>3. /\ DOMAIN job = {"kind", "out", "next"}
      /\ job.next \in 0..Len(store.entries)
      /\ Sound(job.out) /\ Sound(store) /\ returned = NoStore
      /\ ListOf(job.out) = g[job.next] /\ job.out.blocks = store.blocks
  BY <1>1, <1>2, CompactIs
<1>4. PICK out, n : out = job.out /\ n = job.next + 1
  OBVIOUS
<1>5. PICK e : e = store.entries[n]
  OBVIOUS
<1>6. PICK c : c = CopyEntry(store.arena, out.arena, e)
  OBVIOUS
<1>7. /\ StoreOK(store) /\ store.arena \in Arena /\ out.arena \in Arena
      /\ out.entries \in Seq(Entry) /\ Len(store.entries) \in Nat
  BY <1>3, <1>4 DEF Sound, StoreOK
<1>8. n \in 1..Len(store.entries) /\ n - 1 = job.next
  BY <1>1, <1>3, <1>4, <1>7
<1>9. Shaped(e)
  BY <1>3, <1>5, <1>8, FitsIsShaped DEF Sound
<1>10. PICK v : v = View(store.arena, e)
  OBVIOUS
<1>11. ListOf(store)[n] = v /\ n \in 1..Len(ListOf(store)) /\ v.flags = e.flags
  <2>1. v.flags = e.flags
    BY <1>10 DEF View
  <2> QED BY <1>5, <1>7, <1>8, <1>10, <2>1, LensOfLists
<1>12. g[n] = IF "Deleted" \in e.flags THEN g[n - 1] ELSE Append(g[n - 1], v)
  <2>1. Len(ListOf(store)) \in Nat
    BY <1>7, LensOfLists
  <2>2. g[n] = IF "Deleted" \in ListOf(store)[n].flags THEN g[n - 1]
               ELSE Append(g[n - 1], ListOf(store)[n])
    BY <1>2, <1>11, <2>1, AmongIs
  <2> QED BY <1>11, <2>2
<1>13. CASE "Deleted" \in e.flags
  <2>1. /\ job' = [job EXCEPT !.next = @ + 1]
        /\ store' = store /\ edits' = edits /\ returned' = returned
    BY <1>4, <1>5, <1>13 DEF CompactEntry
  <2>2. /\ DOMAIN job' = {"kind", "out", "next"} /\ job'.kind = "compact"
        /\ job'.next = n /\ job'.out = job.out
    BY <1>1, <1>3, <1>4, <2>1
  <2>3. job' # NoJob
    BY <2>2 DEF NoJob
  <2>4. ListOf(job'.out) = g[job'.next]
    BY <1>3, <1>8, <1>12, <1>13, <2>2
  <2> QED BY <1>0, <1>2, <1>3, <2>1, <2>2, <2>3, <2>4, CompactGoesOn
<1>14. CASE "Deleted" \notin e.flags /\ ~c.ok
  <2>1. Return(Flagged(store))
    BY <1>4, <1>5, <1>6, <1>14 DEF CompactEntry
  <2> QED BY <1>3, <2>1, ReturnFlaggedDoc
<1>15. CASE "Deleted" \notin e.flags /\ c.ok
  <2>1. PICK new : new = [out EXCEPT !.arena = c.arena,
                                     !.entries = Append(out.entries, c.entry)]
    OBVIOUS
  <2>2. /\ job' = [job EXCEPT !.next = @ + 1, !.out.arena = c.arena,
                              !.out.entries = Append(@, c.entry)]
        /\ store' = store /\ edits' = edits /\ returned' = returned
    BY <1>4, <1>5, <1>6, <1>15 DEF CompactEntry
  <2>3. StoreOK(out)
    BY <1>3, <1>4 DEF Sound
  <2>4. /\ DOMAIN job' = {"kind", "out", "next"} /\ job'.kind = "compact"
        /\ job'.next = n /\ job'.out = new
    <3>1. job' = [job EXCEPT !.next = @ + 1, !.out = new]
      BY <1>3, <1>4, <2>1, <2>2
    <3> QED BY <1>1, <1>3, <1>4, <3>1
  <2>5. job' # NoJob
    BY <2>4 DEF NoJob
  <2>6. /\ new.arena = c.arena /\ new.entries = Append(out.entries, c.entry)
        /\ new.blocks = out.blocks
    BY <2>1, <2>3 DEF StoreOK
  <2>7. Extends(out.arena, new.arena) /\ View(c.arena, c.entry) = v
    BY <1>6, <1>7, <1>9, <1>10, <1>15, <2>6, CopyEntryExact
  <2>8. Fits(c.arena, c.entry)
    BY <1>6, <1>7, <1>9, <1>15, CopyEntryFits
  <2>9. PICK x : x = c.entry
    OBVIOUS
  <2>10. x \in Entry /\ new.entries = Append(out.entries, x) /\ View(new.arena, x) = v
    BY <2>6, <2>7, <2>8, <2>9 DEF Fits
  <2>11. Sound(out)
    BY <1>3, <1>4
  <2>12. ListOf(new) = Append(ListOf(out), v)
    BY <2>7, <2>10, <2>11, ViewsAppend
  <2>13. ListOf(job'.out) = g[job'.next]
    BY <1>3, <1>4, <1>8, <1>12, <1>15, <2>4, <2>12
  <2>14. job'.out.blocks = store.blocks
    BY <1>3, <1>4, <2>4, <2>6
  <2> QED BY <1>0, <1>2, <1>3, <2>2, <2>4, <2>5, <2>13, <2>14, CompactGoesOn
<1> QED BY <1>13, <1>14, <1>15

LEMMA CompactEndDoc ==
    ASSUME DocInv, CompactEnd PROVE DocInv' /\ Stepped
<1>1. /\ job.kind = "compact" /\ job # NoJob /\ job.next >= Len(store.entries)
      /\ Finish(job.out)
  BY DEF CompactEnd, NoJob
<1>2. PICK g : g = Among(ListOf(store))
  OBVIOUS
<1>3. /\ job.next \in 0..Len(store.entries) /\ CopyOK /\ Sound(store)
      /\ returned = NoStore
      /\ ListOf(job.out) = g[job.next] /\ job.out.blocks = store.blocks
  BY <1>1, <1>2, CompactIs
<1>4. CASE Refused(job.out)
  <2>1. Return(Flagged(store))
    BY <1>1, <1>4 DEF Finish
  <2> QED BY <1>3, <2>1, ReturnFlaggedDoc
<1>5. CASE ~Refused(job.out)
  <2>1. /\ Len(ListOf(store)) = Len(store.entries) /\ Len(ListOf(store)) \in Nat
    BY <1>3, LensOfLists DEF Sound
  <2>2. job.next = Len(ListOf(store))
    BY <1>1, <1>3, <2>1
  <2>3. PICK es : es = Abstract!Living(Document(store).entries)
    OBVIOUS
  <2>4. es = g[Len(ListOf(store))]
    BY <1>2, <2>1, <2>3, AmongIs DEF ListOf
  <2>5. ListOf(job.out) = es
    BY <1>3, <2>2, <2>4
  <2>6. PICK yes : yes = TRUE
    OBVIOUS
  <2>7. IsTrue(yes)
    BY <2>6 DEF IsTrue
  <2>8. /\ DocInv' /\ ~Document(store).refused
        /\ Answers([Document(store) EXCEPT !.sealed = yes, !.entries = es])
    BY <1>1, <1>3, <1>5, <2>5, <2>7, FinishDoc
  <2> QED BY <2>3, <2>6, <2>8, IsCompact DEF Stepped
<1> QED BY <1>4, <1>5

LEMMA CompactDoc == ASSUME DocInv, Compact PROVE DocInv' /\ Stepped
BY CompactBeginDoc, CompactEntryDoc, CompactEndDoc DEF Compact

-----------------------------------------------------------------------------
(* The host takes what was returned, or drops it.                            *)

LEMMA AdoptDoc == ASSUME DocInv, Adopt PROVE DocInv' /\ Stepped
<1>1. /\ store' = returned /\ returned' = NoStore /\ edits' = edits /\ job' = job
      /\ returned # NoStore
  BY DEF Adopt
<1>2. Inv'
  BY NextInv DEF DocInv, Next
<1>3. job = NoJob
  BY <1>1 DEF DocInv, Inv, JobOK, CopyOK
<1>4. EditsRead'
  BY <1>1 DEF DocInv, EditsRead
<1>5. NothingYet'
  <2>1. StoreOK(store) /\ AllOrNothing
    BY <1>1 DEF DocInv, Inv, Sound, ReturnedOK
  <2>2. returned.finalized \/ returned = Flagged(store)
    BY <1>1, <2>1 DEF AllOrNothing
  <2>3. store.finalized => returned.finalized
    BY <2>1, <2>2 DEF Flagged, StoreOK
  <2> QED BY <1>1, <2>3 DEF DocInv, NothingYet
<1>6. DocInv'
  BY <1>1, <1>2, <1>3, <1>4, <1>5 DEF DocInv, CommitAt, CompactAt
<1>7. Answered = Document(returned) /\ Answered' = Nothing
  BY <1>1 DEF Answered
<1>8. Answered # Nothing /\ Document(store') = Answered
  BY <1>1, <1>7, DocumentIsSomething
<1>9. Drafts' = Drafts
  BY <1>1 DEF Drafts
<1> QED BY <1>6, <1>7, <1>8, <1>9, IsAdopt DEF Stepped

LEMMA DropDoc == ASSUME DocInv, Drop PROVE DocInv' /\ Stepped
<1>1. /\ returned' = NoStore /\ store' = store /\ edits' = edits /\ job' = job
      /\ returned # NoStore /\ Refused(returned)
  BY DEF Drop
<1>2. Inv'
  BY NextInv DEF DocInv, Next
<1>3. job = NoJob
  BY <1>1 DEF DocInv, Inv, JobOK, CopyOK
<1>4. /\ EditsRead' /\ NothingYet' /\ Drafts' = Drafts /\ Document(store') = Document(store)
  BY <1>1, RestStays
<1>5. DocInv'
  BY <1>1, <1>2, <1>3, <1>4 DEF DocInv, CommitAt, CompactAt
<1>6. Answered = Document(returned) /\ Answered' = Nothing
  BY <1>1 DEF Answered
<1>7. Answered # Nothing /\ Answered.refused
  BY <1>1, <1>6, DocumentIsSomething DEF Document
<1> QED BY <1>4, <1>5, <1>6, <1>7, IsDrop DEF Stepped

LEMMA InitDoc == ASSUME Init PROVE DocInv /\ Abstract!Init
<1>1. /\ store = EmptyStore /\ edits = [b \in 1..Buffers |-> EmptyEdit]
      /\ job = NoJob /\ returned = NoStore
  BY DEF Init
<1>2. Inv
  BY InitInv
<1>3. /\ EmptyEdit.ops = <<>> /\ Len(<<>>) = 0
      /\ EmptyEdit.arena.buf = <<>> /\ EmptyEdit.arena.over = FALSE
  BY DEF EmptyEdit, EmptyArena
<1>4. EditsRead /\ NothingYet
  BY <1>1, <1>3 DEF EditsRead, NothingYet
<1>5. DocInv
  BY <1>1, <1>2, <1>4 DEF DocInv, CommitAt, CompactAt
<1>6. DraftOf(EmptyEdit) = [void |-> FALSE, ops |-> <<>>]
  <2>1. [i \in 1..0 |-> Operation(EmptyEdit.arena, EmptyEdit.ops[i])] = <<>>
    OBVIOUS
  <2> QED BY <1>3, <2>1 DEF DraftOf
<1>7. Drafts = [b \in 1..Buffers |-> [void |-> FALSE, ops |-> <<>>]]
  BY <1>1, <1>6, DraftsAre
<1>8. /\ store.entries = <<>> /\ store.blocks = 0 /\ store.finalized = FALSE
      /\ store.over = FALSE /\ store.arena.over = FALSE
  BY <1>1 DEF EmptyStore, EmptyArena
<1>9. ListOf(store) = <<>> /\ Refused(store) = FALSE
  <2>1. ListOf(store) = [i \in 1..0 |-> View(store.arena, store.entries[i])]
    BY <1>3, <1>8, DocumentIs
  <2> QED BY <1>8, <2>1 DEF Refused
<1>10. Document(store) = [entries |-> <<>>, blocks |-> 0, sealed |-> FALSE, refused |-> FALSE]
  <2>1. Document(store) = [entries |-> ListOf(store), blocks |-> store.blocks,
                           sealed |-> store.finalized, refused |-> Refused(store)]
    BY DocumentIs
  <2> QED BY <1>8, <1>9, <2>1
<1> QED BY <1>1, <1>5, <1>7, <1>10 DEF Abstract!Init, Abstract!NoAnswer, Abstract!Empty, Drafts

LEMMA NextDoc == ASSUME DocInv, [Next]_vars PROVE DocInv' /\ Stepped
<1>1. CASE Build
  BY <1>1, BuildDoc
<1>2. CASE RecordEdit
  BY <1>2, RecordEditDoc
<1>3. CASE DropEdits
  BY <1>3, DropEditsDoc
<1>4. CASE Commit
  BY <1>4, CommitDoc
<1>5. CASE Compact
  BY <1>5, CompactDoc
<1>6. CASE Adopt
  BY <1>6, AdoptDoc
<1>7. CASE Drop
  BY <1>7, DropDoc
<1>8. CASE UNCHANGED vars
  <2>1. store' = store /\ edits' = edits /\ job' = job /\ returned' = returned
    BY <1>8 DEF vars
  <2>2. Inv'
    BY NextInv DEF DocInv
  <2>3. /\ EditsRead' /\ NothingYet' /\ Drafts' = Drafts /\ Document(store') = Document(store)
    BY <2>1, RestStays
  <2>4. Answered' = Answered
    BY <2>1 DEF Answered
  <2>5. CommitAt' /\ CompactAt'
    <3>1. Done' = Done
      BY <2>1, <2>3 DEF Done
    <3> QED BY <2>1, <2>3, <3>1 DEF DocInv, CommitAt, CompactAt
  <2> QED BY <2>2, <2>3, <2>4, <2>5, IsStutter DEF DocInv, Stepped
<1> QED BY <1>1, <1>2, <1>3, <1>4, <1>5, <1>6, <1>7, <1>8 DEF Next

\* The store implements MetadataDocument: no entry is ever truncated by a refused
\* allocation, commit() applies the operations of all buffers in their order or
\* none of them, compact() drops exactly the deleted entries, and keys and values
\* read the same after every copy between arenas.
THEOREM DocumentIsImplemented == Spec => ImplementsDocument
<1>1. Init => DocInv /\ Abstract!Init
  BY InitDoc
<1>2. DocInv /\ [Next]_vars => DocInv' /\ [Abstract!Next]_(Abstract!vars)
  BY NextDoc DEF Stepped
<1> QED BY <1>1, <1>2, PTL DEF Spec, ImplementsDocument, Abstract!Spec
=============================================================================
