------------------------------ MODULE ByteArena ------------------------------
(***************************************************************************)
(* The append-only byte storage of openmeta/byte_arena.{h,cc}.             *)
(*                                                                         *)
(* An arena is a record: buf (buffer_), max (max_size_bytes_), over        *)
(* (limit_exceeded_).  A span is the pair (offset, size) of ByteSpan.  The *)
(* operators are pure: one that may fail returns the arena after the call  *)
(* and the span the caller gets, so that a store, a scratch store and an   *)
(* edit buffer can each own an arena.                                      *)
(***************************************************************************)
EXTENDS Integers, Sequences

CONSTANTS OffsetMax,    \* UINT32_MAX: the largest offset or size of a span
          Bytes         \* the byte values that occur

ASSUME OffsetMaxAssumption == OffsetMax \in Nat \ {0}
ASSUME BytesAssumption == Bytes \subseteq Nat /\ 0 \in Bytes

Span == [offset : 0..OffsetMax, size : 0..OffsetMax]
Arena == [buf : Seq(Bytes), max : Nat, over : BOOLEAN]

EmptySpan == [offset |-> 0, size |-> 0]

\* A default-constructed ByteArena: the ceiling is the width of a span.
EmptyArena == [buf |-> <<>>, max |-> OffsetMax, over |-> FALSE]

ArenaSize(a) == Len(a.buf)

InArena(a, s) == s.offset + s.size <= ArenaSize(a)

\* span(): a view that leaves the buffer reads as empty.
SpanBytes(a, s) ==
    IF InArena(a, s) THEN SubSeq(a.buf, s.offset + 1, s.offset + s.size)
                     ELSE <<>>

\* append(): refused when the offset or the end cannot be represented, or
\* when the end passes the ceiling; a refusal sets the flag and hands out
\* the empty span.
CanAppend_NoBounds(a, n) == TRUE                              \* mutant

CanAppend(a, n) ==
    /\ ArenaSize(a) + n <= OffsetMax
    /\ ArenaSize(a) + n <= a.max

Append_(a, bytes) ==
    IF CanAppend(a, Len(bytes))
    THEN [arena |-> [a EXCEPT !.buf = a.buf \o bytes],
          span  |-> [offset |-> ArenaSize(a), size |-> Len(bytes)]]
    ELSE [arena |-> [a EXCEPT !.over = TRUE], span |-> EmptySpan]

\* memmove() of n bytes within a buffer.
Moved(buf, from, to, n) ==
    [i \in 1..Len(buf) |-> IF i \in to + 1..to + n THEN buf[i - to + from] ELSE buf[i]]

\* resize(): the bytes that are new are zero.
Resized(buf, n) == [i \in 1..n |-> IF i <= Len(buf) THEN buf[i] ELSE 0]

AppendView_FromStart(a, s) ==                                 \* mutant
    IF CanAppend(a, s.size)
    THEN [arena |-> [a EXCEPT !.buf = Moved(Resized(@, Len(@) + s.size), 0, Len(@), s.size)],
          span  |-> [offset |-> ArenaSize(a), size |-> s.size]]
    ELSE [arena |-> [a EXCEPT !.over = TRUE], span |-> EmptySpan]

\* append() of a view into the buffer that it grows: resize() may move the buffer,
\* so the bytes come from where the view lies in the new one.
AppendView(a, s) ==
    IF CanAppend(a, s.size)
    THEN [arena |-> [a EXCEPT !.buf =
                        Moved(Resized(@, Len(@) + s.size), s.offset, Len(@), s.size)],
          span  |-> [offset |-> ArenaSize(a), size |-> s.size]]
    ELSE [arena |-> [a EXCEPT !.over = TRUE], span |-> EmptySpan]

\* Alignments are powers of two; every other value is refused.
IsPowerOfTwo[n \in Nat] ==
    n = 1 \/ (n > 1 /\ n % 2 = 0 /\ IsPowerOfTwo[n \div 2])

AlignUp(n, alignment) == ((n + alignment - 1) \div alignment) * alignment

Allocate_UnpaddedCheck(a, size, alignment) ==                 \* mutant
    LET start == AlignUp(ArenaSize(a), alignment)
        end   == start + size
    IN  IF /\ alignment # 0 /\ IsPowerOfTwo[alignment]
           /\ ArenaSize(a) + size <= a.max
        THEN [arena |-> [a EXCEPT !.buf =
                            a.buf \o [i \in 1..(end - ArenaSize(a)) |-> 0]],
              span  |-> [offset |-> start, size |-> size]]
        ELSE [arena |-> [a EXCEPT !.over = TRUE], span |-> EmptySpan]

\* allocate(): padding up to the alignment, then size zero bytes.
Allocate(a, size, alignment) ==
    LET start == AlignUp(ArenaSize(a), alignment)
        end   == start + size
    IN  IF /\ alignment # 0 /\ IsPowerOfTwo[alignment]
           /\ end <= OffsetMax /\ end <= a.max
        THEN [arena |-> [a EXCEPT !.buf =
                            a.buf \o [i \in 1..(end - ArenaSize(a)) |-> 0]],
              span  |-> [offset |-> start, size |-> size]]
        ELSE [arena |-> [a EXCEPT !.over = TRUE], span |-> EmptySpan]

\* reserve(): no bytes are stored, but asking for too many raises the flag.
ArenaReserve(a, n) == [a EXCEPT !.over = a.over \/ n > a.max]

\* constrain_max_size(): the lowest non-zero ceiling wins.
LowerCeiling_LastWins(old, new) == IF new # 0 THEN new ELSE old    \* mutant

LowerCeiling(old, new) == IF new # 0 /\ new < old THEN new ELSE old

ArenaConstrain_NoRecheck(a, n) ==                             \* mutant
    [a EXCEPT !.max = LowerCeiling(a.max, n)]

ArenaConstrain(a, n) ==
    LET max == LowerCeiling(a.max, n)
    IN  [a EXCEPT !.max = max, !.over = a.over \/ ArenaSize(a) > max]

\* clear(): drops the bytes and the flag, keeps the ceiling.
ArenaClear(a) == [a EXCEPT !.buf = <<>>, !.over = FALSE]
=============================================================================
