------------------------------- MODULE ArenaUse -------------------------------
(***************************************************************************)
(* One arena in use: its owner appends, allocates, reserves, tightens the  *)
(* ceiling and clears, and keeps every span the arena has handed out       *)
(* together with the bytes it stood for at that moment.                    *)
(***************************************************************************)
EXTENDS ByteArena, FiniteSets

CONSTANTS Payloads,     \* what append() is called with
          Sizes,        \* sizes given to allocate() and reserve()
          Alignments,   \* alignments given to allocate()
          Ceilings,     \* ceilings given to constrain_max_size()
          MaxHeld       \* bound: spans the owner keeps

ASSUME UseAssumption ==
    /\ Payloads \subseteq Seq(Bytes)
    /\ Sizes \subseteq 0..OffsetMax
    /\ Alignments \subseteq Nat
    /\ Ceilings \subseteq Nat
    /\ MaxHeld \in Nat

VARIABLES arena,
          held          \* the <<span, bytes>> pairs the owner still uses

useVars == <<arena, held>>

UseInit == arena = EmptyArena /\ held = {}

\* The owner keeps a span only if it got one: a refused call hands out the
\* empty span, which stands for no bytes.
Keep(r, bytes) ==
    /\ Cardinality(held) < MaxHeld
    /\ arena' = r.arena
    /\ held' = held \cup {<<r.span, IF r.span = EmptySpan THEN <<>> ELSE bytes>>}

AppendBytes == \E p \in Payloads : Keep(Append_(arena, p), p)

\* The owner appends what it reads by a view of the same arena.
AppendOwn ==
    \E s \in Span : InArena(arena, s) /\ Keep(AppendView(arena, s), SpanBytes(arena, s))

AllocateBytes ==
    \E n \in Sizes, al \in Alignments :
        Keep(Allocate(arena, n, al), [i \in 1..n |-> 0])

ReserveBytes ==
    \E n \in Sizes : arena' = ArenaReserve(arena, n) /\ UNCHANGED held

ConstrainBytes ==
    \E n \in Ceilings : arena' = ArenaConstrain(arena, n) /\ UNCHANGED held

ClearBytes == arena' = ArenaClear(arena) /\ held' = {}

UseNext == AppendBytes \/ AppendOwn \/ AllocateBytes \/ ReserveBytes \/ ConstrainBytes \/ ClearBytes

UseSpec == UseInit /\ [][UseNext]_useVars
-----------------------------------------------------------------------------
UseTypeOK ==
    /\ arena \in Arena
    /\ \A h \in held : h[1] \in Span

\* A span keeps standing for the bytes it was handed out for, however the
\* arena grows afterwards (ByteSpan values "remain meaningful as long as the
\* arena content is not cleared").
HeldSpansKeepTheirBytes == \A h \in held : SpanBytes(arena, h[1]) = h[2]

\* The buffer never passes the ceiling in force unless the flag tells so.
CeilingOrFlag == ArenaSize(arena) <= arena.max \/ arena.over

\* Until clear() the refusal flag stays up and the ceiling never widens.
NestedBudgetsOnlyTighten ==
    [][/\ arena'.max <= arena.max
       /\ (arena.over /\ ~ClearBytes) => arena'.over]_useVars
=============================================================================
