------------------------------ MODULE MetaStore ------------------------------
(***************************************************************************)
(* A metadata store and its edit pipeline (openmeta/meta_store.cc and      *)
(* openmeta/meta_edit.cc).                                                 *)
(*                                                                         *)
(* A decoder fills the store and finalizes it; worker threads record edits *)
(* in buffers of their own (MetaEdit); commit() applies the buffers, in    *)
(* their order in the span it is given, to a copy of the store, and        *)
(* compact() rewrites a copy without its tombstones.  Both return a        *)
(* snapshot, which the host adopts or, when it reports a refusal, drops.   *)
(* The loops of commit() and compact() take one action per edit operation  *)
(* or entry, so that what is true between two copies is visible.           *)
(***************************************************************************)
EXTENDS MetaStoreIndex

CONSTANTS Buffers,      \* number of edit buffers given to commit()
          Requests,     \* entries that decoders and editors ask for, as views
          NewValues,    \* values that edits set, as views
          NewWires,     \* wire hints that edits set
          Targets,      \* entry ids that edits name, existing or not
          EntryMax,     \* UINT32_MAX: the ceiling of an unconstrained store
          EntryCeilings,\* ceilings given to constrain_resources()
          ArenaCeilings,
          EditCeilings, \* ceilings given to the arena of an edit buffer
          MaxEntries,   \* bound: entries a model store may hold
          MaxBlocks,    \* bound: blocks a model store may hold
          MaxOps        \* bound: operations recorded in all buffers together

Flags == {"Deleted", "Dirty", "BigEndian"}

EntryView == [key : KeyView, value : ValueView, block : Nat, order : Nat,
              wire : Nat, wireName : Seq(Bytes), flags : SUBSET Flags]

Entry == [key : Key, value : Value, block : Nat, order : Nat,
          wire : Nat, wireName : Span, flags : SUBSET Flags]

ASSUME StoreAssumption ==
    /\ Buffers \in Nat \ {0}
    /\ Requests \subseteq EntryView
    /\ \A r \in Requests : HasItsTexts(r.key) /\ HasItsPayload(r.value)
    /\ NewValues \subseteq ValueView /\ \A v \in NewValues : HasItsPayload(v)
    /\ NewWires \subseteq Nat
    /\ Targets \subseteq Nat
    /\ EntryMax \in Nat /\ EntryCeilings \subseteq Nat /\ ArenaCeilings \subseteq Nat
    /\ EditCeilings \subseteq Nat
    /\ MaxEntries \in Nat /\ MaxBlocks \in Nat /\ MaxOps \in Nat

VARIABLES store,        \* the snapshot the host works on
          edits,        \* per buffer: its arena and its operations
          job,          \* the running commit() or compact(), and its local copy
          returned      \* the snapshot the last call returned, not yet adopted

vars == <<store, edits, job, returned>>

NoStore == [none |-> TRUE]
NoJob == [kind |-> "none"]
EmptyEdit == [arena |-> EmptyArena, ops |-> <<>>]

-----------------------------------------------------------------------------
(* Stores.                                                                 *)

EmptyStore ==
    [arena |-> EmptyArena, entries |-> <<>>, blocks |-> 0, index |-> NoIndex,
     finalized |-> FALSE, max |-> EntryMax, over |-> FALSE]

\* resource_limit_exceeded()
Refused(s) == s.over \/ s.arena.over

Row(a, e) == [key |-> ViewKey(a, e.key), block |-> e.block, order |-> e.order,
              deleted |-> "Deleted" \in e.flags]
Rows(s) == [i \in 1..Len(s.entries) |-> Row(s.arena, s.entries[i])]

View(a, e) ==
    [key |-> ViewKey(a, e.key), value |-> ViewValue(a, e.value),
     block |-> e.block, order |-> e.order, wire |-> e.wire,
     wireName |-> SpanBytes(a, e.wireName), flags |-> e.flags]

\* clear_indices() with the flag that add_block() and add_entry() test.
Unfinalized(s) == [s EXCEPT !.index = NoIndex, !.finalized = FALSE]

Finalized(s) ==
    [s EXCEPT !.index = BuildIndex(Rows(s), s.blocks), !.finalized = TRUE]

Flagged(s) == [s EXCEPT !.over = TRUE]

\* add_entry()
StoreAdd(s, e) ==
    IF s.finalized THEN s
    ELSE IF Len(s.entries) >= s.max \/ s.arena.over THEN Flagged(s)
    ELSE [s EXCEPT !.entries = Append(s.entries, e)]

\* add_block()
StoreAddBlock(s) ==
    IF s.finalized THEN s
    ELSE IF s.blocks >= s.max \/ s.arena.over THEN Flagged(s)
    ELSE [s EXCEPT !.blocks = s.blocks + 1]

\* constrain_resources()
StoreConstrain(s, entries, bytes) ==
    LET max == LowerCeiling(s.max, entries)
    IN  [s EXCEPT !.max = max, !.arena = ArenaConstrain(s.arena, bytes),
                  !.over = s.over \/ Len(s.entries) > max \/ s.blocks > max]

\* reserve(): ignored after finalization.
StoreReserve(s, blocks, entries, bytes) ==
    IF s.finalized THEN s
    ELSE IF blocks > s.max \/ entries > s.max THEN Flagged(s)
    ELSE [s EXCEPT !.arena = ArenaReserve(s.arena, bytes)]

\* What a decoder or an editor does to materialise an entry in an arena: the
\* key's texts, the value's payload, the name of the wire type, in that order.
Materialise(a, view) ==
    LET k == MakeKey(a, view.key)
        v == MakeValue(k.arena, view.value)
        w == PutText(v.arena, view.wireName # <<>>, view.wireName)
    IN  [arena |-> w.arena,
         entry |-> [key |-> k.key, value |-> v.value, block |-> view.block,
                    order |-> view.order, wire |-> view.wire,
                    wireName |-> w.span, flags |-> view.flags]]

-----------------------------------------------------------------------------
(* Copying between arenas (copy_span, copy_key, copy_value, copy_origin).   *)

\* copy_span(): fails on a span that leaves its arena and on a refusal.
CopySpan(src, dst, s) ==
    LET r == Append_(dst, SpanBytes(src, s))
    IN  IF InArena(src, s)
        THEN [arena |-> r.arena, span |-> r.span,
              ok |-> r.span.size = s.size /\ ~r.arena.over]
        ELSE [arena |-> dst, span |-> EmptySpan, ok |-> FALSE]

\* A text that the key or value does not have is not copied.
NoCopy(dst, s) == [arena |-> dst, span |-> s, ok |-> TRUE]

\* copy_key(): the second text only when the first was copied.
CopyKey_FirstOnly(src, dst, k) ==                                \* mutant
    LET c1 == IF TextCount(k.kind) >= 1 THEN CopySpan(src, dst, k.first)
                                        ELSE NoCopy(dst, k.first)
    IN  [arena |-> c1.arena, key |-> [k EXCEPT !.first = c1.span], ok |-> c1.ok]

CopyKey(src, dst, k) ==
    LET c1 == IF TextCount(k.kind) >= 1 THEN CopySpan(src, dst, k.first)
                                        ELSE NoCopy(dst, k.first)
        c2 == IF c1.ok /\ TextCount(k.kind) = 2
              THEN CopySpan(src, c1.arena, k.second) ELSE NoCopy(c1.arena, k.second)
    IN  [arena |-> c2.arena, ok |-> c1.ok /\ c2.ok,
         key |-> [k EXCEPT !.first = c1.span, !.second = c2.span]]

CopyValue(src, dst, v) ==
    LET c == IF v.kind \in SpanKinds THEN CopySpan(src, dst, v.span)
                                     ELSE NoCopy(dst, v.span)
    IN  [arena |-> c.arena, ok |-> c.ok, value |-> [v EXCEPT !.span = c.span]]

CopyOrigin(src, dst, name) ==
    IF name.size = 0 THEN NoCopy(dst, EmptySpan) ELSE CopySpan(src, dst, name)

\* copy_key, copy_value, copy_origin: the first that fails ends the copy.
CopyEntry(src, dst, e) ==
    LET k == CopyKey(src, dst, e.key)
        v == IF k.ok THEN CopyValue(src, k.arena, e.value) ELSE [ok |-> FALSE]
        w == IF v.ok THEN CopyOrigin(src, v.arena, e.wireName) ELSE [ok |-> FALSE]
    IN  IF w.ok
        THEN [ok |-> TRUE, arena |-> w.arena,
              entry |-> [e EXCEPT !.key = k.key, !.value = v.value,
                                  !.wireName = w.span]]
        ELSE [ok |-> FALSE]

-----------------------------------------------------------------------------
(* One edit operation on the local copy of commit(): the copy after it, or  *)
(* Failed.                                                                  *)

Failed == [failed |-> TRUE]
IsFailed(r) == r = Failed

ApplyAdd_NoCeiling(s, arena, op) ==                              \* mutant
    LET c == CopyEntry(arena, s.arena, op.entry)
    IN  IF ~c.ok THEN Failed
        ELSE [s EXCEPT !.entries = Append(s.entries, c.entry), !.arena = c.arena]

ApplyAdd(s, arena, op) ==
    LET c == CopyEntry(arena, s.arena, op.entry)
    IN  IF Len(s.entries) >= s.max \/ ~c.ok THEN Failed
        ELSE [s EXCEPT !.entries = Append(s.entries, c.entry), !.arena = c.arena]

ApplySet_KeepsByteOrder(s, arena, op) ==                         \* mutant
    LET c == CopyValue(arena, s.arena, op.value)
        e == s.entries[op.target + 1]
        updated ==
            IF op.kind = "SetValue"
            THEN [e EXCEPT !.value = c.value, !.flags = e.flags \cup {"Dirty"}]
            ELSE [e EXCEPT !.value = c.value, !.wire = op.wire, !.wireName = EmptySpan,
                           !.flags = e.flags \cup {"Dirty"}]
    IN  IF op.target >= Len(s.entries) THEN s
        ELSE IF ~c.ok THEN Failed
        ELSE [s EXCEPT !.arena = c.arena, !.entries[op.target + 1] = updated]

\* SetValue and SetValueWithWire: a target that does not exist is skipped.
ApplySet(s, arena, op) ==
    LET c == CopyValue(arena, s.arena, op.value)
        e == s.entries[op.target + 1]
        updated ==
            IF op.kind = "SetValue"
            THEN [e EXCEPT !.value = c.value, !.flags = e.flags \cup {"Dirty"}]
            ELSE [e EXCEPT !.value = c.value, !.wire = op.wire, !.wireName = EmptySpan,
                           !.flags = (e.flags \cup {"Dirty"}) \ {"BigEndian"}]
    IN  IF op.target >= Len(s.entries) THEN s
        ELSE IF ~c.ok THEN Failed
        ELSE [s EXCEPT !.arena = c.arena, !.entries[op.target + 1] = updated]

ApplyTombstone(s, op) ==
    IF op.target >= Len(s.entries) THEN s
    ELSE [s EXCEPT !.entries[op.target + 1].flags = @ \cup {"Deleted", "Dirty"}]

ApplyOp(s, arena, op) ==
    CASE op.kind = "AddEntry" -> ApplyAdd(s, arena, op)
      [] op.kind \in {"SetValue", "SetValueWithWire"} -> ApplySet(s, arena, op)
      [] op.kind = "Tombstone" -> ApplyTombstone(s, op)
-----------------------------------------------------------------------------
Init ==
    /\ store = EmptyStore
    /\ edits = [b \in 1..Buffers |-> EmptyEdit]
    /\ job = NoJob
    /\ returned = NoStore

Idle == job = NoJob /\ returned = NoStore

\* What changes the store alone.
OnStore(s) == Idle /\ store' = s /\ UNCHANGED <<edits, job, returned>>

AddBlock == store.blocks < MaxBlocks /\ OnStore(StoreAddBlock(store))

\* A decoder materialises an entry in the store's own arena and adds it.  (On a
\* finalized store the payload alone would stay: AppendPayload, AddSharing.)
AddEntry ==
    /\ Len(store.entries) < MaxEntries
    /\ ~store.finalized
    /\ \E view \in Requests :
          LET m == Materialise(store.arena, view)
          IN  OnStore(StoreAdd([store EXCEPT !.arena = m.arena], m.entry))

\* A decoder adds an entry that shares the spans of one it added before.
AddSharing ==
    /\ Len(store.entries) < MaxEntries
    /\ \E i \in 1..Len(store.entries) : OnStore(StoreAdd(store, store.entries[i]))

\* The arena stays writable: payloads are appended without an entry, also
\* after finalization, when add_entry() already refuses.
AppendPayload ==
    \E view \in NewValues :
        LET v == MakeValue(store.arena, view)
        IN  OnStore([store EXCEPT !.arena = v.arena])

Constrain ==
    \E n \in EntryCeilings, m \in ArenaCeilings : OnStore(StoreConstrain(store, n, m))

Reserve ==
    \E b, e \in EntryCeilings, m \in ArenaCeilings : OnStore(StoreReserve(store, b, e, m))

\* finalize() and rehash() do the same to a store of any state.
Finalize == OnStore(Finalized(store))

-----------------------------------------------------------------------------
(* Worker threads record operations, each in the buffer it owns.  MetaEdit   *)
(* takes them at any time; a rule of the host's, kept by the callers in the   *)
(* library, is that the base is finalized and "read-only" by then.           *)

OpCount == LET count[b \in 0..Buffers] ==
                   IF b = 0 THEN 0 ELSE count[b - 1] + Len(edits[b].ops)
           IN  count[Buffers]

Record(b, arena, op) ==
    /\ Idle /\ store.finalized /\ OpCount < MaxOps
    /\ edits' = [edits EXCEPT ![b] = [arena |-> arena, ops |-> Append(@.ops, op)]]
    /\ UNCHANGED <<store, job, returned>>

EditAdd(b) ==
    \E view \in Requests :
        LET m == Materialise(edits[b].arena, view)
        IN  Record(b, m.arena, [kind |-> "AddEntry", entry |-> m.entry])

EditSet(b) ==
    \E target \in Targets, view \in NewValues :
        LET v == MakeValue(edits[b].arena, view)
        IN  Record(b, v.arena,
                   [kind |-> "SetValue", target |-> target, value |-> v.value])

EditSetWire(b) ==
    \E target \in Targets, view \in NewValues, wire \in NewWires :
        LET v == MakeValue(edits[b].arena, view)
        IN  Record(b, v.arena, [kind |-> "SetValueWithWire", target |-> target,
                                value |-> v.value, wire |-> wire])

EditTombstone(b) ==
    \E target \in Targets :
        Record(b, edits[b].arena, [kind |-> "Tombstone", target |-> target])

\* An editor gives the arena of its buffer a budget.
EditConstrain(b) ==
    /\ Idle
    /\ \E n \in EditCeilings :
          edits' = [edits EXCEPT ![b].arena = ArenaConstrain(@, n)]
    /\ UNCHANGED <<store, job, returned>>

\* The buffers are dropped, with what they hold.
DropEdits ==
    /\ Idle
    /\ edits' = [b \in 1..Buffers |-> EmptyEdit]
    /\ UNCHANGED <<store, job, returned>>

-----------------------------------------------------------------------------
(* commit()                                                                 *)

\* The call ends: it returns s and its local copy is gone.
Return(s) ==
    /\ job' = NoJob
    /\ returned' = s
    /\ UNCHANGED <<store, edits>>

StartCommit ==
    /\ job' = [kind |-> "commit", out |-> Unfinalized(store), edit |-> 1, op |-> 1]
    /\ UNCHANGED <<store, edits, returned>>

CommitBegin_IgnoresFlaggedEdits ==                               \* mutant
    Idle /\ IF Refused(store) THEN Return(Flagged(store)) ELSE StartCommit

CommitBegin ==
    /\ Idle
    /\ IF Refused(store) \/ \E b \in 1..Buffers : edits[b].arena.over
       THEN Return(Flagged(store))
       ELSE StartCommit

CommitOp_ReturnsPartial ==                                       \* mutant
    /\ job.kind = "commit"
    /\ job.edit <= Buffers /\ job.op <= Len(edits[job.edit].ops)
    /\ LET out == ApplyOp(job.out, edits[job.edit].arena, edits[job.edit].ops[job.op])
       IN  IF IsFailed(out)
           THEN Return(Flagged(job.out))
           ELSE /\ job' = [job EXCEPT !.out = out, !.op = @ + 1]
                /\ UNCHANGED <<store, edits, returned>>

CommitOp ==
    /\ job.kind = "commit"
    /\ job.edit <= Buffers /\ job.op <= Len(edits[job.edit].ops)
    /\ LET out == ApplyOp(job.out, edits[job.edit].arena, edits[job.edit].ops[job.op])
       IN  IF IsFailed(out)
           THEN Return(Flagged(store))
           ELSE /\ job' = [job EXCEPT !.out = out, !.op = @ + 1]
                /\ UNCHANGED <<store, edits, returned>>

CommitNextEdit ==
    /\ job.kind = "commit"
    /\ job.edit <= Buffers /\ job.op > Len(edits[job.edit].ops)
    /\ job' = [job EXCEPT !.edit = @ + 1, !.op = 1]
    /\ UNCHANGED <<store, edits, returned>>

Finish_OldIndices(out) ==                                        \* mutant
    Return(IF Refused(out) THEN Flagged(store)
           ELSE [out EXCEPT !.index = store.index, !.finalized = store.finalized])

Finish(out) == Return(IF Refused(out) THEN Flagged(store) ELSE Finalized(out))

CommitEnd ==
    /\ job.kind = "commit" /\ job.edit > Buffers
    /\ Finish(job.out)

-----------------------------------------------------------------------------
(* compact()                                                                *)

StartCompact ==
    /\ job' = [kind |-> "compact", next |-> 0,
               out |-> [Unfinalized(store) EXCEPT
                           !.entries = <<>>, !.arena = ArenaClear(store.arena)]]
    /\ UNCHANGED <<store, edits, returned>>

CompactBegin_IgnoresRefusal == Idle /\ StartCompact              \* mutant

CompactBegin ==
    Idle /\ IF Refused(store) THEN Return(Flagged(store)) ELSE StartCompact

CompactEntry ==
    /\ job.kind = "compact" /\ job.next < Len(store.entries)
    /\ LET e == store.entries[job.next + 1]
           c == CopyEntry(store.arena, job.out.arena, e)
       IN  IF "Deleted" \in e.flags
           THEN /\ job' = [job EXCEPT !.next = @ + 1]
                /\ UNCHANGED <<store, edits, returned>>
           ELSE IF ~c.ok
           THEN Return(Flagged(store))
           ELSE /\ job' = [job EXCEPT
                              !.next = @ + 1, !.out.arena = c.arena,
                              !.out.entries = Append(@, c.entry)]
                /\ UNCHANGED <<store, edits, returned>>

CompactEnd ==
    /\ job.kind = "compact" /\ job.next >= Len(store.entries)
    /\ Finish(job.out)

-----------------------------------------------------------------------------
(* The host looks at resource_limit_exceeded() before it adopts a snapshot; *)
(* it may also adopt a refused one, which is the old store with the flag.   *)

Adopt ==
    /\ returned # NoStore
    /\ store' = returned /\ returned' = NoStore
    /\ UNCHANGED <<edits, job>>

Drop ==
    /\ returned # NoStore /\ Refused(returned)
    /\ returned' = NoStore
    /\ UNCHANGED <<store, edits, job>>

Build == AddBlock \/ AddEntry \/ AddSharing \/ AppendPayload \/ Constrain \/ Reserve
         \/ Finalize
RecordEdit == \E b \in 1..Buffers : EditAdd(b) \/ EditSet(b) \/ EditSetWire(b)
                                     \/ EditTombstone(b) \/ EditConstrain(b)
Commit == CommitBegin \/ CommitOp \/ CommitNextEdit \/ CommitEnd
Compact == CompactBegin \/ CompactEntry \/ CompactEnd

Next == Build \/ RecordEdit \/ DropEdits \/ Commit \/ Compact \/ Adopt \/ Drop

Spec == Init /\ [][Next]_vars

-----------------------------------------------------------------------------
\* Type of a store but for its index, whose shape IndexFresh fixes.
StoreOK(s) ==
    /\ DOMAIN s = {"arena", "entries", "blocks", "index", "finalized", "max", "over"}
    /\ s.arena \in Arena /\ s.entries \in Seq(Entry)
    /\ s.blocks \in Nat /\ s.max \in Nat
    /\ s.finalized \in BOOLEAN /\ s.over \in BOOLEAN

EditOp ==
    [kind : {"AddEntry"}, entry : Entry]
      \cup [kind : {"SetValue"}, target : Nat, value : Value]
      \cup [kind : {"SetValueWithWire"}, target : Nat, value : Value, wire : Nat]
      \cup [kind : {"Tombstone"}, target : Nat]

TypeOK ==
    /\ StoreOK(store)
    /\ edits \in [1..Buffers -> [arena : Arena, ops : Seq(EditOp)]]
    /\ returned # NoStore => StoreOK(returned)
    /\ \/ job = NoJob
       \/ /\ job.kind = "commit" /\ StoreOK(job.out)
          /\ job.edit \in 1..Buffers + 1 /\ job.op \in Nat \ {0}
       \/ /\ job.kind = "compact" /\ StoreOK(job.out)
          /\ job.next \in 0..Len(store.entries)

\* The stores there are: the host's, the local copy, the returned one.
Stores == {store} \cup (IF returned = NoStore THEN {} ELSE {returned})
                  \cup (IF job = NoJob THEN {} ELSE {job.out})

\* Every span of every entry lies inside the arena of the store that holds the
\* entry: after commit() and compact() nothing refers to the old arena or to
\* the arena of an edit buffer (copy_span, clear() in compact).
Resolves(a, e) ==
    /\ InArena(a, e.key.first) /\ InArena(a, e.key.second)
    /\ InArena(a, e.wireName) /\ InArena(a, e.value.span)

SpansResolve ==
    \A s \in Stores : \A i \in 1..Len(s.entries) : Resolves(s.arena, s.entries[i])

\* The cumulative ceilings hold in every store, or the store says that
\* something was refused (constrain_resources, resource_limit_exceeded).
Within(s) ==
    \/ Refused(s)
    \/ /\ Len(s.entries) <= s.max /\ s.blocks <= s.max
       /\ ArenaSize(s.arena) <= s.arena.max

CeilingsHold == \A s \in Stores : Within(s)

\* The indices of a finalized store are those that finalize() would build from
\* what the store holds now, although its arena may have grown since.
Fresh(s) == s.finalized => s.index = BuildIndex(Rows(s), s.blocks)

IndexFresh == \A s \in Stores : Fresh(s)

\* find_all() and entries_in_block() give exactly the live entries asked for,
\* in id order and in block order ("all matching entries, duplicates
\* preserved", "excluding tombstones").
LookupsExact ==
    \A s \in Stores : s.finalized =>
        /\ \A view \in {r.key : r \in Requests} : FindAllExact(Rows(s), s.index, view)
        /\ \A b \in 0..s.blocks - 1 : EntriesInBlockExact(Rows(s), s.index, b)

\* What commit() and compact() return is either complete, finalized and within
\* its ceilings, or the unchanged base with the flag up ("returns the unchanged
\* base with resource_limit_exceeded() set").
AllOrNothing ==
    returned # NoStore =>
        IF Refused(returned) THEN returned = Flagged(store) ELSE returned.finalized

\* A store never forgets a refusal, and its ceilings only tighten: not by a
\* later call, and not by being copied through commit() or compact(), which
\* clears an arena together with the arena's flag.
Tightens(s, t) ==
    /\ Refused(s) => Refused(t)
    /\ t.max <= s.max /\ t.arena.max <= s.arena.max

RefusalSticks == [][Tightens(store, store')]_vars
=============================================================================
