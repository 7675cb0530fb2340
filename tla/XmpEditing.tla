------------------------------ MODULE XmpEditing ------------------------------
(***************************************************************************)
(* edit_metadata_xmp() (openmeta/metadata_xmp_editing.cc): whole structures *)
(* and array items.  A request is turned into operations by exact key,      *)
(* which edit_metadata_typed() then carries out.  An operation is [kind,    *)
(* scope, entries], an entry [key, value, wire].                            *)
(*                                                                         *)
(* The call keeps a list, state, of the entries that the roots it names     *)
(* will have, and never looks at the store again.                           *)
(***************************************************************************)
EXTENDS TypedEditing

CONSTANTS MaxXmpOperations,     \* options.max_operations
          MaxScopeEntries,      \* options.max_scope_entries
          MaxExpanded           \* least of max_expanded_operations, typed.max_operations

ASSUME XmpEditingAssumption == {MaxXmpOperations, MaxScopeEntries, MaxExpanded} \subseteq Nat

XmpRefusal(s, ops) ==
    IF ~s.sealed THEN "BaseNotFinalized"
    ELSE IF Len(s.entries) > MaxEntries \/ s.refused THEN "LimitExceeded"
    ELSE IF Len(ops) > MaxXmpOperations THEN "TooManyOperations" ELSE "Ok"

Ok == [status |-> "Ok", at |-> 0]
Bad(status, at) == [status |-> status, at |-> at]

\* The refusal at the first place where there is one.
FirstBad(n, status(_), at(_)) ==
    LET bad == {i \in 1..n : status(i) # "Ok"}
    IN  IF bad = {} THEN Ok ELSE Bad(status(Min(bad)), at(Min(bad)))

-----------------------------------------------------------------------------
(* Before the first operation: every scope, then every entry of the roots.  *)

Roots(ops, n) == {ops[i].scope.root : i \in 1..n}
FirstOf(ops, root) == Min({i \in 1..Len(ops) : ops[i].scope.root = root})
LastOf(ops, root) == Max({i \in 1..Len(ops) : ops[i].scope.root = root})

ScopeStatus(ops, i) ==
    IF ~ScopeOK(ops[i].scope) THEN "InvalidScope"
    ELSE IF ops[i].kind # "Remove" /\ ops[i].entries = <<>> THEN "EmptyEntries"
    ELSE IF ops[i].kind = "Remove" /\ ops[i].entries # <<>> THEN "UnexpectedEntries"
    ELSE IF Cardinality(Roots(ops, i)) > MaxScopeEntries THEN "LimitExceeded" ELSE "Ok"

ScopesVerdict(ops) == FirstBad(Len(ops), LAMBDA i : ScopeStatus(ops, i), LAMBDA i : i)

Selected_WithTombstones(s, ops) ==                               \* mutant
    Picked(s.entries, {n \in 1..Len(s.entries) :
                          s.entries[n].key.root \in Roots(ops, Len(ops))})

\* The live entries of the roots that the request names.
Selected(s, ops) ==
    Picked(s.entries, {n \in 1..Len(s.entries) :
                          /\ ~Deleted(s.entries[n])
                          /\ s.entries[n].key.root \in Roots(ops, Len(ops))})

\* base_text_is_valid(), xmp_container_entry_shape_is_valid()
Trackable(e) ==
    /\ Canonical(e.key) /\ e.value \notin BadValues /\ "Truncated" \notin e.flags
    /\ e.value = Void <=> e.wire = Form
    /\ e.wire = Form => e.key.root \in Customs

SelectedVerdict(ops, found) ==
    FirstBad(Len(found),
             LAMBDA n : IF ~Trackable(found[n]) THEN "UnsupportedSelectedEntry"
                        ELSE IF n > MaxScopeEntries THEN "LimitExceeded" ELSE "Ok",
             LAMBDA n : FirstOf(ops, found[n].key.root))

PairStatus(a, b) ==
    IF a.key = b.key THEN "DuplicateEntry"
    ELSE IF Collide(a.key, b.key) THEN "ShapeCollision" ELSE "Ok"

PairsVerdict(ops, found) ==
    LET bad == {p \in (1..Len(found)) \X (1..Len(found)) :
                   p[1] < p[2] /\ PairStatus(found[p[1]], found[p[2]]) # "Ok"}
        first == CHOOSE p \in bad : \A q \in bad : p[1] < q[1] \/ (p[1] = q[1] /\ p[2] <= q[2])
    IN  IF bad = {} THEN Ok
        ELSE Bad(PairStatus(found[first[1]], found[first[2]]),
                 FirstOf(ops, found[first[1]].key.root))

StartVerdict(s, ops) ==
    IF ScopesVerdict(ops) # Ok THEN ScopesVerdict(ops)
    ELSE IF SelectedVerdict(ops, Selected(s, ops)) # Ok
    THEN SelectedVerdict(ops, Selected(s, ops)) ELSE PairsVerdict(ops, Selected(s, ops))

XmpStart(s, ops) ==
    [stage |-> "xmp", ops |-> ops, next |-> 1, input |-> 0,
     state |-> [n \in 1..Len(Selected(s, ops)) |->
                   [key |-> Selected(s, ops)[n].key, wire |-> Selected(s, ops)[n].wire]],
     expanded |-> <<>>, owner |-> <<>>]

-----------------------------------------------------------------------------
(* One operation.                                                           *)

EntryStatus(op, n) ==
    LET e == op.entries[n]
        earlier == {m \in 1..n - 1 : PairStatus(op.entries[m], e) # "Ok"}
    IN  IF \/ op.scope.root \notin Customs /\ e.wire # "none"
           \/ (e.value = Void) # (e.wire = Form)
        THEN "InvalidEntry"
        ELSE IF ~Canonical(e.key) THEN "UnsupportedPath"
        ELSE IF ~InScope(op.scope, e.key) \/ e.value \in BadValues THEN "InvalidEntry"
        ELSE IF earlier # {} THEN PairStatus(op.entries[Min(earlier)], e) ELSE "Ok"

EntriesStatus(c, op) ==
    IF c.input + Len(op.entries) > MaxScopeEntries THEN "LimitExceeded"
    ELSE FirstBad(Len(op.entries), LAMBDA n : EntryStatus(op, n), LAMBDA n : n).status

SelectionStatus(c, op) ==
    LET some == \E n \in 1..Len(c.state) : InScope(op.scope, c.state[n].key)
    IN  IF op.kind = "Add" /\ some THEN "ScopeAlreadyExists"
        ELSE IF op.kind # "Add" /\ ~some THEN "ScopeNotFound" ELSE "Ok"

\* What stays of the root outside the scope must go with what is proposed.
BesideStatus(c, op) ==
    FirstBad(Len(c.state),
        LAMBDA m : IF InScope(op.scope, c.state[m].key) THEN "Ok"
                   ELSE FirstBad(Len(op.entries),
                                 LAMBDA n : PairStatus(c.state[m], op.entries[n]),
                                 LAMBDA n : n).status,
        LAMBDA m : m).status

-----------------------------------------------------------------------------
(* The operations by exact key that stand for one operation.                *)

Exact(kind, e) == [kind |-> kind, key |-> e.key, value |-> e.value, wire |-> e.wire,
                   occurrence |-> Unique]
Removal(key) == Exact("Remove", [key |-> key, value |-> Void, wire |-> "none"])

Proposed(op, key) == {n \in 1..Len(op.entries) : op.entries[n].key = key}

\* Text entries of standard roots keep the wire type they were decoded with.
Replacement(op, old) ==
    LET e == op.entries[Min(Proposed(op, old.key))]
    IN  IF op.scope.root \in Customs THEN e ELSE [e EXCEPT !.wire = old.wire]

Touched(c, op) ==
    Picked(c.state, {n \in 1..Len(c.state) : InScope(op.scope, c.state[n].key)})
Fresh(c, op) ==
    Picked(op.entries, {i \in 1..Len(op.entries) :
                           \A n \in 1..Len(c.state) : c.state[n].key # op.entries[i].key})

Additions(es) == [n \in 1..Len(es) |-> Exact("Add", es[n])]

Expansion(c, op) ==
    LET old == Touched(c, op)
    IN  [n \in 1..Len(old) |->
            IF op.kind = "Replace" /\ Proposed(op, old[n].key) # {}
            THEN Exact("Set", Replacement(op, old[n])) ELSE Removal(old[n].key)]
          \o Additions(Fresh(c, op))

StateAfter_KeepsRemoved(c, op) ==                                \* mutant
    c.state \o [n \in 1..Len(Fresh(c, op)) |->
                   [key |-> Fresh(c, op)[n].key, wire |-> Fresh(c, op)[n].wire]]

\* compact_state() and what is added to it.
StateAfter(c, op) ==
    LET kept == Picked(c.state, {n \in 1..Len(c.state) :
                                    \/ ~InScope(op.scope, c.state[n].key)
                                    \/ Proposed(op, c.state[n].key) # {}})
    IN  [n \in 1..Len(kept) |->
            IF InScope(op.scope, kept[n].key)
            THEN [key |-> kept[n].key, wire |-> Replacement(op, kept[n]).wire] ELSE kept[n]]
          \o [n \in 1..Len(Fresh(c, op)) |->
                 [key |-> Fresh(c, op)[n].key, wire |-> Fresh(c, op)[n].wire]]

RoomStatus(c, op) ==
    IF \/ Len(c.expanded) + Len(Expansion(c, op)) > MaxExpanded
       \/ Fresh(c, op) # <<>> /\ Len(StateAfter(c, op)) > MaxScopeEntries
    THEN "LimitExceeded" ELSE "Ok"

XmpStatus(c, op) ==
    LET statuses == << EntriesStatus(c, op), SelectionStatus(c, op),
                       BesideStatus(c, op), RoomStatus(c, op) >>
    IN  FirstBad(4, LAMBDA i : statuses[i], LAMBDA i : i).status

XmpStep(c, op) ==
    [c EXCEPT !.expanded = @ \o Expansion(c, op),
              !.owner = @ \o [n \in 1..Len(Expansion(c, op)) |-> c.next],
              !.state = StateAfter(c, op),
              !.input = @ + Len(op.entries), !.next = @ + 1]

-----------------------------------------------------------------------------
Declared_AnyWire(c, root) ==                                     \* mutant
    \E n \in 1..Len(c.state) : c.state[n].key = Key(root, 0, NoLeaf)

\* After the last operation: a custom root with entries has its declaration.
Declared(c, root) ==
    \E n \in 1..Len(c.state) : c.state[n] = [key |-> Key(root, 0, NoLeaf), wire |-> Form]

Undeclared(c) ==
    {root \in Customs \cap Roots(c.ops, Len(c.ops)) :
        (\E n \in 1..Len(c.state) : c.state[n].key.root = root) /\ ~Declared(c, root)}

\* The groups are in the order in which the request first names their roots.
EndVerdict(c) ==
    IF Undeclared(c) = {} THEN Ok
    ELSE LET first == CHOOSE r \in Undeclared(c) :
                          \A q \in Undeclared(c) : FirstOf(c.ops, r) <= FirstOf(c.ops, q)
         IN  Bad("ShapeCollision", LastOf(c.ops, first))
=============================================================================
