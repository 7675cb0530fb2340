----------------------------- MODULE TypedEditing -----------------------------
(***************************************************************************)
(* edit_metadata_typed() (openmeta/metadata_authoring.cc): entries by exact *)
(* key.  An operation is [kind, key, value, wire, occurrence].              *)
(***************************************************************************)
EXTENDS EditingStore

TypedRefusal(s, ops, max) ==
    IF ~s.sealed THEN "BaseNotFinalized"
    ELSE IF Len(ops) > max THEN "TooManyOperations"
    ELSE IF Len(s.entries) > MaxEntries \/ s.refused THEN "LimitExceeded" ELSE "Ok"

\* The operations that the first loop refuses: key_is_valid() is taken to hold.
InvalidOp(op) ==
    /\ op.kind # "Remove"
    /\ \/ op.value \in BadValues
       \/ op.wire = Form /\ op.key.root \notin Native /\ op.value # Void

\* find_all(): the live entries with this key, in id order.
FindAll(s, key) == InIdOrder(Ids(s, LAMBDA e : e.key = key /\ ~Deleted(e)))

\* owner[i] is the operation that answers for the i-th; last_writer starts
\* with no operation for the entries of the base.
TypedStart(s, ops, owner, max, policy) ==
    [stage |-> "typed", ops |-> ops, owner |-> owner, max |-> max, policy |-> policy,
     next |-> 1, active |-> [k \in {ops[i].key : i \in 1..Len(ops)} |-> FindAll(s, k)],
     writers |-> [id \in 1..Len(s.entries) |-> 0], edits |-> <<>>,
     counts |-> [added |-> 0, updated |-> 0, removed |-> 0]]

AddError(c, op) ==
    IF op.occurrence # Unique THEN "InvalidOccurrence"
    ELSE IF c.active[op.key] # <<>> /\ c.policy = "FailIfPresent" THEN "TargetAlreadyExists"
    ELSE IF Len(c.edits) >= c.max \/ Len(c.writers) >= MaxEntries THEN "LimitExceeded"
    ELSE "Ok"

Needed(c, op) ==
    IF op.kind = "Remove" /\ op.occurrence = All THEN Len(c.active[op.key]) ELSE 1

TargetError(c, op) ==
    LET n == Len(c.active[op.key])
    IN  IF op.occurrence = All /\ op.kind # "Remove" THEN "InvalidOccurrence"
        ELSE IF n = 0 THEN "TargetNotFound"
        ELSE IF op.occurrence = Unique /\ n # 1 THEN "AmbiguousTarget"
        ELSE IF op.occurrence \notin {All, Unique} /\ op.occurrence >= n
             THEN "InvalidOccurrence"
        ELSE IF Needed(c, op) > c.max - Len(c.edits) THEN "LimitExceeded" ELSE "Ok"

TypedError(c, op) == IF op.kind = "Add" THEN AddError(c, op) ELSE TargetError(c, op)

Position(op) == IF op.occurrence = Unique THEN 1 ELSE op.occurrence + 1

TypedAdd(c, op) ==
    [c EXCEPT !.edits = Append(@, AddEntry(NewEntry(op.key, op.value, op.wire, NoBlock,
                                                    Len(c.writers)))),
              !.active[op.key] = Append(@, Len(c.writers)),
              !.writers = Append(@, c.next), !.counts.added = @ + 1]

TypedSet_KeepsWire(c, op) ==                                     \* mutant
    LET id == c.active[op.key][Position(op)]
    IN  [c EXCEPT !.edits = Append(@, SetValue(id, op.value)),
                  !.writers[id + 1] = c.next, !.counts.updated = @ + 1]

TypedSet(c, op) ==
    LET id == c.active[op.key][Position(op)]
    IN  [c EXCEPT !.edits = Append(@, SetValueWithWire(id, op.value, op.wire)),
                  !.writers[id + 1] = c.next, !.counts.updated = @ + 1]

TypedRemove_KeepsActive(c, op) ==                                \* mutant
    LET all  == op.occurrence = All
        gone == IF all THEN c.active[op.key] ELSE <<c.active[op.key][Position(op)]>>
    IN  [c EXCEPT !.edits = @ \o [i \in 1..Len(gone) |-> Tombstone(gone[i])],
                  !.active[op.key] = IF all THEN <<>> ELSE @,
                  !.writers = [n \in DOMAIN @ |-> IF n - 1 \in ToSet(gone) THEN c.next ELSE @[n]],
                  !.counts.removed = @ + Len(gone)]

TypedRemove(c, op) ==
    LET all  == op.occurrence = All
        gone == IF all THEN c.active[op.key] ELSE <<c.active[op.key][Position(op)]>>
    IN  [c EXCEPT !.edits = @ \o [i \in 1..Len(gone) |-> Tombstone(gone[i])],
                  !.active[op.key] = IF all THEN <<>> ELSE RemoveAt(@, Position(op)),
                  !.writers = [n \in DOMAIN @ |-> IF n - 1 \in ToSet(gone) THEN c.next ELSE @[n]],
                  !.counts.removed = @ + Len(gone)]

TypedDone(c, op) ==
    CASE op.kind = "Add" -> TypedAdd(c, op)
      [] op.kind = "Set" -> TypedSet(c, op)
      [] op.kind = "Remove" -> TypedRemove(c, op)

TypedStep(c) == [TypedDone(c, c.ops[c.next]) EXCEPT !.next = @ + 1]
=============================================================================
