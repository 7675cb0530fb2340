---------------------------- MODULE LogicalEditing ----------------------------
(***************************************************************************)
(* edit_metadata() (openmeta/metadata_editing.cc): fields by name, whose    *)
(* entries are found once before the first operation.  Later operations go  *)
(* by that list, kept up to date with the ids that entries added in the     *)
(* same request will get.  An operation is [kind, field, value, occurrence].*)
(***************************************************************************)
EXTENDS EditingStore

LogicalRefusal(s, ops) ==
    IF ~s.sealed THEN "BaseNotFinalized"
    ELSE IF s.refused THEN "ResourceLimitExceeded"
    ELSE IF Len(ops) > MaxOperations THEN "TooManyOperations" ELSE "Ok"

\* collect_logical_entries(): live entries by field, in id order.
Active(s) ==
    [f \in Fields |-> InIdOrder(Ids(s, LAMBDA e : OfField(f, e.key) /\ ~Deleted(e)))]

Top_LiveOnly(s) ==                                               \* mutant
    [f \in Repeated |->
        Max({0} \cup {s.entries[id + 1].key.item :
                         id \in Ids(s, LAMBDA e : OfField(f, e.key) /\ ~Deleted(e))})]

\* ... and the highest index in use, tombstones included.
Top(s) ==
    [f \in Repeated |->
        Max({0} \cup {s.entries[id + 1].key.item : id \in Ids(s, LAMBDA e : OfField(f, e.key))})]

\* select_addition_origin(): the block of the first live XMP entry, and an
\* order after those of the live XMP entries of that block.
Carriers(s) ==
    Ids(s, LAMBDA e : ~Deleted(e) /\ e.key.root \notin Native /\ e.block < s.blocks)

OriginBlock(s) ==
    IF Carriers(s) = {} THEN NoBlock ELSE s.entries[Min(Carriers(s)) + 1].block

OriginOrder_FirstEntry(s) ==                                     \* mutant
    IF Carriers(s) = {} THEN 0
    ELSE Saturated(s.entries[Min(Carriers(s)) + 1].order + 1, OrderMax)

OriginOrder(s) ==
    IF Carriers(s) = {} THEN 0
    ELSE Saturated(1 + Max({s.entries[id + 1].order :
             id \in {c \in Carriers(s) : s.entries[c + 1].block = OriginBlock(s)}}), OrderMax)

NoCounts == [added |-> 0, updated |-> 0, removed |-> 0]

LogicalStart(s, ops) ==
    [stage |-> "logical", ops |-> ops, next |-> 1, active |-> Active(s), top |-> Top(s),
     block |-> OriginBlock(s), order |-> OriginOrder(s), edits |-> <<>>, counts |-> NoCounts]

-----------------------------------------------------------------------------
(* Why an operation may be refused.  (The limits on text bytes are in the    *)
(* action that calls these.)                                                *)

\* validate_value_operation()
ValueError(op) == IF op.value \in BadValues THEN "InvalidValue" ELSE "Ok"

LogicalAddError(s, c, op) ==
    CASE op.occurrence # 0 -> "InvalidOccurrence"
      [] op.occurrence = 0 /\ ValueError(op) # "Ok" -> ValueError(op)
      [] OTHER ->
           IF op.field \notin Repeated /\ c.active[op.field] # <<>>
           THEN "SingletonAlreadyExists"
           ELSE IF \/ Len(s.entries) + c.counts.added >= IdMax
                   \/ op.field \in Repeated /\ c.top[op.field] = IndexMax
           THEN "EntryLimitExceeded" ELSE "Ok"

\* What Set and Remove have in common after their own checks.
LogicalTargetError(c, op) ==
    IF op.field \notin Repeated /\ Len(c.active[op.field]) > 1 THEN "AmbiguousTarget"
    ELSE IF op.occurrence >= Len(c.active[op.field]) THEN "TargetNotFound" ELSE "Ok"

LogicalSetError(c, op) ==
    IF op.occurrence = All \/ (op.field \notin Repeated /\ op.occurrence # 0)
    THEN "InvalidOccurrence"
    ELSE IF ValueError(op) # "Ok" THEN ValueError(op) ELSE LogicalTargetError(c, op)

LogicalRemoveError(c, op) ==
    IF op.field \notin Repeated /\ op.occurrence \notin {0, All} THEN "InvalidOccurrence"
    ELSE IF c.active[op.field] = <<>> THEN "TargetNotFound"
    ELSE IF op.occurrence = All THEN "Ok" ELSE LogicalTargetError(c, op)

LogicalError(s, c, op) ==
    CASE op.kind = "Add" -> LogicalAddError(s, c, op)
      [] op.kind = "Set" -> LogicalSetError(c, op)
      [] op.kind = "Remove" -> LogicalRemoveError(c, op)

-----------------------------------------------------------------------------
(* What an operation records, and what it notes for those that follow.      *)

FieldKey(c, f) == IF f \in Repeated THEN Key(f, c.top[f] + 1, NoLeaf) ELSE Singletons[f]

Recorded(c, op, id) ==
    [c EXCEPT !.edits = Append(@, AddEntry(NewEntry(FieldKey(c, op.field), op.value, "none",
                                                    c.block, c.order))),
              !.active[op.field] = Append(@, id),
              !.top = [f \in Repeated |-> IF f = op.field THEN @[f] + 1 ELSE @[f]],
              !.order = Saturated(@ + 1, OrderMax), !.counts.added = @ + 1]

LogicalAdd_IdByEdits(s, c, op) == Recorded(c, op, Len(s.entries) + Len(c.edits)) \* mutant

\* The entry will come after those of the base and those added before it.
LogicalAdd(s, c, op) == Recorded(c, op, Len(s.entries) + c.counts.added)

LogicalSet(c, op) ==
    [c EXCEPT !.edits = Append(@, SetValue(c.active[op.field][op.occurrence + 1], op.value)),
              !.counts.updated = @ + 1]

LogicalRemove(c, op) ==
    LET all  == op.occurrence = All
        gone == IF all THEN c.active[op.field] ELSE <<c.active[op.field][op.occurrence + 1]>>
    IN  [c EXCEPT !.edits = @ \o [i \in 1..Len(gone) |-> Tombstone(gone[i])],
                  !.active[op.field] = IF all THEN <<>> ELSE RemoveAt(@, op.occurrence + 1),
                  !.counts.removed = @ + Len(gone)]

LogicalDone(s, c, op) ==
    CASE op.kind = "Add" -> LogicalAdd(s, c, op)
      [] op.kind = "Set" -> LogicalSet(c, op)
      [] op.kind = "Remove" -> LogicalRemove(c, op)

LogicalStep(s, c) == [LogicalDone(s, c, c.ops[c.next]) EXCEPT !.next = @ + 1]
=============================================================================
