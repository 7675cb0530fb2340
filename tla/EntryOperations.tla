--------------------------- MODULE EntryOperations ---------------------------
(***************************************************************************)
(* What the operations recorded in an edit buffer do to a list of entries, *)
(* as far as no arena is concerned.  An entry id counts from 0.            *)
(***************************************************************************)
EXTENDS Naturals, Sequences

\* The meaning of one operation on the list of entries.
Touch(entries, target, changed(_)) ==
    IF target < Len(entries) THEN [entries EXCEPT ![target + 1] = changed(@)]
                             ELSE entries

Do(entries, op) ==
    CASE op.kind = "AddEntry" -> Append(entries, op.content)
      [] op.kind = "SetValue" ->
            Touch(entries, op.target, LAMBDA e :
                [e EXCEPT !.value = op.value, !.flags = @ \cup {"Dirty"}])
      [] op.kind = "SetValueWithWire" ->
            Touch(entries, op.target, LAMBDA e :
                [e EXCEPT !.value = op.value, !.wire = op.wire, !.wireName = <<>>,
                          !.flags = (@ \cup {"Dirty"}) \ {"BigEndian"}])
      [] op.kind = "Tombstone" ->
            Touch(entries, op.target, LAMBDA e :
                [e EXCEPT !.flags = @ \cup {"Dirty", "Deleted"}])

\* All operations of a list, one after the other.
Applied(entries, ops) ==
    LET after[n \in 0..Len(ops)] ==
            IF n = 0 THEN entries ELSE Do(after[n - 1], ops[n])
    IN  after[Len(ops)]
=============================================================================
