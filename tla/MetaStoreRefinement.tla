-------------------------- MODULE MetaStoreRefinement --------------------------
(***************************************************************************)
(* MetaStore implements MetadataDocument: read every span as the bytes it  *)
(* stands for, forget the indices, and a commit() or compact() that copies *)
(* entry by entry between arenas is one step on a list of contents.        *)
(***************************************************************************)
EXTENDS MetaStore

Document(s) ==
    [entries |-> [i \in 1..Len(s.entries) |-> View(s.arena, s.entries[i])],
     blocks |-> s.blocks, sealed |-> s.finalized, refused |-> Refused(s)]

Operation(a, op) ==
    CASE op.kind = "AddEntry" -> [kind |-> op.kind, content |-> View(a, op.entry)]
      [] op.kind = "Tombstone" -> op
      [] OTHER -> [op EXCEPT !.value = ViewValue(a, op.value)]

Abstract == INSTANCE MetadataDocument WITH
    Contents <- Requests,
    doc      <- Document(store),
    drafts   <- [b \in 1..Buffers |->
                    IF edits[b].arena.over THEN [void |-> TRUE, ops |-> <<>>]
                    ELSE [void |-> FALSE,
                          ops |-> [i \in 1..Len(edits[b].ops) |->
                                      Operation(edits[b].arena, edits[b].ops[i])]]],
    answer   <- IF returned = NoStore THEN [none |-> TRUE] ELSE Document(returned)

\* Every behaviour of the store is one of the abstract document: no entry is
\* ever truncated by a refused allocation, a call applies every recorded
\* operation in order or none, and values and keys survive each copy.
ImplementsDocument == Abstract!Spec
=============================================================================
