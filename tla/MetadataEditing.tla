--------------------------- MODULE MetadataEditing ----------------------------
(***************************************************************************)
(* A host that edits one store by edit_metadata(), edit_metadata_typed()    *)
(* and edit_metadata_xmp(), or replaces it by create_metadata() and         *)
(* create_metadata_store().  The store it passes as the base is also the    *)
(* one that the call writes to, as the headers allow.                       *)
(*                                                                         *)
(* A call takes one step for the checks on the request as a whole, one for  *)
(* each operation, and one for commit() and the checks on its result.  A    *)
(* limit on bytes may refuse wherever the code tests one: sizes are left    *)
(* out.                                                                     *)
(***************************************************************************)
EXTENDS MetadataCreation

CONSTANTS InitStores,   \* finalized stores from decoders, and what else a host may have
          Requests,     \* [api, ops, policy]
          MaxOps        \* bound: operations of all calls together

IsSequence(q) == Len(q) \in Nat /\ q = [n \in 1..Len(q) |-> q[n]]

IsEntry(e) ==
    /\ e = [NewEntry(e.key, e.value, e.wire, e.block, e.order) EXCEPT
               !.wireName = e.wireName, !.flags = e.flags]
    /\ IsKey(e.key) /\ e.block \in Nat /\ e.order \in 0..OrderMax

IsStore(s) ==
    /\ s = [entries |-> s.entries, blocks |-> s.blocks, sealed |-> s.sealed,
            refused |-> s.refused]
    /\ IsSequence(s.entries) /\ \A n \in 1..Len(s.entries) : IsEntry(s.entries[n])
    /\ s.blocks \in Nat

IsProposal(e) == e = [key |-> e.key, value |-> e.value, wire |-> e.wire] /\ IsKey(e.key)

\* A new store has less entries than any width can count: longer requests are
\* refused (kMetadataCreationMaxFields, max_entries).
IsOperation(api, op) ==
    CASE api = "logical" -> /\ op.kind \in {"Add", "Set", "Remove"} /\ op.field \in Fields
                            /\ op.occurrence \in Nat
      [] api = "typed" -> /\ op.kind \in {"Add", "Set", "Remove"} /\ IsKey(op.key)
                          /\ op.occurrence \in Nat
      [] api = "xmp" -> /\ op.kind \in {"Add", "Replace", "Remove"}
                        /\ IsSequence(op.entries)
                        /\ \A n \in 1..Len(op.entries) : IsProposal(op.entries[n])
      [] api = "fields" -> op.field \in Fields
      [] api = "entries" -> IsProposal(op)

IsRequest(r) ==
    /\ r.api \in {"logical", "typed", "xmp", "fields", "entries"}
    /\ IsSequence(r.ops) /\ \A i \in 1..Len(r.ops) : IsOperation(r.api, r.ops[i])
    /\ r.api = "typed" => r.policy \in {"FailIfPresent", "Append"}
    /\ r.api \in {"fields", "entries"} => Len(r.ops) <= IndexMax /\ Len(r.ops) <= OrderMax

ASSUME HostAssumption ==
    /\ \A s \in InitStores : IsStore(s)
    /\ \A r \in Requests : IsRequest(r)
    /\ MaxEntries <= OrderMax /\ MaxOps \in Nat

VARIABLES store, request, call, answer,
          used          \* operations asked for so far

vars == <<store, request, call, answer, used>>

None == [none |-> TRUE]

Init ==
    /\ store \in InitStores
    /\ request = None /\ call = None /\ answer = None /\ used = 0

Ask ==
    /\ request = None
    /\ \E r \in Requests :
          /\ used + Len(r.ops) <= MaxOps
          /\ request' = r /\ used' = used + Len(r.ops)
    /\ UNCHANGED <<store, call, answer>>

\* The host has seen the answer.
Dismiss ==
    /\ answer # None
    /\ request' = None /\ answer' = None
    /\ UNCHANGED <<store, call, used>>

Asked(api) == request # None /\ request.api = api /\ call = None /\ answer = None
At(stage) == call # None /\ call.stage = stage
More == call.next <= Len(call.ops)

Continue(c) == call' = c /\ UNCHANGED <<store, request, answer, used>>

Reply(s, status, at, entry, typed, counts) ==
    /\ store' = s /\ call' = None
    /\ answer' = [status |-> status, at |-> at, entry |-> entry, typed |-> typed,
                  counts |-> counts]
    /\ UNCHANGED <<request, used>>

Refuse(status, at) == Reply(store, status, at, 0, "Ok", NoCounts)
Accept(s, counts) == Reply(s, "Ok", 0, 0, "Ok", counts)

-----------------------------------------------------------------------------
LogicalBegin ==
    /\ Asked("logical")
    /\ IF LogicalRefusal(store, request.ops) # "Ok"
       THEN Refuse(LogicalRefusal(store, request.ops), 0)
       ELSE IF request.ops = <<>> THEN Accept(store, NoCounts)
       ELSE Continue(LogicalStart(store, request.ops))

LogicalOp ==
    /\ At("logical") /\ More
    /\ LET why == LogicalError(store, call, call.ops[call.next])
       IN  IF why # "Ok" THEN Refuse(why, call.next) ELSE Continue(LogicalStep(store, call))

\* TextTooLong, TotalTextTooLong
LogicalOpTooLong ==
    /\ At("logical") /\ More
    /\ call.ops[call.next].kind # "Remove"
    /\ LogicalError(store, call, call.ops[call.next]) # "InvalidOccurrence"
    /\ Refuse("TextTooLong", call.next)

LogicalEnd ==
    /\ At("logical") /\ ~More
    /\ \/ Accept(Commit(store, call.edits), call.counts)
       \/ Refuse("ResourceLimitExceeded", 0)

-----------------------------------------------------------------------------
(* edit_metadata_typed(), called by the host or by edit_metadata_xmp(),     *)
(* which answers for the operation that owns the one that failed.           *)

Answerable(owner, i) == IF i = 0 THEN 0 ELSE owner[i]

TypedRefuse_AtExpanded(status, owner, i, entry) ==               \* mutant
    IF request.api = "xmp"
    THEN Reply(store, "TypedEditFailed", i, entry, status, NoCounts)
    ELSE Reply(store, status, i, entry, status, NoCounts)

TypedRefuse(status, owner, i, entry) ==
    IF request.api = "xmp"
    THEN Reply(store, "TypedEditFailed", Answerable(owner, i), entry, status, NoCounts)
    ELSE Reply(store, status, i, entry, status, NoCounts)

TypedEnter(ops, owner, max, policy) ==
    LET invalid == {i \in 1..Len(ops) : InvalidOp(ops[i])}
    IN  IF TypedRefusal(store, ops, max) # "Ok"
        THEN TypedRefuse(TypedRefusal(store, ops, max), owner, 0, 0)
        ELSE IF invalid # {} THEN TypedRefuse("InvalidValue", owner, Min(invalid), 0)
        ELSE \/ Continue(TypedStart(store, ops, owner, max, policy))
             \/ \E i \in {j \in 1..Len(ops) : ops[j].kind # "Remove"},
                   status \in {"LimitExceeded", "ValidationFailed"} :
                      TypedRefuse(status, owner, i, 0)

TypedBegin ==
    /\ Asked("typed")
    /\ TypedEnter(request.ops, [i \in 1..Len(request.ops) |-> i], MaxOperations, request.policy)

TypedOp ==
    /\ At("typed") /\ More
    /\ LET why == TypedError(call, call.ops[call.next])
       IN  IF why # "Ok" THEN TypedRefuse(why, call.owner, call.next, 0)
                         ELSE Continue(TypedStep(call))

TypedOpTooLong ==
    /\ At("typed") /\ More
    /\ TypedError(call, call.ops[call.next]) \in {"Ok", "LimitExceeded"}
    /\ TypedRefuse("LimitExceeded", call.owner, call.next, 0)

\* The result is validated; last_writer says who answers for its entries.
TypedEnd ==
    /\ At("typed") /\ ~More
    /\ \/ TypedRefuse("LimitExceeded", call.owner, 0, 0)
       \/ LET edited == Commit(store, call.edits)
          IN  /\ Len(edited.entries) = Len(call.writers)
              /\ \/ Accept(edited, call.counts)
                 \/ \E n \in 1..Len(call.writers) :
                       TypedRefuse("ValidationFailed", call.owner, call.writers[n], n)

-----------------------------------------------------------------------------
XmpBegin ==
    /\ Asked("xmp")
    /\ IF XmpRefusal(store, request.ops) # "Ok" THEN Refuse(XmpRefusal(store, request.ops), 0)
       ELSE IF StartVerdict(store, request.ops) # Ok
       THEN Refuse(StartVerdict(store, request.ops).status, StartVerdict(store, request.ops).at)
       ELSE Continue(XmpStart(store, request.ops))

XmpOp ==
    /\ At("xmp") /\ More
    /\ LET why == XmpStatus(call, call.ops[call.next])
       IN  IF why # "Ok" THEN Refuse(why, call.next)
                         ELSE Continue(XmpStep(call, call.ops[call.next]))

\* max_request_bytes, for what the operation supplies or expands to.
XmpOpTooLong ==
    /\ At("xmp") /\ More
    /\ Refuse("LimitExceeded", call.next)

XmpEnd ==
    /\ At("xmp") /\ ~More
    /\ IF EndVerdict(call) # Ok THEN Refuse(EndVerdict(call).status, EndVerdict(call).at)
       ELSE TypedEnter(call.expanded, call.owner, MaxExpanded, "FailIfPresent")

-----------------------------------------------------------------------------
CreateFields ==
    /\ Asked("fields")
    /\ LET v == FieldsVerdict(request.ops)
       IN  IF v # Ok THEN Refuse(v.status, v.at)
           ELSE Accept(StoreOfFields(request.ops), [NoCounts EXCEPT !.added = Len(request.ops)])

CreateEntries ==
    /\ Asked("entries")
    /\ LET v == EntriesVerdict(request.ops, request.policy)
       IN  IF v # Ok THEN Refuse(v.status, v.at)
           ELSE Accept(StoreOfEntries(request.ops), [NoCounts EXCEPT !.added = Len(request.ops)])

\* The limits of both, and validate_store() in the second.
CreateRefused ==
    /\ Asked("fields") \/ Asked("entries")
    /\ \E i \in 0..Len(request.ops) : Refuse("LimitExceeded", i)

Next ==
    \/ Ask \/ Dismiss
    \/ LogicalBegin \/ LogicalOp \/ LogicalOpTooLong \/ LogicalEnd
    \/ TypedBegin \/ TypedOp \/ TypedOpTooLong \/ TypedEnd
    \/ XmpBegin \/ XmpOp \/ XmpOpTooLong \/ XmpEnd
    \/ CreateFields \/ CreateEntries \/ CreateRefused

Spec == Init /\ [][Next]_vars

-----------------------------------------------------------------------------
\* What a host sees of a store and of an answer.
Seen(s) ==
    [n \in 1..Len(s.entries) |->
        [key |-> s.entries[n].key, value |-> s.entries[n].value,
         wire |-> s.entries[n].wire, flags |-> s.entries[n].flags]]

SeenAnswer ==
    IF answer = None THEN None
    ELSE [status |-> answer.status, at |-> answer.at,
          added |-> answer.counts.added, removed |-> answer.counts.removed]

Lists == INSTANCE EditedLists WITH
    list <- Seen(store), answer <- SeenAnswer, InitLists <- {Seen(s) : s \in InitStores}

\* The three editing calls, which look entries up once and then go by ids that
\* they predict, do what their operations would do to the list one by one; they
\* change nothing when they refuse, and blame a missing target on the operation
\* that has none ("Operations observe earlier operations in the same request").
ImplementsLists == Lists!Spec

LiveXmp(s) == {n \in 1..Len(s.entries) : ~Deleted(s.entries[n])
                                         /\ s.entries[n].key.root \notin Native}

\* Entries that edit_metadata() adds to a block come after every XMP entry that
\* the block has, in the order of the request (select_addition_origin).
ComeLast(s, t) ==
    \A n \in Len(s.entries) + 1..Len(t.entries) : \A m \in 1..n - 1 :
        /\ t.entries[n].block < t.blocks /\ t.entries[m].block = t.entries[n].block
        /\ m > Len(s.entries) \/ m \in LiveXmp(s)
        => t.entries[m].order <= t.entries[n].order

AddedComeLast ==
    [][Asked("logical") \/ At("logical") => ComeLast(store, store')]_vars

Accepted(api) == answer # None /\ request.api = api /\ answer.status = "Ok"

\* After edit_metadata_xmp() every root that it was asked to edit has each
\* property once, in one shape, under paths it may have, and a custom root that
\* has any has its declaration: whatever the operations, in whatever order.
RootsWellFormed ==
    Accepted("xmp") =>
        \A root \in Roots(request.ops, Len(request.ops)) :
            LET live == {n \in LiveXmp(store) : store.entries[n].key.root = root}
            IN  /\ \A n \in live : Trackable(store.entries[n])
                /\ \A m, n \in live : m # n =>
                      PairStatus(store.entries[m], store.entries[n]) = "Ok"
                /\ root \in Customs /\ live # {} =>
                      \E n \in live : store.entries[n].key = Key(root, 0, NoLeaf)
                                     /\ store.entries[n].wire = Form

\* edit_metadata_xmp() never asks edit_metadata_typed() for an entry that is not
\* there, is there twice, or should not be there yet: the list it keeps of the
\* roots agrees with what the typed operations do.
XmpNeverMisses ==
    answer # None /\ request.api = "xmp" => answer.typed \notin Lists!NoTarget \cup
        {"InvalidValue", "TooManyOperations", "BaseNotFinalized"}

\* "Add ignores occurrence and appends a repeated field or creates an absent
\* singleton" (metadata_editing.h): no Add is refused for its occurrence.
AddIgnoresOccurrence ==
    answer # None /\ request.api = "logical" /\ answer.status = "InvalidOccurrence"
        => request.ops[answer.at].kind # "Add"

\* The operation that an answer blames is one of the request, and if it blames
\* an entry of the base too, the operation is about that entry (last_writer,
\* expanded_owner).
BlameIsRight ==
    answer # None /\ answer.at > 0 =>
        /\ answer.at <= Len(request.ops)
        /\ answer.entry \in 1..Len(store.entries) =>
              LET op  == request.ops[answer.at]
                  key == store.entries[answer.entry].key
              IN  IF request.api = "xmp" THEN InScope(op.scope, key) ELSE op.key = key
=============================================================================
