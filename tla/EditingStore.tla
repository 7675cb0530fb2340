----------------------------- MODULE EditingStore -----------------------------
(***************************************************************************)
(* What the editing calls of openmeta/metadata_editing.h and                *)
(* metadata_xmp_editing.h work on: keys, the entries of a store, and the    *)
(* operations that commit() applies as in MetadataDocument, which MetaStore *)
(* is shown to implement.                                                   *)
(*                                                                         *)
(* A key is a root with an item and a leaf: an XMP path Root, Root[item],   *)
(* Root/leaf or Root[item]/leaf, an array index or language being the item; *)
(* item 0 and NoLeaf stand for what a path does not have.                   *)
(***************************************************************************)
EXTENDS EntryOperations, SequencesExt, FiniteSets, FiniteSetsExt

CONSTANTS Native,       \* roots that are not XMP properties (EXIF, IPTC, ICC keys)
          TextArrays,   \* standard roots with indexed or language items
          StructArrays, \* standard roots whose items have leaves
          Structs,      \* standard roots that have leaves
          Customs,      \* roots of custom trees, declared by a container entry
          Singletons,   \* logical field -> the one key it has
          Repeated,     \* logical fields that are lists; each is its root
          Clashes,      \* leaves that cannot stand under one item: sets of two
          BadValues,    \* values that fail the checks on a single value
          NoBlock,      \* kInvalidBlockId
          IndexMax,     \* UINT32_MAX, for the index of a repeated field
          OrderMax,     \* UINT32_MAX, for order_in_block
          IdMax,        \* kInvalidEntryId
          MaxOperations,\* limits.max_operations, options.max_operations
          MaxEntries,   \* options.max_entries
          All,          \* kMetadataEditingAllOccurrences
          Unique        \* kMetadataTypedEditingUniqueOccurrence

NoLeaf == "-"
Form == "form"          \* the wire type that declares a container
Void == "void"          \* the value of a container

Key(root, item, leaf) == [root |-> root, item |-> item, leaf |-> leaf]

\* An index is read as 32 bits; a path with a larger one is a root of its own.
IsKey(key) == key = Key(key.root, key.item, key.leaf) /\ key.item \in 0..IndexMax

\* The descriptors of the logical fields name different properties.
ASSUME EditingAssumption ==
    /\ {NoBlock, IndexMax, OrderMax, IdMax, All, Unique} \subseteq Nat /\ All # Unique
    /\ {MaxOperations, MaxEntries} \subseteq Nat
    /\ Repeated \cap DOMAIN Singletons = {}
    /\ \A f \in DOMAIN Singletons :
          /\ IsKey(Singletons[f])
          /\ Singletons[f].leaf = NoLeaf => Singletons[f].root \notin Repeated
          /\ \A g \in DOMAIN Singletons : Singletons[f] = Singletons[g] => f = g

-----------------------------------------------------------------------------
(* Stores: [entries, blocks, sealed, refused].  An entry id counts from 0.  *)

Deleted(e) == "Deleted" \in e.flags
Ids(s, Wanted(_)) == {id \in 0..Len(s.entries) - 1 : Wanted(s.entries[id + 1])}

\* The n-th of a set of numbers; a set in order; the members of a sequence that
\* are at some places, in order.
Nth(places, n) == CHOOSE p \in places : Cardinality({q \in places : q < p}) = n - 1
InIdOrder(ids) == [n \in 1..Cardinality(ids) |-> Nth(ids, n)]
Picked(s, places) == [n \in 1..Cardinality(places) |-> s[Nth(places, n)]]

Saturated(n, max) == IF n > max THEN max ELSE n

NewEntry(key, value, wire, block, order) ==
    [key |-> key, value |-> value, wire |-> wire, wireName |-> <<>>,
     block |-> block, order |-> order, flags |-> {"Dirty"}]

EmptyStore == [entries |-> <<>>, blocks |-> 0, sealed |-> TRUE, refused |-> FALSE]

\* commit() of one buffer, when it is not refused.
Commit(s, edits) == [s EXCEPT !.entries = Applied(@, edits)]

AddEntry(e) == [kind |-> "AddEntry", content |-> e]
SetValue(id, v) == [kind |-> "SetValue", target |-> id, value |-> v]
SetValueWithWire(id, v, wire) ==
    [kind |-> "SetValueWithWire", target |-> id, value |-> v, wire |-> wire]
Tombstone(id) == [kind |-> "Tombstone", target |-> id]

-----------------------------------------------------------------------------
(* Keys and scopes.                                                         *)

\* entry_matches_descriptor(): a list matches its root bare or with an index.
OfField(f, key) ==
    IF f \in Repeated THEN key.root = f /\ key.leaf = NoLeaf
                      ELSE key = Singletons[f]

Fields == Repeated \cup DOMAIN Singletons

\* parse_xmp_structured_edit_scope(): a root, or one item of an array.
ScopeOK(scope) ==
    \/ scope.root \in TextArrays \cup StructArrays \cup Customs
    \/ scope.root \in Structs /\ scope.item = 0

\* leaf_in_scope(), custom_path_in_scope()
InScope(scope, key) == key.root = scope.root /\ scope.item \in {0, key.item}

\* parse_xmp_structured_edit_leaf(): the leaves that standard roots may have.
Canonical(key) ==
    \/ key.root \in Customs
    \/ key.root \in TextArrays /\ key.item > 0 /\ key.leaf = NoLeaf
    \/ key.root \in StructArrays /\ key.item > 0 /\ key.leaf # NoLeaf
    \/ key.root \in Structs /\ key.item = 0 /\ key.leaf # NoLeaf

\* leaf_shape_collision(): a text and a structure in one place of one item.
Collide(a, b) ==
    /\ a.root = b.root /\ a.root \notin Customs
    /\ a.item = b.item /\ {a.leaf, b.leaf} \in Clashes
=============================================================================
