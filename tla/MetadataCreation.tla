--------------------------- MODULE MetadataCreation ---------------------------
(***************************************************************************)
(* create_metadata() (openmeta/metadata_creation.cc) and                    *)
(* create_metadata_store() (openmeta/metadata_authoring.cc): a new store    *)
(* from a list of fields [field, value] or of entries [key, value, wire].   *)
(***************************************************************************)
EXTENDS XmpEditing, LogicalEditing

FieldStatus(fields, i) ==
    IF /\ fields[i].field \notin Repeated
       /\ \E j \in 1..i - 1 : fields[j].field = fields[i].field
    THEN "DuplicateSingleton" ELSE ValueError(fields[i])

FieldsVerdict(fields) == FirstBad(Len(fields), LAMBDA i : FieldStatus(fields, i), LAMBDA i : i)

EntriesVerdict(entries, policy) ==
    LET invalid == FirstBad(Len(entries),
            LAMBDA i : IF entries[i].value \in BadValues THEN "InvalidValue" ELSE "Ok",
            LAMBDA i : i)
        twice == FirstBad(Len(entries),
            LAMBDA i : IF \E j \in 1..Len(entries) : j # i /\ entries[j].key = entries[i].key
                       THEN "DuplicateKey" ELSE "Ok",
            LAMBDA i : i)
    IN  IF invalid # Ok THEN invalid
        ELSE IF policy = "RejectExactKeys" THEN twice ELSE Ok

\* One block, the entries in it in the order of the request; no block for none.
StoreOf(entries) ==
    [EmptyStore EXCEPT !.entries = entries, !.blocks = IF entries = <<>> THEN 0 ELSE 1]

\* The items of a list are numbered from 1 as they come.
NthKey(fields, i) ==
    LET f == fields[i].field
    IN  IF f \in Repeated
        THEN Key(f, Cardinality({j \in 1..i : fields[j].field = f}), NoLeaf)
        ELSE Singletons[f]

StoreOfFields(fields) ==
    StoreOf([i \in 1..Len(fields) |->
                NewEntry(NthKey(fields, i), fields[i].value, "none", 0, i - 1)])

StoreOfEntries(entries) ==
    StoreOf([i \in 1..Len(entries) |->
                NewEntry(entries[i].key, entries[i].value, entries[i].wire, 0, i - 1)])
=============================================================================
