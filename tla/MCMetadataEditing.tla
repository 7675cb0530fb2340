-------------------------- MODULE MCMetadataEditing ---------------------------
EXTENDS MetadataEditing

\* dc:title is a field with one text and an array of languages of which it is the
\* default; dc:creator a field that is a list; "shown" an array of structures,
\* "tree" a custom root.
TheSingletons == [title |-> Key("title", 1, NoLeaf)]
TheClashes == {{"city", "city/name"}}

Base(key, value, wire, block, order, flags) ==
    [NewEntry(key, value, wire, block, order) EXCEPT !.flags = flags]

Exif == Key("exif", 0, NoLeaf)
Title == Key("title", 1, NoLeaf)
Creator(i) == Key("creator", i, NoLeaf)
Shown(i, leaf) == Key("shown", i, leaf)
Tree(leaf) == Key("tree", 0, leaf)

\* A file read: a tombstone with the highest index, orders out of id order.
Decoded ==
    [EmptyStore EXCEPT !.blocks = 2, !.entries =
        << Base(Exif, "old", "ascii", 0, 3, {"BigEndian"}),
           Base(Creator(1), "old", "none", 1, 3, {}),
           Base(Creator(2), "old", "none", 1, 1, {"Deleted"}),
           Base(Title, "old", "none", 1, 1, {}) >>]

\* Structures, with the wire types of a decoder.
Structured ==
    [EmptyStore EXCEPT !.blocks = 1, !.entries =
        << Base(Shown(1, "city"), "old", "ascii", 0, 0, {"BigEndian"}),
           Base(Shown(2, "city"), "old", "none", 0, 1, {}),
           Base(Shown(2, "code"), "old", "none", 0, 2, {"Deleted"}),
           Base(Tree(NoLeaf), Void, Form, 0, 3, {}),
           Base(Tree("a"), "old", "none", 0, 4, {}) >>]

\* What a decoder keeps of a file that is not in order.
Untidy ==
    [EmptyStore EXCEPT !.blocks = 1, !.entries =
        << Base(Title, "old", "none", 0, 9, {}), Base(Title, "old", "none", 0, 0, {}),
           Base(Creator(0), "old", "none", 0, 1, {}),
           Base(Shown(1, "city"), "old", "none", 0, 2, {}),
           Base(Shown(1, "city/name"), "old", "none", 0, 3, {}) >>]

Stores == { Decoded, Structured, Untidy,
            [EmptyStore EXCEPT !.refused = TRUE], [EmptyStore EXCEPT !.sealed = FALSE] }

-----------------------------------------------------------------------------
UpTo(ops, n) == UNION {[1..k -> ops] : k \in 0..n}

ByName(kind, field, value, occurrence) ==
    [kind |-> kind, field |-> field, value |-> value, occurrence |-> occurrence]

CommonFieldOps ==
    { ByName("Add", "title", "new", 0), ByName("Add", "creator", "new", 0),
      ByName("Set", "creator", "new", 1), ByName("Remove", "creator", "new", 0),
      ByName("Remove", "title", "new", All) }
FieldOps ==
    CommonFieldOps \cup
    { ByName("Set", "title", "new", 0), ByName("Remove", "title", "new", 0),
      ByName("Set", "creator", "new", All), ByName("Set", "title", "new", 1),
      ByName("Add", "creator", "bad", 0), ByName("Add", "creator", "new", 1),
      ByName("Remove", "creator", "new", All), ByName("Remove", "title", "new", 1) }

ByExact(kind, key, value, occurrence) ==
    [kind |-> kind, key |-> key, value |-> value, wire |-> "none", occurrence |-> occurrence]

KeyOps(key) ==
    { ByExact("Add", key, "new", Unique), ByExact("Set", key, "new", Unique),
      ByExact("Set", key, "new", 1), ByExact("Remove", key, "new", 0),
      ByExact("Remove", key, "new", All) }
TypedOps ==
    KeyOps(Title) \cup
    { ByExact("Set", Exif, "new", Unique), ByExact("Add", Exif, "bad", Unique),
      ByExact("Add", Title, "new", 0), ByExact("Set", Title, "new", All) }

Text(key) == [key |-> key, value |-> "new", wire |-> "none"]
Container(key) == [key |-> key, value |-> Void, wire |-> Form]
Scoped(kind, root, item, entries) ==
    [kind |-> kind, scope |-> [root |-> root, item |-> item], entries |-> entries]

ScopeOps ==
    { Scoped("Add", "shown", 2, <<Text(Shown(2, "code"))>>),
      Scoped("Replace", "shown", 0, <<Text(Shown(3, "city")), Text(Shown(1, "city"))>>),
      Scoped("Replace", "shown", 1, <<Text(Shown(1, "city/name"))>>),
      Scoped("Add", "shown", 1, <<Text(Shown(1, "city")), Text(Shown(1, "city/name"))>>),
      Scoped("Remove", "shown", 1, <<>>), Scoped("Remove", "shown", 0, <<>>),
      Scoped("Replace", "tree", 0, <<Text(Tree("a"))>>),
      Scoped("Replace", "tree", 0, <<Text(Tree("b")), Container(Tree(NoLeaf))>>),
      Scoped("Replace", "tree", 0, <<Text(Tree(NoLeaf))>>),
      Scoped("Remove", "tree", 0, <<>>), Scoped("Add", "tree", 0, <<Text(Tree("a"))>>),
      Scoped("Add", "tree", 0, <<Container(Tree(NoLeaf))>>),
      Scoped("Replace", "title", 1, <<Text(Title)>>), Scoped("Add", "title", 0, <<Text(Title)>>),
      Scoped("Remove", "title", 1, <<>>), Scoped("Add", "creator", 1, <<Text(Creator(1))>>),
      Scoped("Replace", "shown", 2, <<>>), Scoped("Remove", "shown", 2, <<Text(Shown(2, "city"))>>),
      Scoped("Add", "shown", 2, <<Text(Shown(1, "city"))>>) }

NewFields == { [field |-> "title", value |-> "new"], [field |-> "creator", value |-> "new"],
               [field |-> "creator", value |-> "bad"] }
NewEntries == { Text(Title), Text(Exif), Container(Tree(NoLeaf)) }

Request(api, opsets, policies) == [api : {api}, ops : opsets, policy : policies]

TheRequests ==
    Request("logical", UpTo(FieldOps, 2) \cup [1..3 -> CommonFieldOps], {"-"})
      \cup Request("typed", UpTo(TypedOps, 2) \cup [1..3 -> KeyOps(Title)],
                   {"FailIfPresent", "Append"})
      \cup Request("xmp", UpTo(ScopeOps, 2), {"-"})
      \cup Request("fields", UpTo(NewFields, 3), {"-"})
      \cup Request("entries", UpTo(NewEntries, 2), {"AllowDuplicates", "RejectExactKeys"})
=============================================================================
