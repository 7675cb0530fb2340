# OpenMeta in TLA+

This directory is a verification development of OpenMeta, a C++ library that
reads, edits and transfers image metadata (EXIF, XMP, IPTC, ICC, makernotes)
across some twenty container formats. It holds TLA+ modules translated from the
source, TLC configurations that check them on small instances, and proofs that
TLAPS checks for every value of the constants. `PROJECT.json` names, for every
definition, the lines it stands for; the paths below are relative to the
repository.

1. [The system](#the-system)
2. [Modules and how they correspond to the code](#modules)
3. [The runs: properties, bounds, fairness](#the-runs)
4. [What is proved](#what-is-proved)
5. [What the checks found](#what-the-checks-found)
6. [What is not modelled](#what-is-not-modelled)
7. [Plan](#plan)

## The system

OpenMeta is a library. It starts no threads and keeps no global state but one
atomic counter; the host calls it from as many threads as it likes, on objects
it owns. What makes it hard is therefore not a scheduler but

- long sequences of legal calls on objects that keep spans, ids and indices
  into one another (stores, edit buffers, plans, handles, windows);
- ceilings everywhere (bytes, entries, requests, depth), each given by several
  layers, where 0 means *no ceiling* and a refusal must be remembered;
- operations of many steps of which a late one may fail, and that promise to be
  all or nothing (commit, compact, patch, persist);
- what is shared outside the process: the path that several writers replace,
  crashes and power failures in between, a source that changes or fails.

### Components

| Component | State it keeps | Operations | Talks to | What makes it correct |
|---|---|---|---|---|
| Byte arena (`byte_arena.cc`) | bytes, ceiling, refusal flag | append, allocate, reserve, constrain, clear | owned by stores and edit buffers | spans keep their bytes; ceiling or flag; budgets only tighten |
| Keys and values (`meta_key.cc`, `meta_value.cc`) | none: spans into an arena | make, compare | arena, store | one total order, the same for stored keys and for views |
| Store (`meta_store.cc`) | entries, blocks, arena, two indices, `finalized` | add, reserve, constrain, finalize, rehash, find_all, entries_in_block | decoders fill it; queries, serializers and transfers read it | spans resolve, indices are fresh, lookups exact, ceilings hold |
| Edit buffers, commit, compact (`meta_edit.cc`) | recorded operations with an arena of their own | add, set, set with wire type, tombstone; commit, compact | read a finalized store, return a new one | all or nothing; buffers in order; refusals stick |
| Atomic file replacement (`metadata_transfer.cc`, `atomic_write_file_bytes`) | a temporary file | write a file under a path | file system, other writers | never torn, one atomic exchange, no litter, ends |
| Transfer writeback (`execute_`, `persist_prepared_transfer_file_result`) | prepared result, persist result | decide where XMP goes; output, sidecar, cleanup | atomic file replacement | output first; answers are true; XMP is not lost |
| Random access source (`random_access_source.cc`) | window, limits, sticky read state | exact read, view with read-ahead, sub-readers | callbacks of the host; all decoders | views are true; ceilings; first failure sticks |
| Snapshot reading (`read_transfer_source_snapshot_random_access_common`) | one budget for all phases | native decode, scan, blocks, nested operations | scanners and decoders | budget is cumulative; failures and bytes are accounted |
| Prepared patches (`metadata_patch.cc`) | plans, handles, worker instances with stamps and epoch | prepare, create, patch, move, reset | host threads with one instance each; the serializers that lay out slots | only right handles; batches all or nothing; layout kept |
| Field editing and authoring (`metadata_editing.cc`, `metadata_authoring.cc`, `metadata_xmp_editing.cc`, `metadata_creation.cc`) | inside a call: the entries found, the ids predicted, the entries a structure will have | edit by field, by exact key, whole XMP structures; create a store | one edit buffer and one commit of the store | each operation sees the ones before; all or nothing; the right operation is blamed; structures stay well formed |
| TIFF and EXIF decoder (`exif_tiff_decode.cc`) | inside a call: task stack, visited table, counters | decode from bytes, decode through a callback | random access, store, nested decoders | ends; each directory once and none missed; both decoders agree |
| Other decoders (makernotes, RAW, BMFF, JUMBF, EXR, ICC, IPTC, XMP) | task stacks and visited tables inside a call | decode into a store | random access, store | end within their limits, report what they skip |
| Prepared handoff, emitters | prepared blocks | prepare, hand off, replay | store, transfer | planned, see [Plan](#plan) |
| Container scan and payloads | scan result | find and reassemble blocks | random access, zlib/brotli | bounded walks; output limit |
| Serializers, queries, translation, reconciliation, concepts, naming | none outside a call | pure functions | finalized store | value conversions |
| Host adapters, bindings, tools | none of their own | conversions | everything above | - |

`PROJECT.json` lists all 29 components with their sources and a status, and 40
hazards with the line where each bites.

### How the parts interact

A decoder materialises keys and values in the arena of a store and adds
entries; `finalize()` builds the indices. Editors record operations against the
finalized store, each in a buffer with its own arena, perhaps in several
threads; `commit()` copies the store, replays the buffers in order (copying
every span from the buffer's arena into the copy's) and finalizes the copy.
`compact()` copies the live entries into a fresh arena. The editing calls turn a
request of fields, keys or XMP structures into one buffer and one commit. A transfer reads a
source through a random access operation and its nested operations, decides
where the XMP packet goes, edits the image and persists up to two files, each
by an atomic replacement. A host that patches the same fields of many frames
prepares a plan once, gives each worker an instance of it and patches values in
place.

## Modules

Names follow the source. Each module says in its header what it models and what
is external. Operators ending in `_Something` and marked `mutant` are wrong
versions of the definition after them: putting one in the place of the right one
makes TLC find the property violated that `PROJECT.json` names with it.

| Module | Models | State | Actions |
|---|---|---|---|
| `ByteArena` | `ByteArena`: 32-bit offsets, ceiling, flag | operators only | `Append_`, `AppendView`, `Allocate`, `ArenaReserve`, `ArenaConstrain`, `ArenaClear` |
| `ArenaUse` | one arena and the spans its owner still holds | `arena`, `held` | one per method, `AppendOwn` being `append()` of the arena's own bytes |
| `MetaKey` | keys, values, their views and orders | operators only | `MakeKey`, `MakeValue`, `CompareKey`, `CompareKeyView` |
| `MetaStoreIndex` | `rebuild_block_index`, `rebuild_key_index`, the searches | operators only | `BuildIndex`, `FindAll`, `EntriesInBlock` |
| `MetaStore` | store, edit buffers, `commit()` one operation and `compact()` one entry at a time | `store`, `edits`, `job` (the call in progress and its local copy), `returned` | decoding, recording, `CommitBegin/Op/NextEdit/End`, `CompactBegin/Entry/End`, host adopts or drops |
| `EntryOperations` | what the operations of an edit buffer do to a list of entries, as far as no arena is concerned | operators only | `Do`, `Applied` |
| `MetadataDocument` | **abstract**: a document of values, no arenas, no ids into them | `doc`, `drafts`, `answer` | changes in whole steps |
| `MetaStoreRefinement` | the mapping from `MetaStore` to `MetadataDocument` | - | - |
| `AtomicFile` | `atomic_write_file_bytes()`, one system call per action, for several calls | directory, what of it is on the disk, inodes, nonce per process, per-call locals | open, write, fsync, two lstat, rename or link, unlink; failure of each; crash, power failure, other programs |
| `FileSlot` | **abstract**: a path with nothing or one whole file | content, durable content, calls | one atomic exchange and an answer |
| `PersistTransfer` | end of a transfer: `execute_...` and `persist_...` | files, request, prepared, result; effects in order and `late` | one per file operation; death; other programs |
| `ReadLimits` | ceilings and accounting of one operation | operators only | `LimitRefusal`, `Count`, `Settle` |
| `RandomAccess` | exact reads, views, window, sub-readers | source kind, limits, range, lender, window, storage, state | `ReadExact`, `ReadView`, `Lend`, `GiveBack`, `NewOperation` |
| `SnapshotRead` | the phases of a snapshot and the operations nested in them | phase, stack of operations, what was really asked | `Read`, `Nest`, `EndNested`, one per phase boundary |
| `MetadataPatch` | plans, handles, instances, the patch call update by update | plans, instances, calls, handles | prepare, move, reset, create, `Begin`, `Check`, `Write` |
| `PatchForms` | **abstract**: a form of fields per worker, filled in by whole batches | `form`, `call` | `Ask`, `Settle` (where a batch happens), `Refuse`, `Finish`, `Own`, `Move` |
| `EditingStore` | keys, stores and recorded operations as the editing calls see them | operators only | on top of `EntryOperations` |
| `LogicalEditing`, `TypedEditing`, `XmpEditing`, `MetadataCreation` | one editing or creating call each: its checks, its lists, the operations it records | operators only | what one operation may be refused for and what it does |
| `MetadataEditing` | a host that edits one store by the three calls, or replaces it by the two | `store`, `request`, `call` (locals of the call in progress), `answer` | `Ask`, then one step for the request as a whole, one per operation and one for `commit()`; `TooLong` for limits on bytes |
| `EditedLists` | **abstract**: a list of entries, changed by operations that see the ones before | `list`, `answer` | one step per call, or a refusal |
| `IfdTraversal` | both decoders of TIFF files: how directories are found, ordered, numbered and bounded | file (revealed as it is read), per-decoder locals, directories decoded | `Begin`, `Skip`, `Refuse`, `Open`, `Finish` of each decoder, `BeginFails` and `OpenFails` of a read |
| `MC*` | constants for TLC | - | - |
| `*_proofs` | lemmas and theorems | - | - |

Modelling decisions worth knowing when reading them beside the code:

- **Ghosts.** `ArenaUse!held`, `RandomAccess!asked`, `PersistTransfer!effects` and `late`,
  `SnapshotRead!fault`, `IfdTraversal!decoded`, `inode[w].by` and the fields `gen`, `index`, `blank` in
  `MetadataPatch` record history for the properties. No guard reads them, but
  where the module says that the host forgets what it holds.
- **Widths.** `OffsetMax` stands for `UINT32_MAX` in arenas, `Max32` and `Max64`
  for the counters of reads, `EpochSpan` and `Radix` for the widths of the epoch
  and of the index half of a handle. TLC gives them tiny values so that the edges
  are met; the proofs hold for any.
- **Data.** A byte is a member of a small set; a source byte is named by its
  place; the file written by `w` is known by who wrote its pieces; a value is
  one of a few. `CompareViews` is one operator for `compare_key` and
  `compare_key_view`, which agree field by field; `KindOrder` and the order of
  the fields are the code's.
- **Editing.** A key is a root with an item and a leaf, which is all that the
  rules about XMP structures tell apart; native fields are roots of their own.
  `commit()` is `Applied` of `EntryOperations`, the operator by which
  `MetadataDocument` changes and which `MetaStore` was shown to implement. The base passed to a call is
  also its output, as the headers allow. Limits on bytes and `validate_store()`
  are refusals that may come wherever the code tests for them.
- **Files.** `IfdTraversal` chooses what is at an offset when a decoder first
  reads it, from all that may be there: a directory, one with a torn entry
  table, one cut off after its entries, nothing. The second decoder then meets
  the same file.
- **Copies.** `commit()` and `compact()` work on a local copy. It is part of the
  state (`job.out`) so that properties about "every store" also speak of half
  finished ones.
- **Host rules** that the headers state are guards of the model: plan ids are
  not reused while anything of the old plan is alive, an instance is used by one
  thread at a time, and a worker that is being read from is not being patched. So is
  that edits are recorded against a finalized base: `MetaEdit` takes them at any
  time, but every caller in the library has a base that is finished by then.
- **Aliases.** `append()` is `Append_` for bytes of the caller's and `AppendView` for
  a view of the arena itself, whose copy is made from where the view lies after the
  buffer has grown.

## The runs

All passing runs end and none has a state constraint. `patch_batches` uses symmetry
(the two workers, and the two plan objects, are interchangeable, and it checks no
liveness). The state counts are of TLC 2.19.

| Run | States | Properties | What it shows |
|---|---|---|---|
| `arena` | 10,819 | `HeldSpansKeepTheirBytes`, `CeilingOrFlag`, `NestedBudgetsOnlyTighten` | Spans stay true through growth, appends of a view of the arena itself, padding at the 32-bit edge and every order of budgets. |
| `pipeline` | 76,730 | `SpansResolve`, `IndexFresh`, `AllOrNothing`, `ImplementsDocument` | A store is filled, edited by two buffers, committed and compacted, and is always one abstract document that changes in whole steps, on full arenas too. |
| `ceilings` | 71,088 | `CeilingsHold`, `RefusalSticks`, `LookupsExact` | Ceilings on entries and bytes lowered at any moment, of the store and of a buffer; index searches against the plain set they should return. |
| `editing` | 258,816 | `ImplementsLists`, `RootsWellFormed`, `XmpNeverMisses`, `BlameIsRight`, `AddedComeLast` | Requests of up to three operations, by field, by key or by XMP structure, one after the other on five stores: what the operations would do to a list one by one, or nothing. |
| `ifd_traversal` | 224,904 | `DecodedOnce`, `LinksFollowed`, `DecodersAgree`, `EveryDecodeEnds` | Both decoders on files with circles, shared and dangling directories, at every ceiling, with arrays of pointers above the limit on values, and with failing reads. |
| `atomic_file` | 612,507 | `NeverTorn`, `CleansUp`, `ImplementsSlot`, `EveryCallEnds` | Two replacements of one path, one crash or power failure, one change by another program; names left by a dead process do not stop a call from ending. |
| `persist_transfer` | 4,549,248 | `OutputFirst`, `AnswersAreTrue`, `XmpLandsSomewhere`, `OldSidecarYields` | Every request, every way each file operation may end, files that cannot be opened. |
| `patch_batches` | 344,649 | `HandlesJudgedRight`, `PayloadsKeepTheirShape`, `ImplementsForms` | Two workers, plans of one or two slots of all three families that reuse objects and ids; batches of two with repeated slots and stale handles, values read out of the other worker, epoch wrap. |
| `random_access` | 390,309 | `ViewsAreTrue`, `CeilingsHold`, `FirstFailureSticks`, `ReadAheadIsFree` | A window that outlives operations and is lent to sub-readers. |
| `snapshot_read` | 35,521 | `CeilingsAreCumulativeElsewhere`, `FailuresAreReported`, `NothingGoesUncounted` | One budget over phases, blocks and nested operations. |
| `snapshot_read_embedded` | violated | `CeilingsAreCumulative` | The first finding below. |
| `add_occurrence` | violated | `AddIgnoresOccurrence` | The second finding below. |

`pipeline`, `atomic_file` and `random_access` check the type invariant of their
module as well.

### Bounds, and why they are enough

- `ArenaUse`: `OffsetMax = 8` with alignments up to 4: the padded end of an
  allocation passes the largest offset though start and size alone do not, which
  the check must catch. Four spans held, so that a view in the middle of the arena
  can be appended between others.
- `MetaStore` `pipeline`: `OffsetMax = 9`. The one entry takes three bytes of
  key and value and one of wire type name, a new value three: one edit fits, two
  are refused half way through `commit()`, compaction makes room again. Two
  buffers with two operations in all give every order; targets 0 and 1 cover an
  entry there is, one that exists only after a commit, and one that does not.
  No blocks: `ceilings` has them.
- `ceilings`: no ceiling at first, then 2 entries, 3 bytes, and 1 byte for a
  buffer, given at any time; each is met in `add_entry()`, `add_block()`,
  `reserve()`, `commit()` and `compact()`. Two entries of four requests in two
  blocks: equal and different keys, a tombstone, an empty block and a block never
  declared.
- `MetadataEditing`: requests of up to three operations by name or by key, for
  operations that meet what two earlier ones did, and of up to two on XMP
  structures, each of which may expand to several by key. Five stores to begin
  with: as decoded (a tombstone with the highest index, orders out of id order),
  one of structures, an untidy one (a field twice, an order at the limit, index
  0, a name that is also a prefix), one that has refused something and one that
  is not finalized; further calls start from what the ones before left, up to
  three operations in all (`MaxOps`). `IndexMax = 4`, `OrderMax = 9` and `IdMax = 7` are small
  enough to be passed, and so are the ceilings `MaxOperations = 3`,
  `MaxEntries = 6`, `MaxXmpOperations = 2`, `MaxScopeEntries = 5` and
  `MaxExpanded = 4`.
- `IfdTraversal`: five directories in a file of size 6, which is enough for a
  circle through the chain, one through pointers, a directory named three times,
  and a SubIFD that is also in the chain. The visited table and the stack hold 4
  (256 in the code), 3 pointers of a tag are read (32), the host has room for 3
  references: each is met. Four sets of options: none met, `max_ifds` of 2 with
  pointer tags dropped and scratch for one pointer, `max_total_entries` of 3 with
  scratch for two, and `max_value_bytes` of two pointers, so that an array of three
  is left unread without a word and one of two is reported.
  Failing reads are mapped to one status.
- `AtomicFile`: two writers of one process number: either threads at once, or a
  process and the next one with its number after a crash. Two pieces per file,
  the least that can be torn. `MaxAttempts` is 128 in the code and 2 here: the
  loop's first, middle and last turn exist; one crash leaves one name of a dead process in
  the way.
- `PersistTransfer` has no constants: all of `Request` is enumerated. Files that
  cannot be opened appear under two of the paths (`Lockable`), one at which an old
  sidecar is looked for and the one beside the output, which covers what is done
  with them; the theorems have the same bound.
- `RandomAccess`: a source of 3 bytes, storage of 2, offsets and sizes up to 2,
  so that requests exceed the storage, the range and the source; counters of 3
  and 4 wrap. Limits none, or all three ceilings at once with different ones
  meeting first.
- `SnapshotRead`: operations nested 4 deep (snapshot, scanner, preview, one
  more), two blocks, six requests.
- `MetadataPatch`: `EpochSpan = 3` wraps at the third call; a batch of two meets
  a duplicate, a late refusal and a value read out of the other worker. `MaxSlots =
  2` bounds the slots of all preparations and those of all instances: two
  preparations of one slot, with handles and instances of both, or one of two
  slots in different families; two ids and two plan objects are reused after a
  reset or a move.

### Deadlock

Deadlock is checked except where the system ends: in `AtomicFile` each writer
calls once, in `PersistTransfer` there is one transfer, in `SnapshotRead` one
snapshot (and `MaxAsked` bounds the reads).

### Fairness

`AtomicFile` has `WF_vars(Step(w))` for each call. A thread inside the
function is scheduled by the operating system and no step waits for another
call. Not assumed: that a process starts (`Begin`), that the directory is ever
flushed, or anything about `Fail`, crashes and other programs. The retry of a
call interrupted by a signal (`EINTR`) is left out; with it, ending would need
the assumption that signals stop.

`IfdTraversal` has weak fairness of the two decoding calls: each is a loop of one
thread that waits for nothing. Which of its steps comes is the file's and the
callback's choice; `EveryDecodeEnds` holds for each.

### What the properties say

Each property has a comment in its module. The ones a reader should start with:

- `ImplementsDocument`: whatever arenas, ids, flags and half copies do, there is
  a document of plain values that `commit()` and `compact()` change in one step
  or not at all. This is where a span that was not copied, a buffer applied out
  of order, a refusal that leaks part of a commit, or a byte order flag kept for
  a value of the other order would show.
- `ImplementsSlot`: replacing a file is one exchange, and the answer says
  whether it happened. The durable file may lag behind `Ok`: the code syncs the
  file but not the directory. So `Ok` means atomic, not durable.
- `ImplementsForms`: a batch takes effect as a whole when its last check passes,
  whatever is checked later or earlier and whoever patches beside it.
- `ImplementsLists`: the editing calls find entries once, predict the ids of what
  they add, and record one batch; the outcome is nevertheless that each
  operation saw the ones before it. A wrong prediction, a list not kept up to
  date, or a refusal after the first operations took effect would show.
- `RootsWellFormed`: an XMP root that a request touches has one shape afterwards,
  whatever the order of the operations, though shapes are only compared at the
  end of the call and only for the roots it names.
- `DecodersAgree`: the two TIFF decoders push directories in a different order
  (one follows the chain before the entries, the other after), and still give
  the same directories in the same order under the same numbers. The two
  exceptions it names are real, see below.
- `AnswersAreTrue`: `Ok` from a transfer means that the output is in place, that a
  sidecar made for it is beside it, and that the old sidecar it was to remove is
  gone. The two exceptions are the code's: `path_exists()` opens the file, so one
  that cannot be opened counts as missing, and what another program puts there
  after the transfer has looked (`late`) is not seen.
- `ViewsAreTrue`: a view is the source's bytes at its place for every history of
  the window.
- `CeilingsAreCumulativeElsewhere`, `NothingGoesUncounted`: the budget of the
  documentation, over every nesting.

## What is proved

| Module | Theorem | States |
|---|---|---|
| `MetaStore_proofs` | `ArenaSafe`, `CeilingAlwaysOrFlag`, `BudgetsAlwaysTighten` | of `ArenaUse`: `HeldSpansKeepTheirBytes`, `CeilingOrFlag`, `NestedBudgetsOnlyTighten` |
| | `TypeCorrect`, `SpansAlwaysResolve`, `CeilingsAlwaysHold`, `CallsAreAllOrNothing`, `RefusalsAreNeverForgotten`, `IndicesStayFresh` | `TypeOK`, `SpansResolve`, `CeilingsHold`, `AllOrNothing`, `RefusalSticks`, `IndexFresh` |
| | `LookupsAreAlwaysExact`, `DocumentIsImplemented` | `LookupsExact`, `ImplementsDocument` |
| `AtomicFile_proofs` | `TypeCorrect`, `NeverTornAlways`, `CleansUpAlways`, `SlotIsImplemented` | `TypeOK`, `NeverTorn`, `CleansUp`, `ImplementsSlot` |
| | `TransferTypeCorrect`, `OutputAlwaysFirst`, `AnswersAreAlwaysTrue`, `XmpAlwaysLands`, `OldSidecarAlwaysYields` | of `PersistTransfer`: `TransferTypeOK`, `OutputFirst`, `AnswersAreTrue`, `XmpLandsSomewhere`, `OldSidecarYields` |
| `RandomAccess_proofs` | `TypeCorrect`, `ViewsAreAlwaysTrue`, `CeilingsAlwaysHold`, `FirstFailureAlwaysSticks`, `ReadAheadIsAlwaysFree` | `TypeOK`, `ViewsAreTrue`, `CeilingsHold`, `FirstFailureSticks`, `ReadAheadIsFree` |
| `SnapshotRead_proofs` | `CeilingsAreAlwaysCumulative`, `FailuresAreAlwaysReported`, `NothingEverGoesUncounted` | `CeilingsAreCumulativeElsewhere`, `FailuresAreReported`, `NothingGoesUncounted` |
| `IfdTraversal_proofs` | `EachIsDecodedOnce`, `NothingIsLost` | `DecodedOnce`, `LinksFollowed` |
| `MetadataEditing_proofs` | `ListsAreImplemented`, `RootsStayWellFormed`, `XmpNeverEverMisses`, `BlameIsAlwaysRight`, `AddedAlwaysComeLast`, `HostStaysRight` | `ImplementsLists`, `RootsWellFormed`, `XmpNeverMisses`, `BlameIsRight`, `AddedComeLast`, and the invariant behind them |
| `MetadataPatch_proofs` | `HandlesAlwaysJudgedRight`, `PayloadsAlwaysKeepTheirShape`, `PatchesAreAtomic` | `HandlesJudgedRight`, `PayloadsKeepTheirShape`, `ImplementsForms` |

All hold for every value of the constants that satisfies the named `ASSUME`s of
the modules: any number of buffers, writers, processes, any widths and ceilings,
any source, any nesting, any file. TLC evaluates every `ASSUME` in a run. The
assumptions say what the callers in the repository guarantee and nothing of how
large anything is; the strongest are that a key and a value given to a store have
the texts and the payload of their kind and nothing else (`HasItsTexts`,
`HasItsPayload`: the constructors in `meta_key.cc` and `meta_value.cc` make no
others), that the slots of a layout do not overlap (`Apart`), and that the
descriptors of the logical fields name different properties
(`EditingAssumption`; a table in `metadata_logical_field_internal.cc`).
`HostAssumption` gives stores and requests the fields of their types, and keeps
`max_entries`, which has 32 bits, within the numbers an order can count; what a
store holds is left open: keys met twice, structures in two shapes, blocks that
are not declared.

Several of these facts are about what a loop computes for every length of its
input. The library states induction with an operator as a parameter, which the
installed provers cannot instantiate. `Induction` in the modules that need it
says the same of a *set* of numbers, which they can, and is proved from the
strict subsets of a finite set being well-founded; the set is then "the lengths
for which the claim holds". Loops are recursive functions for that reason.

### The arguments

**Arena.** `MetaStore_proofs` first states what each method returns once
(`AppendExact`, `ViewAppended`, `AllocateExact`: the arena that results extends the old one, the
span lies in it and reads as the bytes given, and the ceiling rule is kept).
`ArenaSafe` follows, since an extension keeps what every old span reads as.

**Store.** The invariant is of *stores* rather than of the variables:
`Sound(s)` says that a store is well typed, that every span of every entry lies
in the store's own arena, and that ceilings hold or the flag is up. Every
operation on a store is shown once to give a store that *follows*
(`Follows(s, t) == Sound(t) /\ Tightens(s, t)`), and relations compose. Around
it the inductive invariant has one conjunct per variable: the edit buffers'
spans lie in the buffer's arena (`EditsOK`), the local copy of a call is sound
and follows from the store (`JobOK`, `CopyOK`), what was returned is finished
or is the base with the flag (`ReturnedOK`). `IndicesStayFresh` needs one more
invariant, that a finalized store's entries and the bytes under them no longer
change though its arena may grow: an index is a function of rows, and rows
read the same through a longer arena.

**Lookups.** `LookupsAreAlwaysExact` compares what the two searches return with
the plain set of live entries, in order. For blocks: the rows are sorted by
block, origin order and id, so those of one block are one interval, whose ends
`BlockSpans` holds, and keep the order asked for. For keys: views are compared by a
total order (shown field by field, texts by induction on their length), the sort
puts equal keys next to one another, the runs built from them have strictly
ascending keys, and the binary search keeps "what I look for is between the
ends", by induction on their distance. That a key in the arena and the view of
it compare alike is what carries this to spans.

**Document.** `DocumentIsImplemented` shows that every step of `MetaStore` is a
step of `MetadataDocument` or none, under the mapping of `MetaStoreRefinement`.
Arenas only extend while they are in use, so what has been put reads as it was
given, in the store, in a buffer and in the copy, unless the flag of the arena
says that a span was refused. The invariant `DocInv` says this for what is
recorded (the spans of an operation lie in its buffer's arena, and before the
store is finalized the arenas of the buffers are empty) and for a call in
progress: the list that a commit's local copy stands for is the base's after the
first `Done` operations of the joined drafts, and that of a compaction is what
was living among the entries passed so far. So the last step of the call is the whole of
the abstract one, the steps before it are none, and an arena that refuses
anywhere between leaves the base with the flag. That the drafts joined are the
buffers replayed in order is an induction over their number.

**Atomic file.** `NeverTorn` is not inductive: it says nothing of a temporary
file that is about to be exchanged. `Inv` adds that a call in progress owns its
inode and name (`Owns`), that nobody else ever writes to it (`Written`), that
past the write loop it is complete *and synced* (`Ready`; without the sync a
power failure could shorten it), and that under the path, in the directory and
on the disk, there are only inodes of calls that came that far (`Published`).

`SlotIsImplemented` shows that every step is one of `FileSlot` or none. What the
path shows is a function of the directory and of who wrote what is under it:
since nothing is torn (`NeverTorn`), writing to an inode never changes it, so
only `rename()`, `link()`, other programs and what a power failure brings back
can. The exchange of the abstract specification is the step that renames or
links, and the answer is the last step of the call, however many temporary names
it tried and removed in between. `ModeFits` adds that only a call that must not
replace answers that the file exists, and only one that may, that the target is
unsafe.

**Transfer.** What was done to the disk is one of four histories: nothing, the
output, the output and a sidecar, the output and a removal. `StageInv` says
which are possible at which stage, of the stage before the return also that the old
sidecar is gone or was put back (`late`), and `Coherent` what every preparation comes
to: a sidecar is made only where one is wanted, an old one is to go only where
none is, and XMP that an edited image does not hold has a sidecar to go to. With these the four properties
follow for every request and every order of failures; other programs change
files, but neither the history nor the decision.

**Random access.** `WindowTrue` says that a valid window's storage holds the
bytes of its range *relative to the reader's present range*; lending and giving
back reset it, which is why the theorem survives sub-readers. `CeilingsHold` is
inductive with the bounds of the counters' widths.

**Snapshot reading.** The operations under way form a stack, each with a state
of its own that starts from zero. `Sums` says that there are marks in what was
asked for in all such that each operation counts what came between two of them,
up to the width of its counter; merging joins two neighbours, and saturating
sums join to one. `Within` says that each was given what its caller had left,
which was something; so the last one's rest is the rest of all, and a ceiling
that the first one has is never passed. It needs the check of the budget before
every start, and fails exactly where the code leaves it out (`embedded`).
`Reported` carries the failure: only the current operation can have one, and it
is the first.

**Editing.** The calls search the store once, keep lists beside it and record
one buffer, so everything rests on one relation: `Edited(s, edits, es, ...)` says
that `es` are the entries to which the recorded operations lead, that what was in
the store keeps its place, key, block and order, and that the counts of the answer
count. `Do` of a recorded operation carries it on (`EditedLists_proofs`, with all that a single operation by field or
by key does), which is where a predicted id
must be the one that `commit()` gives. What a call keeps is tied to `es`: a list of
ids to the places of the living entries of its field or key (`Tracks`), the writers
to the operation that wrote each entry last (`Answered`), and the list of an XMP
edit to what lives under the roots of the request (`StateIs`), each of which is in
one shape with every key once (`WellFormed`). `CallIs` puts these together by
stage, and `HostInv` adds the three properties of an answer that are invariants.
Each of its steps is of one of five kinds (asked, dismissed, gone on,
refused, accepted); each kind is shown once to keep the invariant and to be a step
of the lists, and each action of each call to be of a kind.

An XMP edit hands its expansion to the edit by key. `Leads` says that the expanded
operations lead from list to list with one outcome each, so the inner call can
neither miss an entry nor find two (`XmpNeverMisses`), and what it leaves is what
the structures say. That it may still be refused for its size gives the operation
to blame by who expanded it.

`ListsAreImplemented` compares the entries with what `EditedLists` allows after
each operation (`Reached`). An addition to a list gets a number that no entry has,
but not always the same one in both, since the abstract list leaves it open; so
the outcomes of a prefix are shown to be alike but for those numbers (`Alike`), and
a refusal for want of a target to be one in all of them. The functions over
operations are taken from any list rather than from the variable (`AfterFrom`),
which lets the step be an induction over their number.

**TIFF directories.** `DecodedOnce` needs the visited table: the invariant
`WalkInv` says that everything given out is in the table under its kind, and that
one offset is given out twice as GPS and Interop directory only. The table never
forgets and is filled before a directory is opened, so neither the order of the
stack nor a failing read can bring one back.

`LinksFollowed` is the other half: what a directory names is decoded, unless the
decoder says why not. `FollowInv` carries it from the read to the end: what
leads somewhere in a directory that was given out whole is queued or already
visited, and what was visited was read and, if it was whole, given out. The
loops over entries and over the pointers of one tag gain tasks and never lose
one (`Gains`, by induction over the entries), and where the stack is full or a
pointer cannot be read the state says that the call was cut short (`Uncut`),
which the property excepts. An array that the callback decoder leaves unread for
`max_value_bytes` gives no tasks and leaves no mark; `Links` does not count what it
names. The file is revealed as it is read and is never read differently
later, so the two halves speak of the same file.

**Prepared patches.** That a handle is judged right depends on where ids come
from. `Related` says that plans and instances with the same id are of the same
preparation and have the same slots, and that a handle still held shares its id
with exactly those of its own preparation; the host's rule for reusing ids
(`Fresh`) is what keeps it. Of a call, `Stamped` says that exactly the slots its
checks have passed carry the present epoch, for which every stamp must be at
most the epoch: incrementing it, or clearing all stamps as it wraps, then makes
none equal to it. `Passed` carries what was checked of an update to its write:
nobody patches what a call reads (`Readable`), and what it reads from its own
instance is empty and stays so. From that the written bytes are as many as the
slot is wide, and the payload keeps its shape.

`PatchesAreAtomic` maps an instance to the form of its fields as they *will* be,
with the writes that are pending: the batch takes effect when its last check
passes, and the writes that follow are no step of the form. Writing a slot
takes it out of what is pending and puts the same bytes into the payload; every
other slot reads as before, since slots lie apart (`Apart`) and those that passed
the checks are of different slots (`Once`, from the stamps). That what is written
consists of bytes (`Written`) needs that escaped text does, an induction over
its length.

### Only model-checked

- `EveryCallEnds`, `EveryDecodeEnds`: liveness is out of TLAPS's reach.
- `DecodersAgree`: it relates two runs whose stacks differ in order, so a proof
  needs a simulation between them rather than an invariant of one.
- `TypeOK` of `MetadataPatch`, `ArenaUse` and `SnapshotRead` is stated for the
  reader; of these only the parts that other proofs need are proved.

## What the checks found

**The ceiling of a RAF or X3F snapshot may be exceeded**
(`snapshot_read_embedded`). After the native decode of RAF and X3F,
`src/openmeta/metadata_transfer.cc:18549` starts the container scan with what is
left of the limits and without `require_random_access_budget()`, which every
other phase calls first. When the decoder has used a ceiling exactly, what is
left is 0, and 0 means *no ceiling* to the scan.
`docs/random_access_input.md:298` says that ceilings are cumulative across all
phases. The run's trace is one of these two: a ceiling of two requests, or one of
three bytes, which a native decode uses up exactly; a scan that then reads once
more. For every other format the property holds
(`CeilingsAreCumulativeElsewhere`).

**An addition by field is refused for its occurrence** (`add_occurrence`).
`src/include/openmeta/metadata_editing.h:41` says "Add ignores occurrence and appends
a repeated field or creates an absent singleton".
`src/openmeta/metadata_editing.cc:397` refuses an addition whose occurrence is not 0
with `InvalidOccurrence`. `EditedLists` says what the header says, and names this
refusal as the one exception (`Unheeded`); without it `ImplementsLists` fails too.

**Two documents disagree about the flags of a typed Set.**
`src/include/openmeta/metadata_editing.h:199` says that it "retains entry identity,
source block/order and flags"; `docs/translation.md:2049` says that it clears
`ValueBigEndian`, and so does the code (`src/openmeta/meta_edit.cc:267`), which also
sets `Dirty`. The value is in the byte order of the host then, so the flag has to go.
`EditedLists` follows `docs/translation.md` (`Rewritten`). There is no run for it: one
of the two is violated whatever the code does.

Not disagreements with anything the repository says, but worth knowing:

- The callback decoder of TIFF files does not follow a SubIFDs array of more than
  `max_value_bytes` (16 MiB by default; `src/openmeta/exif_tiff_decode.cc:7164`). The
  status stays `Ok` and `complete()` true, and only the entry is marked as truncated,
  if it is kept; MakerNotes in the same case are reported as a residual (7294-7306).
  The decoder with the bytes at hand follows the array. `LinksFollowed` and
  `DecodersAgree` except this, and say so in their comments.
- A destination sidecar that cannot be opened is not removed though the result is
  `Ok`, since `path_exists()` takes it for missing.
- Entry ids recorded in an edit buffer name other entries after a `compact()`;
  buffers should be dropped when a compacted store is adopted.
- `Ok` from a replacement is not durable: the directory is not synced.
- A sidecar that another program changes between the preparation of a transfer
  and its persisting is overwritten, if overwriting is allowed.
- Where a file names one directory twice by SubIFDs tags, the two TIFF decoders
  may number it differently (`subifd0` or `subifd1`): the one with the bytes and
  the one with the callback meet the two names in a different order. No doc says
  that the numbers agree. `DecodersAgree` says nothing of such numbers.
- A chain of directories ends at one that a SubIFDs tag has named before: it is
  visited, and its own link is followed only if it is met as part of the chain.
- Of a tag with more than 32 pointers the rest is ignored and not reported.
- A process that dies leaves its temporary file; nothing removes it later.

The proof of `ListsAreImplemented` found the abstract specification wrong where
TLC's stores could not show it: `EditedLists` kept the byte order flag of a value
that an edit by key replaces, where `commit()` clears it, and let a single value be set or removed
under the number that stands for all occurrences. The specification was corrected.

## What is not modelled

- The Windows branch of the atomic replacement, and the `EINTR` loops.
- What decoders, serializers and translations make of bytes: tables and formats
  rather than protocols. Modelled is how they use budgets, windows and stores.
- In `PersistTransfer`: the edit of the image, C2PA staging and the DNG target
  modes (a branch that may fail), the merge of an existing sidecar's content; two
  spellings of one path (the paths to write and to remove are compared as strings).
- In `MetadataPatch`: the updates to several places inside one payload, and
  replay, which only reads; the layout of slots is any layout of disjoint slots
  that fit.
- In `MetadataEditing`: invalid options and a missing output, which refuse before
  anything else; the sizes of texts; how paths are parsed and values converted.
- In `IfdTraversal`: values, and what nested decoders (makernotes, PrintIM,
  GeoTIFF, private tables) add; tags with a huge count; a store that begins to refuse entries in the middle of a directory,
  which shows as the `LimitExceeded` that `Finish` may answer.
- In `RandomAccess`: null arguments and invalid descriptors, folded into the
  check of the range.
- Pure I/O (mapping files), host adapters, bindings and tools.

## Plan

Done, in this order: arena and store with its edit pipeline and abstract
document; atomic replacement and persistence; random access and snapshot
reading; prepared patches; field editing and authoring; the traversal of TIFF
directories; the refinements of `FileSlot`, of the forms and of the document,
the budget of snapshots, lookups, the transfer, the links of TIFF directories and
the editing calls proved.
Next:

1. `PreparedHandoff` (`metadata_transfer.cc`): ownership of payloads handed to a
   host, order of replay.
2. `ContainerWalk` (`container_scan.cc`, `container_payload.cc`): bounded box
   walks; reassembly of split payloads against a reference definition.
3. The choice among several candidates in reconciliation and translation, as
   pure operators against a reference definition.
4. `SnapshotFile` (`metadata_snapshot_io.cc`): what is read back is what was
   written, or nothing.
5. `BoxTree` (`bmff_fields_decode.cc`, `jumbf_decode.cc`): limits on depth and
   count over nested boxes, as `IfdTraversal` does for directories.

Proofs: `DecodersAgree`, by a simulation between the two decoders that relates
their stacks directory by directory.
