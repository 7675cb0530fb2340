----------------------------- MODULE IfdTraversal -----------------------------
(***************************************************************************)
(* How the directories (IFDs) of a TIFF file are found and decoded         *)
(* (openmeta/exif_tiff_decode.cc).  Directories name one another by        *)
(* offsets, in a chain and by pointer tags, and a file may name one twice, *)
(* make a circle or point anywhere.  Two decoders walk it: one has the     *)
(* bytes (decode_exif_tiff_contiguous), the other reads them through a     *)
(* callback that may fail (decode_exif_tiff_random_access).  They share    *)
(* most helpers but do their work in a different order.                    *)
(*                                                                         *)
(* A host decodes one file with both, one after the other.  An offset is   *)
(* a directory's name; what is there is chosen when it is first read.      *)
(***************************************************************************)
EXTENDS SequencesExt, Integers

CONSTANTS Size,       \* the file's: offsets from here on are outside it
          Contents,   \* [Offsets -> what may be there]
          Headers,    \* what the header may be: "Good", "Short" or "Foreign"
          Firsts,     \* the offsets it may give of the first directory
          OptionSets, \* the options of a host
          Capacity,   \* 256: size of the stack of tasks and of the visited table
          PointerCap, \* 32: pointers read of one entry
          Room,       \* references the host's out_ifds takes
          Failures    \* the statuses that failed reads are mapped to

Decoders == {"Span", "Callback"}
Kinds == {"Ifd", "ExifIfd", "GpsIfd", "InteropIfd", "SubIfd"}
Offsets == 1..(Size - 1)
Torn == -1    \* a next-IFD field that does not fit in the file

\* The kinds that pointer tags lead to.  "RawSub" is a SubIFDs tag with one
\* pointer that leads to the pixels of a Sony A100.
KindOf == [Exif |-> "ExifIfd", Gps |-> "GpsIfd", Interop |-> "InteropIfd",
           Sub |-> "SubIfd", RawSub |-> "SubIfd"]
PointerTags == DOMAIN KindOf

\* An entry of any other tag is "Other", of a type of no known size "Alien", with
\* its value outside the file "Bad".
Entry == [tag : PointerTags \cup {"Other", "Alien", "Bad"}, ptrs : Seq(0..Size)]

\* "Stub": the file ends in the number of entries; "Cut": it ends in the table;
\* "Long": more than max_entries_per_ifd.
Directory == [shape : {"Whole", "Stub", "Cut", "Long"}, entries : Seq(Entry),
              next : 0..Size \cup {Torn}]

\* max_ifds, max_total_entries, include_pointer_tags; and in pointers, what
\* max_value_bytes allows and what the callback decoder's scratch can hold.
Options == [ifds : Nat, total : Nat, keep : {"keep", "drop"}, value : Nat, scratch : Nat]

ASSUME SizesAssumption == Size \in Nat /\ Capacity \in Nat /\ PointerCap \in Nat /\ Room \in Nat
ASSUME FilesAssumption ==
    /\ \A o \in Offsets : Contents[o] \subseteq Directory
    /\ Headers \subseteq {"Good", "Short", "Foreign"} /\ Firsts \subseteq 0..Size
    /\ OptionSets \subseteq Options
    /\ Failures \subseteq {"LimitExceeded", "OutputTruncated", "Malformed"}

VARIABLES file,    \* the file as far as it was read
          options, \* of the host
          dec,     \* [Decoders -> its tasks, counters and result]
          visited, \* [Decoders -> [Offsets -> the kinds an IFD was taken as]]
          decoded  \* [Decoders -> the references it gave out (out_ifds)]

vars == <<file, options, dec, visited, decoded>>

Unread == [shape |-> "Unread"]

Idle == [at |-> "idle", tasks |-> <<>>, subs |-> 0, entries |-> 0,
         status |-> "Ok", input |-> "Ok", needed |-> 0]

Init == /\ \E h \in Headers, f \in Firsts :
               file = [header |-> h, first |-> f, ifds |-> [o \in Offsets |-> Unread]]
        /\ options \in OptionSets
        /\ dec = [d \in Decoders |-> Idle]
        /\ visited = [d \in Decoders |-> [o \in Offsets |-> {}]]
        /\ decoded = [d \in Decoders |-> <<>>]

-----------------------------------------------------------------------------
\* update_status() and mark_limit_exceeded(): the worst thing met stands.
Rank == [Ok |-> 0, OutputTruncated |-> 1, Unsupported |-> 2, Malformed |-> 3,
         LimitExceeded |-> 4]
Mark(s, status) == [s EXCEPT !.status = IF Rank[@] >= Rank[status] THEN @ ELSE status]

\* select_next_task_index()
Priority == [ExifIfd |-> 5, InteropIfd |-> 4, GpsIfd |-> 3, SubIfd |-> 2, Ifd |-> 1]
Before(t, u) == \/ Priority[t.kind] > Priority[u.kind]
                \/ Priority[t.kind] = Priority[u.kind] /\ t.offset < u.offset
Best_BySeniority(tasks) == 1                                      \* mutant

Best(tasks) ==
    CHOOSE i \in DOMAIN tasks :
        \A j \in DOMAIN tasks : ~Before(tasks[j], tasks[i])
                                /\ (j < i => Before(tasks[i], tasks[j]))

Without_Shrinking(tasks, i) == [tasks EXCEPT ![i] = tasks[Len(tasks)]]  \* mutant
Without_Swapping(tasks, i) == SubSeq(tasks, 1, Len(tasks) - 1)    \* mutant

\* The last task takes the place of the one that is taken.
Without(tasks, i) ==
    SubSeq([tasks EXCEPT ![i] = tasks[Len(tasks)]], 1, Len(tasks) - 1)

Task(s) == s.tasks[Best(s.tasks)]
Taken(s) == [s EXCEPT !.tasks = Without(@, Best(@))]

\* find_visited(), allow_revisit_kind()
Pair == {"GpsIfd", "InteropIfd"}
Allowed_EveryKind(kinds, kind) == kind \notin kinds               \* mutant

Allowed(kinds, kind) == \/ kinds = {}
                        \/ kind \in Pair /\ kinds = Pair \ {kind}

Visit(d, t) == visited' = [visited EXCEPT ![d][t.offset] = @ \cup {t.kind}]
TableIsFull(d, t) ==
    /\ visited[d][t.offset] = {}
    /\ Cardinality({o \in Offsets : visited[d][o] # {}}) >= Capacity

-----------------------------------------------------------------------------
Queue(s, t) ==
    IF Len(s.tasks) < Capacity /\ Len(s.tasks) < options.ifds
    THEN [s EXCEPT !.tasks = Append(@, t)]
    ELSE Mark(s, "LimitExceeded")

QueueSub(s, offset) ==
    IF Len(s.tasks) < Capacity /\ Len(s.tasks) < options.ifds
    THEN [s EXCEPT !.tasks = Append(@, [kind |-> "SubIfd", index |-> s.subs, offset |-> offset]),
                   !.subs = @ + 1]
    ELSE Mark(s, "LimitExceeded")

\* The loop over the pointers of a SubIFDs entry.
QueueSubs(s, offsets) ==
    LET after[n \in 0..Len(offsets)] ==
            IF n = 0 THEN s ELSE QueueSub(after[n - 1], offsets[n])
    IN  after[Len(offsets)]

\* decode_u32_or_u64_offset()
Pointers(e) == SubSeq(e.ptrs, 1, IF Len(e.ptrs) < PointerCap THEN Len(e.ptrs) ELSE PointerCap)

\* follow_ifd_pointers(), with the test for an A100
IsLink(t, e) ==
    /\ e.tag \in PointerTags
    /\ ~(e.tag = "RawSub" /\ t.kind = "Ifd" /\ t.index = 0)
FollowPointers(s, t, e) ==
    IF ~IsLink(t, e) THEN s
    ELSE IF Len(s.tasks) >= options.ifds THEN Mark(s, "LimitExceeded")
    ELSE IF KindOf[e.tag] = "SubIfd" THEN QueueSubs(s, Pointers(e))
    ELSE IF e.ptrs = <<>> THEN s
    ELSE Queue(s, [kind |-> KindOf[e.tag], index |-> 0, offset |-> e.ptrs[1]])

\* Several pointers are a value out of line, which the callback decoder must
\* read into its scratch (source_tiff_value).  One above max_value_bytes it does
\* not even try to read; the contiguous decoder reads pointers of any number.
Oversized(d, e) == d = "Callback" /\ Len(e.ptrs) > 1 /\ Len(e.ptrs) > options.value
TooLong(d, e) == d = "Callback" /\ Len(e.ptrs) > 1 /\ Len(e.ptrs) > options.scratch
Unfetched(s, e) ==
    [Mark(s, "OutputTruncated") EXCEPT !.needed = IF @ < Len(e.ptrs) THEN Len(e.ptrs) ELSE @]

Stored(s, e) ==
    IF e.tag \in PointerTags /\ options.keep = "drop" THEN s
    ELSE [s EXCEPT !.entries = @ + 1]

\* One turn of the loop over entries.
Handle(d, t, s, e) ==
    CASE e.tag = "Alien" -> s
      [] e.tag = "Bad" -> Mark(s, "Malformed")
      [] OTHER -> Stored(IF Oversized(d, e) THEN s
                         ELSE IF TooLong(d, e) THEN Unfetched(s, e)
                         ELSE FollowPointers(s, t, e), e)

Entries(d, t, s, entries) ==
    LET after[n \in 0..Len(entries)] ==
            IF n = 0 THEN s ELSE Handle(d, t, after[n - 1], entries[n])
    IN  after[Len(entries)]

FollowNext(s, t, ifd) ==
    IF t.kind # "Ifd" \/ ifd.next = 0 THEN s
    ELSE IF ifd.next = Torn THEN Mark(s, "Malformed")
    ELSE Queue(s, [kind |-> "Ifd", index |-> t.index + 1, offset |-> ifd.next])

\* sink_emit()
Emitted(d, s) ==
    IF Room > 0 /\ Len(decoded[d]) >= Room THEN Mark(s, "OutputTruncated") ELSE s

TooMany(s, ifd) == s.entries + Len(ifd.entries) > options.total

\* The contiguous decoder looks for the next directory first of all, the other
\* decoder last of all.
DecodedBySpan(s, t, ifd) ==
    LET r == FollowNext(s, t, ifd)
    IN  IF TooMany(s, ifd) THEN Mark(r, "LimitExceeded")
        ELSE Entries("Span", t, Emitted("Span", r), ifd.entries)

DecodedByCallback(s, t, ifd) ==
    IF TooMany(s, ifd) THEN Mark(s, "LimitExceeded")
    ELSE FollowNext(Entries("Callback", t, Emitted("Callback", s), ifd.entries), t, ifd)

\* map_source_failure(): no further directory is taken.
Failed(s, status) == [Mark(s, status) EXCEPT !.input = "Failed"]
Broken(s, status) == [Failed(s, status) EXCEPT !.at = "break"]

\* A read outside the file is a failed read to the callback decoder.
DecodedIfd(d, s, t, ifd) ==
    CASE ifd.shape = "Stub" ->
            IF d = "Span" THEN Mark(s, "Malformed") ELSE Broken(s, "Malformed")
      [] ifd.shape = "Cut" -> Mark(s, "Malformed")
      [] ifd.shape = "Long" -> Mark(s, "LimitExceeded")
      [] OTHER -> IF d = "Span" THEN DecodedBySpan(s, t, ifd) ELSE DecodedByCallback(s, t, ifd)

-----------------------------------------------------------------------------
Become(d, s) == dec' = [dec EXCEPT ![d] = s]
End(s, status) == [Mark(s, status) EXCEPT !.at = "done"]

\* The host calls one decoder, and the other when it has its result.  Its store
\* may be full already.
Begin(d) ==
    /\ dec[d].at = "idle"
    /\ d = "Callback" => dec["Span"].at = "done"
    /\ \/ Become(d, End(dec[d], "LimitExceeded"))
       \/ /\ file.header = "Short"
          /\ Become(d, End(dec[d], "Malformed"))
       \/ /\ file.header = "Foreign"
          /\ Become(d, End(dec[d], "Unsupported"))
       \/ /\ file.header = "Good" /\ file.first >= Size
          /\ Become(d, End(dec[d], "Malformed"))
       \/ /\ file.header = "Good" /\ file.first < Size
          /\ Become(d, [dec[d] EXCEPT !.at = "loop", !.tasks =
                           IF file.first = 0 THEN <<>>
                           ELSE <<[kind |-> "Ifd", index |-> 0, offset |-> file.first]>>])
    /\ UNCHANGED <<file, options, visited, decoded>>

\* The header cannot be read.
BeginFails ==
    /\ dec["Callback"].at = "idle" /\ dec["Span"].at = "done" /\ file.header # "Short"
    /\ \E status \in Failures :
           Become("Callback", [Failed(dec["Callback"], status) EXCEPT !.at = "done"])
    /\ UNCHANGED <<file, options, visited, decoded>>

Looping(d) == dec[d].at = "loop" /\ dec[d].tasks # <<>>
Fresh(d, t) == t.offset \in Offsets /\ Allowed(visited[d][t.offset], t.kind)

\* A task that leads nowhere, or where the decoder has been.
Skip(d) ==
    /\ Looping(d) /\ ~Fresh(d, Task(dec[d]))
    /\ Become(d, Taken(dec[d]))
    /\ UNCHANGED <<file, options, visited, decoded>>

\* The visited table or the ceiling of directories ends the loop.
Refuse(d) ==
    /\ Looping(d) /\ Fresh(d, Task(dec[d]))
    /\ Become(d, [Mark(Taken(dec[d]), "LimitExceeded") EXCEPT !.at = "break"])
    /\ \/ TableIsFull(d, Task(dec[d])) /\ UNCHANGED visited
       \/ /\ ~TableIsFull(d, Task(dec[d])) /\ Len(decoded[d]) >= options.ifds
          /\ Visit(d, Task(dec[d]))
    /\ UNCHANGED <<file, options, decoded>>

MayOpen(d, t) ==
    /\ Looping(d) /\ Fresh(d, t)
    /\ ~TableIsFull(d, t) /\ Len(decoded[d]) < options.ifds

\* What may be at an offset, or what was there when it was read before.
Held(o) == IF file.ifds[o] = Unread THEN Contents[o] ELSE {file.ifds[o]}
Read(o, ifd) == file' = [file EXCEPT !.ifds[o] = ifd]

Emits(s, ifd) == ifd.shape = "Whole" /\ ~TooMany(s, ifd)
Emit(d, t) == decoded' = [decoded EXCEPT ![d] = Append(@, t)]

OpenTask(d, t) ==
    /\ MayOpen(d, t)
    /\ Visit(d, t)
    /\ \E ifd \in Held(t.offset) :
          /\ Read(t.offset, ifd)
          /\ Become(d, DecodedIfd(d, Taken(dec[d]), t, ifd))
          /\ IF Emits(dec[d], ifd) THEN Emit(d, t) ELSE UNCHANGED decoded
    /\ UNCHANGED options

Open(d) == OpenTask(d, Task(dec[d]))

\* A read of the callback decoder fails: of the number of entries, or of
\* something after the first n of them.  An entry whose value cannot be read is
\* stored without it.
StoredAlone(s, entries, n) ==
    {Stored(s, entries[k]) : k \in {k \in DOMAIN entries :
                                      k = n + 1 /\ entries[k].tag \notin {"Alien", "Bad"}}}

OpenTaskFails(t) ==
    /\ MayOpen("Callback", t)
    /\ Visit("Callback", t)
    /\ LET s == Taken(dec["Callback"])
       IN  \/ /\ \E status \in Failures : Become("Callback", Broken(s, status))
              /\ UNCHANGED <<file, decoded>>
           \/ \E ifd \in Held(t.offset) :
                 /\ Read(t.offset, ifd)
                 /\ Emits(s, ifd) /\ Emit("Callback", t)
                 /\ \E n \in 0..Len(ifd.entries), status \in Failures :
                       LET r == Entries("Callback", t, Emitted("Callback", s),
                                        SubSeq(ifd.entries, 1, n))
                       IN  \E q \in {r} \cup StoredAlone(r, ifd.entries, n) :
                               Become("Callback", Broken(q, status))
    /\ UNCHANGED options

OpenFails == OpenTaskFails(Task(dec["Callback"]))

\* After the loop: the store may have refused something.
Finish(d) ==
    /\ dec[d].at = "break" \/ (dec[d].at = "loop" /\ dec[d].tasks = <<>>)
    /\ \E status \in {"Ok", "LimitExceeded"} : Become(d, End(dec[d], status))
    /\ UNCHANGED <<file, options, visited, decoded>>

Walk(d) == Skip(d) \/ Refuse(d) \/ Open(d)
Calls(d) == Begin(d) \/ Walk(d) \/ Finish(d)

\* When both have returned the host has what it wanted.
Done == /\ \A d \in Decoders : dec[d].at = "done"
        /\ UNCHANGED vars

Next == (\E d \in Decoders : Calls(d)) \/ BeginFails \/ OpenFails \/ Done

\* Both calls are loops of one thread that wait for nothing.
Fairness == WF_vars(\E d \in Decoders : Calls(d))
Spec == Init /\ [][Next]_vars /\ Fairness

-----------------------------------------------------------------------------
\* A directory is decoded once, however often and as whatever the file names it;
\* but one that is named as GPS and as Interop directory is decoded as both
\* (allow_revisit_kind).
DecodedOnce ==
    \A d \in Decoders :
        LET refs == decoded[d]
        IN  \A i, j \in DOMAIN refs :
                i < j /\ refs[i].offset = refs[j].offset
                    => {refs[i].kind, refs[j].kind} = Pair

\* Nothing is reported to be cut short: no ceiling, no failed read, no value that
\* the scratch was too small for.
Complete(d) ==
    /\ dec[d].at = "done" /\ dec[d].status # "LimitExceeded"
    /\ dec[d].input = "Ok" /\ dec[d].needed = 0

\* The offsets that an entry, and a directory, decoded as it was, tells to go on
\* to.
EntryLinks(ref, e) ==
    IF ~IsLink(ref, e) THEN {}
    ELSE IF KindOf[e.tag] = "SubIfd" THEN Range(Pointers(e))
    ELSE {e.ptrs[k] : k \in (DOMAIN e.ptrs) \cap {1}}

\* What the decoder knows of it: nothing of pointers that it did not read for
\* max_value_bytes.
KnownLinks(d, ref, e) == IF Oversized(d, e) THEN {} ELSE EntryLinks(ref, e)
Links(d, ref) ==
    LET ifd == file.ifds[ref.offset]
    IN  (UNION {KnownLinks(d, ref, e) : e \in Range(ifd.entries)})
        \cup (IF ref.kind = "Ifd" THEN {ifd.next} ELSE {})

DecodedAt(d, o) == \E i \in DOMAIN decoded[d] : decoded[d][i].offset = o

\* A call that reports nothing as cut short has decoded the first directory and
\* everything that what it decoded leads to: taking tasks out of the middle of the
\* stack, their order, and skipping what was visited lose nothing.  What is lost
\* without a word are directories that only an array of pointers above
\* max_value_bytes names, and only by the callback decoder.
LinksFollowed ==
    \A d \in Decoders :
        Complete(d) /\ file.header = "Good" =>
            \A o \in Offsets :
                /\ o = file.first \/ \E i \in DOMAIN decoded[d] : o \in Links(d, decoded[d][i])
                /\ file.ifds[o].shape = "Whole"
                => DecodedAt(d, o)

\* What SubIFDs tags name, all of them one after the other.
SubPointers(ref) ==
    LET es == file.ifds[ref.offset].entries
    IN  FlattenSeq([j \in DOMAIN es |->
            IF IsLink(ref, es[j]) /\ KindOf[es[j].tag] = "SubIfd" THEN Pointers(es[j]) ELSE <<>>])
NamedOnce(refs, o) ==
    LET all == FlattenSeq([i \in DOMAIN refs |-> SubPointers(refs[i])])
    IN  Cardinality({k \in DOMAIN all : all[k] = o}) < 2

\* No decoded directory has an array of pointers that the callback decoder did
\* not read for max_value_bytes.
AllLinksKnown ==
    \A i \in DOMAIN decoded["Callback"] :
        LET ref == decoded["Callback"][i]
        IN  \A e \in Range(file.ifds[ref.offset].entries) :
                KnownLinks("Callback", ref, e) = EntryLinks(ref, e)

\* Two calls that are not cut short agree on the directories, their order and
\* kinds, the entries and the status; and on their numbers (ifd1, subifd0, ...),
\* unless SubIFDs tags name the directory twice.  They may differ where the
\* callback decoder left an array of pointers unread.
DecodersAgree ==
    (\A d \in Decoders : Complete(d)) /\ AllLinksKnown =>
        LET span == dec["Span"]
            callback == dec["Callback"]
        IN  /\ Len(decoded["Span"]) = Len(decoded["Callback"])
            /\ span.entries = callback.entries /\ span.status = callback.status
            /\ \A i \in DOMAIN decoded["Span"] :
                  LET r == decoded["Span"][i]
                      q == decoded["Callback"][i]
                  IN  /\ r.kind = q.kind /\ r.offset = q.offset
                      /\ r.index = q.index \/ ~NamedOnce(decoded["Span"], r.offset)

\* Whatever the file, both calls return.
EveryDecodeEnds == <>(\A d \in Decoders : dec[d].at = "done")
=============================================================================
