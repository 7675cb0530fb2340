----------------------------- MODULE RandomAccess -----------------------------
(***************************************************************************)
(* The bounded reads of random_access_source.cc: exact reads and views of  *)
(* a range of a source, a caller's window that caches and reads ahead, the *)
(* ceilings on what one operation may ask for and its sticky first         *)
(* failure.  A byte of the source is named by its place in the source.     *)
(*                                                                         *)
(* The window outlives operations, and a decoder may lend its storage to a *)
(* reader of a sub-range, as exif_makernote_fujifilm.cc does.              *)
(***************************************************************************)
EXTENDS ReadLimits, Sequences

CONSTANTS SourceSize,    \* bytes of the source
          StorageSize,   \* bytes of the caller's window
          Minimums,      \* read-ahead policies: minimum_read_bytes
          MaxOffset,     \* offsets and sizes asked for: bound of the model
          IoAnswers      \* what a callback may answer

ASSUME SizesAssumption == /\ SourceSize \in Nat /\ StorageSize \in Nat
                          /\ MaxOffset \in Nat /\ Minimums \subseteq Nat
ASSUME IoAnswersAssumption ==
    IoAnswers \subseteq {"Ok", "IoError", "SourceChanged", "Cancelled", "Unknown"}

Stale == SourceSize                       \* what a cell of the storage held before
Cell == 0..SourceSize
Ranges == [offset : 0..SourceSize, size : 0..SourceSize]
Window == [at : 0..SourceSize, len : 0..StorageSize, valid : BOOLEAN]
ResetWindow == [at |-> 0, len |-> 0, valid |-> FALSE]
NoLender == [offset |-> 0, size |-> 0]
SourceBytes(at, n) == [i \in 1..n |-> at + i - 1]
NoCall == [call |-> "none", at |-> 0, size |-> 0, code |-> "Ok", bytes |-> SourceBytes(0, 0)]

VARIABLES memory,     \* the source is contiguous memory, not a callback
          limits,     \* RandomAccessReadLimits of the operation
          range,      \* RandomAccessSourceRange of the reader
          lender,     \* the range of the reader whose storage is lent, or NoLender
          window,     \* RandomAccessReadWindow without its storage
          storage,    \* the window's storage
          state,      \* RandomAccessReadState
          asked,      \* what this operation really asked of the source
          last        \* the last call and its answer

vars == <<memory, limits, range, lender, window, storage, state, asked, last>>

Init == /\ memory \in BOOLEAN /\ limits \in Limits
        /\ range \in Ranges
        /\ lender = NoLender
        /\ window = ResetWindow
        /\ storage = [i \in 1..StorageSize |-> Stale]
        /\ state = FreshState
        /\ asked = [requests |-> 0, bytes |-> 0]
        /\ last = NoCall

-----------------------------------------------------------------------------
RangeValid(r) == r.offset <= SourceSize /\ r.size <= SourceSize - r.offset
InRange(r, offset, n) == offset <= r.size /\ n <= r.size - offset

\* Why random_access_read_exact() refuses before it touches the source, or "Ok".
Refusal_ForgetsFailure(s, offset, n) ==                          \* mutant
    IF ~RangeValid(range) THEN "InvalidArgument"
    ELSE IF ~InRange(range, offset, n) THEN "OutOfRange"
    ELSE IF n = 0 THEN "Ok"
    ELSE LimitRefusal(s, limits, n)

Refusal(s, offset, n) ==
    IF s.code # "Ok" THEN s.code
    ELSE IF s.completed > s.requested \/ ~RangeValid(range) THEN "InvalidArgument"
    ELSE IF ~InRange(range, offset, n) THEN "OutOfRange"
    ELSE IF n = 0 THEN "Ok"
    ELSE LimitRefusal(s, limits, n)

\* The source is asked for n bytes; a callback that fails may have overwritten
\* any part of the destination, here its first k bytes.
Ask(n, k) ==
    /\ asked' = [requests |-> asked.requests + 1, bytes |-> asked.bytes + n]
    /\ \E io \in IF memory THEN {"Ok"} ELSE IoAnswers,
          read \in IF memory THEN {n} ELSE 0..n + 1 :
          state' = Settle(Count(state, n), n, io, read)
    /\ state'.code = "Ok" => k = n

Answer(call, offset, n, code, bytes) ==
    last' = [call |-> call, at |-> offset, size |-> n, code |-> code, bytes |-> bytes]

Refuse(call, offset, n, code) ==
    /\ state' = Fail(state, code)
    /\ Answer(call, offset, n, code, <<>>)
    /\ UNCHANGED asked

-----------------------------------------------------------------------------
\* random_access_read_exact() into a buffer of the caller's own.
ReadExact(offset, n) ==
    LET refusal == Refusal(state, offset, n)
    IN  /\ \/ refusal # "Ok" /\ Refuse("exact", offset, n, refusal)
           \/ /\ refusal = "Ok" /\ n = 0
              /\ Answer("exact", offset, n, "Ok", SourceBytes(range.offset + offset, n))
              /\ UNCHANGED <<state, asked>>
           \/ /\ refusal = "Ok" /\ n > 0
              /\ Ask(n, n)
              /\ Answer("exact", offset, n, state'.code,
                        IF state'.code = "Ok" THEN SourceBytes(range.offset + offset, n) ELSE <<>>)
        /\ UNCHANGED <<memory, limits, range, lender, window, storage>>

\* n bytes of the storage after the first skip.
Cut(cells, skip, n) == SubSeq(cells, skip + 1, skip + n)

Cached(offset, n) == /\ window.valid /\ offset >= window.at
                     /\ offset - window.at <= window.len
                     /\ n <= window.len - (offset - window.at)

Least(a, b) == IF a <= b THEN a ELSE b

\* How much a refill asks for: the minimum, within the storage, the range, the
\* largest single read and what is left of the byte budget.
FetchBytes_NoStorageClamp(offset, n, minimum) ==                 \* mutant
    LET ahead == IF n < minimum THEN minimum ELSE n
        ranged == Least(ahead, range.size - offset)
        single == IF limits.single = 0 THEN ranged ELSE Least(ranged, limits.single)
    IN  IF limits.total # 0 /\ state.requested < limits.total
        THEN Least(single, limits.total - state.requested) ELSE single

FetchBytes_NoBudgetClamp(offset, n, minimum) ==                  \* mutant
    LET ahead == IF n < minimum THEN minimum ELSE n
        ranged == Least(Least(ahead, StorageSize), range.size - offset)
    IN  IF limits.single = 0 THEN ranged ELSE Least(ranged, limits.single)

FetchBytes(offset, n, minimum) ==
    LET ahead == IF n < minimum THEN minimum ELSE n
        ranged == Least(Least(ahead, StorageSize), range.size - offset)
        single == IF limits.single = 0 THEN ranged ELSE Least(ranged, limits.single)
    IN  IF limits.total # 0 /\ state.requested < limits.total
        THEN Least(single, limits.total - state.requested) ELSE single

\* The window is forgotten first: a failed refill has already spoilt its storage.
Refill(offset, n, fetch) ==
    LET refusal == Refusal(state, offset, fetch)
    IN  \/ /\ refusal # "Ok" /\ Refuse("view", offset, n, refusal)
           /\ window' = ResetWindow /\ UNCHANGED storage
        \/ /\ refusal = "Ok"
           /\ \E k \in 0..fetch :
                /\ Ask(fetch, k)
                /\ storage' = [i \in 1..StorageSize |->
                                  IF i <= k THEN range.offset + offset + i - 1 ELSE storage[i]]
           /\ window' = IF state'.code = "Ok" THEN [at |-> offset, len |-> fetch, valid |-> TRUE]
                        ELSE ResetWindow
           /\ Answer("view", offset, n, state'.code,
                     IF state'.code = "Ok" THEN Cut(storage', 0, n) ELSE <<>>)

\* Why random_access_read_view() refuses before it looks at the window, or "Ok".
ViewRefusal(offset, n) ==
    IF state.code # "Ok" THEN state.code
    ELSE IF ~RangeValid(range) THEN "InvalidArgument"
    ELSE IF ~InRange(range, offset, n) THEN "OutOfRange"
    ELSE IF ~memory /\ n > StorageSize THEN "ScratchTooSmall"
    ELSE "Ok"

\* random_access_read_view()
ReadView(offset, n, minimum) ==
    LET refusal == ViewRefusal(offset, n)
        fetch == FetchBytes(offset, n, minimum)
    IN  /\ \/ /\ refusal # "Ok" /\ Refuse("view", offset, n, refusal)
              /\ UNCHANGED <<window, storage>>
           \/ /\ refusal = "Ok" /\ (memory \/ n = 0)
              /\ Answer("view", offset, n, "Ok", SourceBytes(range.offset + offset, n))
              /\ UNCHANGED <<window, storage, state, asked>>
           \/ /\ refusal = "Ok" /\ ~memory /\ n > 0 /\ Cached(offset, n)
              /\ Answer("view", offset, n, "Ok",
                        Cut(storage, offset - window.at, n))
              /\ UNCHANGED <<window, storage, state, asked>>
           \/ /\ refusal = "Ok" /\ ~memory /\ n > 0 /\ ~Cached(offset, n) /\ fetch < n
              /\ Refuse("view", offset, n, "ByteLimitExceeded")
              /\ UNCHANGED <<window, storage>>
           \/ /\ refusal = "Ok" /\ ~memory /\ n > 0 /\ ~Cached(offset, n) /\ fetch >= n
              /\ Refill(offset, n, fetch)
        /\ UNCHANGED <<memory, limits, range, lender>>

-----------------------------------------------------------------------------
\* The next operation has a state of its own and may keep the window.
NewOperation ==
    /\ lender = NoLender
    /\ limits' \in Limits
    /\ state' = FreshState
    /\ asked' = [requests |-> 0, bytes |-> 0]
    /\ last' = NoCall
    /\ UNCHANGED <<memory, range, lender, window, storage>>

\* make_source_subreader(): a reader of a part of the range, with the storage,
\* the limits and the state of the lender and a window of its own.
Lend(offset, size) ==
    /\ lender = NoLender /\ range # NoLender /\ RangeValid(range) /\ InRange(range, offset, size)
    /\ lender' = range
    /\ range' = [offset |-> range.offset + offset, size |-> size]
    /\ window' = ResetWindow
    /\ last' = NoCall
    /\ UNCHANGED <<memory, limits, storage, state, asked>>

\* The lender forgets its window: the storage holds another range's bytes.
GiveBack_KeepsWindow ==                                          \* mutant
    /\ lender # NoLender
    /\ range' = lender /\ lender' = NoLender
    /\ last' = NoCall
    /\ UNCHANGED <<memory, limits, window, storage, state, asked>>

GiveBack ==
    /\ lender # NoLender
    /\ range' = lender /\ lender' = NoLender
    /\ window' = ResetWindow
    /\ last' = NoCall
    /\ UNCHANGED <<memory, limits, storage, state, asked>>

Next == \/ \E offset, n \in 0..MaxOffset :
              \/ ReadExact(offset, n)
              \/ \E minimum \in Minimums : ReadView(offset, n, minimum)
        \/ \E offset, size \in 0..SourceSize : Lend(offset, size)
        \/ NewOperation
        \/ GiveBack

Spec == Init /\ [][Next]_vars

-----------------------------------------------------------------------------
TypeOK == /\ memory \in BOOLEAN /\ limits \in Limits
          /\ range \in Ranges /\ lender \in Ranges
          /\ window \in Window
          /\ storage \in [1..StorageSize -> Cell]
          /\ state \in ReadState
          /\ asked \in [requests : Nat, bytes : Nat]
          /\ last.code \in Codes

\* An answer Ok always comes with the very bytes the source has at that place
\* of the reader's range: whatever was cached, for another offset, by an earlier
\* operation, by a refill that failed halfway or through another range.
ViewsAreTrue == last.code = "Ok" =>
                    last.bytes = SourceBytes(range.offset + last.at, last.size)

\* The counters say what was really asked of the source, and no operation asks
\* for more than its ceilings allow, read-ahead included; nor do they wrap.
CeilingsHold ==
    /\ state.requests = asked.requests /\ state.requested = asked.bytes
    /\ state.completed <= state.requested
    /\ limits.requests # 0 => asked.requests <= limits.requests
    /\ limits.total # 0 => asked.bytes <= limits.total

\* After its first failure an operation asks nothing more of the source, and
\* goes on answering that failure until a new operation starts.
FirstFailureSticks ==
    [][state.code # "Ok" => \/ state' = state /\ asked' = asked /\ (last' = NoCall \/ last'.code = state.code)
                            \/ state' = FreshState /\ last' = NoCall]_vars

\* Reading ahead never makes a view fail that the bytes alone would not have
\* failed for: refused for its size or budget, a plain read is refused as well.
ReadAheadIsFree ==
    [][/\ state.code = "Ok" /\ limits.total # 0
       /\ last'.call = "view" /\ last'.code \in Refusals
       => Refusal(state, last'.at, last'.size) # "Ok"]_vars
=============================================================================
