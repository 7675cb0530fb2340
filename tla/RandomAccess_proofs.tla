-------------------------- MODULE RandomAccess_proofs --------------------------
(***************************************************************************)
(* For any source, window, ceilings and read-ahead policy: a view shows    *)
(* the bytes of its place in the source, the ceilings hold, the first      *)
(* failure sticks and reading ahead never costs a view its answer.         *)
(*                                                                         *)
(* The argument: while the window is valid its storage holds the source's  *)
(* bytes from the window's place on, because it is forgotten before the    *)
(* storage is spoilt and when the storage comes back from another range.   *)
(***************************************************************************)
EXTENDS RandomAccess, SequenceTheorems, TLAPS

\* The first len cells of the storage hold the source's bytes from base on.
Holds(s, len, base) == \A i \in 1..len : s[i] = base + i - 1

\* What the window promises of the storage.
WindowTrue == window.valid =>
    /\ RangeValid(range) /\ window.at + window.len <= range.size
    /\ Holds(storage, window.len, range.offset + window.at)

Inv == TypeOK /\ WindowTrue /\ ViewsAreTrue /\ CeilingsHold

-----------------------------------------------------------------------------
\* The guards keep the counters within their widths.
LEMMA NoWrap == ASSUME NEW a \in Nat, NEW b \in Nat, a <= b PROVE a % (b + 1) = a
  BY SMT

\* Failing changes nothing but the code, and only the first time.
LEMMA Failing ==
    ASSUME NEW s \in ReadState, NEW code \in Codes
    PROVE  /\ Fail(s, code) \in ReadState
           /\ Fail(s, code).requests = s.requests /\ Fail(s, code).requested = s.requested
           /\ Fail(s, code).completed = s.completed
           /\ s.code # "Ok" => Fail(s, code) = s
           /\ s.code = "Ok" => Fail(s, code).code = code
  BY DEF Fail, ReadState

\* A read within the ceilings is counted as it is.
LEMMA Counting ==
    ASSUME NEW s \in ReadState, NEW l \in Limits, NEW n \in Nat, LimitRefusal(s, l, n) = "Ok"
    PROVE  /\ Count(s, n) \in ReadState
           /\ Count(s, n).code = s.code /\ Count(s, n).completed = s.completed
           /\ Count(s, n).requests = s.requests + 1
           /\ Count(s, n).requested = s.requested + n
           /\ l.requests # 0 => s.requests + 1 <= l.requests
           /\ l.total # 0 => s.requested + n <= l.total
<1>1. s.requests \in 0..Max32 /\ s.requested \in 0..Max64 BY DEF ReadState
<1>2. /\ s.requests # Max32 /\ ~(n > Max64 - s.requested)
      /\ ~(l.requests # 0 /\ s.requests >= l.requests)
      /\ ~(l.total # 0 /\ s.requested + n > l.total)
  BY DEF LimitRefusal
<1>3. l.requests \in Nat /\ l.total \in Nat
  BY LimitsAssumption, MaximaAssumption
<1>4. /\ s.requests + 1 <= Max32 /\ s.requested + n <= Max64
      /\ s.requests + 1 \in Nat /\ s.requested + n \in Nat
  BY <1>1, <1>2, MaximaAssumption
<1>5. (s.requests + 1) % (Max32 + 1) = s.requests + 1
  BY <1>4, NoWrap, MaximaAssumption
<1>6. (s.requested + n) % (Max64 + 1) = s.requested + n
  BY <1>4, NoWrap, MaximaAssumption
<1> QED BY <1>1, <1>2, <1>3, <1>4, <1>5, <1>6, MaximaAssumption DEF Count, ReadState

IoKnown == {"Ok", "IoError", "SourceChanged", "Cancelled", "Unknown"}

\* The answer of the source changes only the code and the bytes completed, which
\* stay within what was requested, and is never a refusal.
LEMMA Settling ==
    ASSUME NEW s \in ReadState, NEW n \in Nat, NEW io \in IoKnown, NEW read \in Nat,
           s.code = "Ok", s.completed + n <= s.requested
    PROVE  /\ Settle(s, n, io, read) \in ReadState
           /\ Settle(s, n, io, read).requests = s.requests
           /\ Settle(s, n, io, read).requested = s.requested
           /\ Settle(s, n, io, read).completed <= s.requested
           /\ Settle(s, n, io, read).code \notin Refusals
<1>0. s.completed \in 0..Max64 /\ s.requested \in 0..Max64 BY DEF ReadState
<1>1. CASE io = "Unknown" \/ read > n
  BY <1>1, <1>0, Failing DEF Settle, Codes, Failures, Refusals
<1>2. CASE io # "Unknown" /\ read <= n
  <2>1. s.completed + read <= Max64 /\ s.completed + read \in Nat
    BY <1>0, <1>2, MaximaAssumption
  <2>2. (s.completed + read) % (Max64 + 1) = s.completed + read
    BY <2>1, NoWrap, MaximaAssumption
  <2>3. PICK c : c = [s EXCEPT !.completed = s.completed + read] OBVIOUS
  <2>4. /\ c \in ReadState /\ c.code = "Ok" /\ c.requests = s.requests
        /\ c.requested = s.requested /\ c.completed = s.completed + read
    BY <2>1, <2>3, <1>0, MaximaAssumption DEF ReadState
  <2>5. Settle(s, n, io, read) = IF io # "Ok" THEN Fail(c, io)
                                 ELSE IF read # n THEN Fail(c, "ShortRead") ELSE c
    BY <1>2, <1>0, <2>2, <2>3 DEF Settle
  <2>6. io # "Ok" => io \in Codes /\ io \notin Refusals
    BY <1>2 DEF IoKnown, Codes, Failures, Refusals
  <2>7. "ShortRead" \in Codes /\ "ShortRead" \notin Refusals /\ "Ok" \notin Refusals
    BY DEF Codes, Failures, Refusals
  <2>8. c.completed <= s.requested BY <2>4, <1>0, <1>2
  <2> QED BY <2>4, <2>5, <2>6, <2>7, <2>8, Failing
<1> QED BY <1>0, <1>1, <1>2

\* The bytes of a place, cut out of a longer run of right bytes.
LEMMA Cutting ==
    ASSUME NEW s \in [1..StorageSize -> Cell], NEW len \in 0..StorageSize, NEW base \in Nat,
           Holds(s, len, base), NEW n \in Nat, NEW skip \in Nat, skip + n <= len
    PROVE  Cut(s, skip, n) = SourceBytes(base + skip, n)
<1>1. s \in Seq(Cell) /\ Len(s) = StorageSize BY SizesAssumption
<1>2. PICK t : t = SubSeq(s, skip + 1, skip + n) OBVIOUS
<1>3. skip + 1 \in 1..Len(s) + 1 /\ skip + n \in (skip + 1) - 1..Len(s)
  BY <1>1, SizesAssumption
<1>4. /\ t \in Seq(Cell) /\ Len(t) = (skip + n) - (skip + 1) + 1
      /\ \A i \in 1..(skip + n) - (skip + 1) + 1 : t[i] = s[(skip + 1) + i - 1]
  BY <1>1, <1>2, <1>3, SubSeqProperties
<1>5. Len(t) = n /\ \A i \in 1..n : t[i] = s[skip + i]
  BY <1>4
<1>6. \A i \in 1..n : t[i] = (base + skip) + i - 1
  <2>1. \A i \in 1..n : skip + i \in 1..len BY SizesAssumption
  <2>2. \A i \in 1..n : s[skip + i] = base + (skip + i) - 1 BY <2>1 DEF Holds
  <2> QED BY <1>5, <2>2
<1>7. t = [i \in 1..n |-> t[i]] BY <1>4, <1>5
<1> QED BY <1>2, <1>6, <1>7 DEF SourceBytes, Cut

\* A refill asks for as much as the view needs or is refused; what it asks for
\* fits the storage and the range.
LEMMA Fetching ==
    ASSUME TypeOK, NEW offset \in Nat, NEW n \in Nat, NEW minimum \in Nat,
           RangeValid(range), InRange(range, offset, n)
    PROVE  /\ FetchBytes(offset, n, minimum) \in Nat
           /\ FetchBytes(offset, n, minimum) <= StorageSize
           /\ offset + FetchBytes(offset, n, minimum) <= range.size
<1>1. range.size \in Nat /\ range.offset \in Nat /\ offset <= range.size
  BY SizesAssumption DEF TypeOK, Ranges, InRange
<1>2. limits.single \in Nat /\ limits.total \in Nat /\ state.requested \in Nat
  BY LimitsAssumption, MaximaAssumption DEF TypeOK, ReadState
<1> QED BY <1>1, <1>2, SizesAssumption DEF FetchBytes, Least

-----------------------------------------------------------------------------
\* What asking the source does to the state, and what it is counted as.
LEMMA Asking ==
    ASSUME TypeOK, CeilingsHold, NEW offset \in Nat, NEW n \in Nat, NEW k \in 0..n,
           n > 0, Refusal(state, offset, n) = "Ok", Ask(n, k), UNCHANGED <<memory, limits>>
    PROVE  /\ CeilingsHold' /\ state' \in ReadState
           /\ asked' \in [requests : Nat, bytes : Nat]
           /\ state'.code \notin Refusals
           /\ state'.code = "Ok" => k = n
<1>1. /\ state.code = "Ok" /\ LimitRefusal(state, limits, n) = "Ok"
  BY DEF Refusal, LimitRefusal
<1>2. state \in ReadState /\ limits \in Limits /\ asked \in [requests : Nat, bytes : Nat]
  BY DEF TypeOK
<1>3. PICK c : c = Count(state, n) OBVIOUS
<1>4. /\ c \in ReadState /\ c.code = "Ok" /\ c.completed = state.completed
      /\ c.requests = state.requests + 1 /\ c.requested = state.requested + n
      /\ limits.requests # 0 => state.requests + 1 <= limits.requests
      /\ limits.total # 0 => state.requested + n <= limits.total
  BY <1>1, <1>2, <1>3, Counting
<1>5. PICK io \in IoKnown, read \in Nat : state' = Settle(c, n, io, read)
  <2>1. PICK io \in IF memory THEN {"Ok"} ELSE IoAnswers,
             read \in IF memory THEN {n} ELSE 0..n + 1 : state' = Settle(c, n, io, read)
    BY <1>3 DEF Ask
  <2>2. io \in IoKnown BY <2>1, IoAnswersAssumption DEF IoKnown
  <2>3. read \in Nat BY <2>1
  <2> QED BY <2>1, <2>2, <2>3
<1>6. c.completed + n <= c.requested
  BY <1>2, <1>4, MaximaAssumption DEF CeilingsHold, ReadState
<1>7. /\ state' \in ReadState /\ state'.requests = c.requests
      /\ state'.requested = c.requested /\ state'.completed <= c.requested
      /\ state'.code \notin Refusals
  BY <1>4, <1>5, <1>6, Settling
<1>8. /\ asked'.requests = asked.requests + 1 /\ asked'.bytes = asked.bytes + n
      /\ asked' \in [requests : Nat, bytes : Nat]
  BY <1>2 DEF Ask
<1>9. CeilingsHold'
  BY <1>2, <1>4, <1>7, <1>8 DEF CeilingsHold
<1> QED BY <1>7, <1>8, <1>9 DEF Ask

\* A refusal asks nothing.
LEMMA Refusing ==
    ASSUME TypeOK, CeilingsHold, NEW call, NEW offset, NEW n, NEW code \in Codes, code # "Ok",
           Refuse(call, offset, n, code), UNCHANGED <<memory, limits>>
    PROVE  /\ CeilingsHold' /\ state' \in ReadState /\ asked' = asked
           /\ last'.code = code /\ ViewsAreTrue'
<1>1. state \in ReadState BY DEF TypeOK
<1>2. /\ state' \in ReadState /\ state'.requests = state.requests
      /\ state'.requested = state.requested /\ state'.completed = state.completed
  BY <1>1, Failing DEF Refuse
<1> QED BY <1>2 DEF CeilingsHold, Refuse, Answer, ViewsAreTrue

LEMMA RefusalsAreCodes ==
    ASSUME TypeOK, NEW offset \in Nat, NEW n \in Nat
    PROVE  Refusal(state, offset, n) \in Codes /\ ViewRefusal(offset, n) \in Codes
<1>1. state.code \in Codes BY DEF TypeOK, ReadState
<1>2. {"InvalidArgument", "OutOfRange", "ScratchTooSmall", "Ok", "RequestTooLarge",
       "RequestLimitExceeded", "ByteLimitExceeded"} \subseteq Codes
  BY DEF Codes, Failures, Refusals
<1> QED BY <1>1, <1>2 DEF Refusal, ViewRefusal, LimitRefusal

-----------------------------------------------------------------------------
LEMMA InitInv == Init => Inv
<1> SUFFICES ASSUME Init PROVE Inv OBVIOUS
<1>1. FreshState \in ReadState /\ FreshState.requests = 0 /\ FreshState.requested = 0
      /\ FreshState.completed = 0
  BY MaximaAssumption DEF FreshState, ReadState, Codes
<1>2. storage \in [1..StorageSize -> Cell] BY SizesAssumption DEF Init, Stale, Cell
<1>3. TypeOK
  BY <1>1, <1>2, SizesAssumption
  DEF Init, TypeOK, Ranges, NoLender, Window, ResetWindow, NoCall, Codes
<1>4. WindowTrue BY DEF Init, WindowTrue, ResetWindow
<1>5. ViewsAreTrue
  BY <1>3, SizesAssumption DEF Init, ViewsAreTrue, NoCall, SourceBytes, TypeOK, Ranges
<1>6. CeilingsHold
  <2>1. limits.requests \in Nat /\ limits.total \in Nat
    BY LimitsAssumption, MaximaAssumption DEF Init
  <2> QED BY <1>1, <2>1 DEF Init, CeilingsHold
<1> QED BY <1>3, <1>4, <1>5, <1>6 DEF Inv

LEMMA ReadExactInv ==
    ASSUME Inv, NEW offset \in Nat, NEW n \in Nat, ReadExact(offset, n)
    PROVE  Inv'
<1> DEFINE refusal == Refusal(state, offset, n)
<1>1. /\ UNCHANGED <<memory, limits, range, lender, window, storage>>
      /\ TypeOK /\ CeilingsHold /\ WindowTrue
  BY DEF ReadExact, Inv
<1>2. WindowTrue' BY <1>1 DEF WindowTrue, RangeValid
<1>3. CASE refusal # "Ok" /\ Refuse("exact", offset, n, refusal)
  <2>1. refusal \in Codes BY <1>1, RefusalsAreCodes
  <2>2. /\ CeilingsHold' /\ state' \in ReadState /\ asked' = asked
        /\ last'.code = refusal /\ ViewsAreTrue'
    BY <1>1, <1>3, <2>1, Refusing
  <2>3. TypeOK' BY <1>1, <2>1, <2>2 DEF TypeOK
  <2> QED BY <1>2, <2>2, <2>3 DEF Inv
<1>4. CASE /\ refusal = "Ok" /\ n = 0
           /\ Answer("exact", offset, n, "Ok", SourceBytes(range.offset + offset, n))
           /\ UNCHANGED <<state, asked>>
  <2>1. "Ok" \in Codes BY DEF Codes
  <2>2. TypeOK' BY <1>1, <1>4, <2>1 DEF TypeOK, Answer
  <2>3. ViewsAreTrue' BY <1>1, <1>4 DEF ViewsAreTrue, Answer
  <2>4. CeilingsHold' BY <1>1, <1>4 DEF CeilingsHold
  <2> QED BY <1>2, <2>2, <2>3, <2>4 DEF Inv
<1>5. CASE /\ refusal = "Ok" /\ n > 0
           /\ Ask(n, n)
           /\ Answer("exact", offset, n, state'.code,
                     IF state'.code = "Ok" THEN SourceBytes(range.offset + offset, n) ELSE <<>>)
  <2>1. CeilingsHold' /\ state' \in ReadState /\ asked' \in [requests : Nat, bytes : Nat]
    BY <1>1, <1>5, Asking
  <2>2. state'.code \in Codes BY <2>1 DEF ReadState
  <2>3. TypeOK' BY <1>1, <1>5, <2>1, <2>2 DEF TypeOK, Answer
  <2>4. ViewsAreTrue' BY <1>1, <1>5 DEF ViewsAreTrue, Answer
  <2> QED BY <1>2, <2>1, <2>3, <2>4 DEF Inv
<1> QED BY <1>3, <1>4, <1>5 DEF ReadExact

LEMMA RefillInv ==
    ASSUME Inv, NEW offset \in Nat, NEW n \in Nat, NEW fetch \in Nat,
           RangeValid(range), offset + fetch <= range.size, n <= fetch, n > 0,
           fetch <= StorageSize,
           Refill(offset, n, fetch), UNCHANGED <<memory, limits, range, lender>>
    PROVE  Inv'
<1> DEFINE refusal == Refusal(state, offset, fetch)
<1>0. /\ TypeOK /\ CeilingsHold /\ range \in Ranges /\ lender \in Ranges /\ limits \in Limits
      /\ memory \in BOOLEAN /\ storage \in [1..StorageSize -> Cell]
      /\ range.offset \in Nat /\ range.size \in Nat
  BY SizesAssumption DEF Inv, TypeOK, Ranges
<1>1. ResetWindow \in Window /\ ~ResetWindow.valid
  BY SizesAssumption DEF ResetWindow, Window
<1>2. CASE /\ refusal # "Ok" /\ Refuse("view", offset, n, refusal)
           /\ window' = ResetWindow /\ UNCHANGED storage
  <2>1. refusal \in Codes BY <1>0, RefusalsAreCodes
  <2>2. /\ CeilingsHold' /\ state' \in ReadState /\ asked' = asked
        /\ last'.code = refusal /\ ViewsAreTrue'
    BY <1>0, <1>2, <2>1, Refusing
  <2>3. TypeOK' BY <1>0, <1>1, <1>2, <2>1, <2>2 DEF TypeOK
  <2>4. WindowTrue' BY <1>1, <1>2 DEF WindowTrue
  <2> QED BY <2>2, <2>3, <2>4 DEF Inv
<1>3. ASSUME refusal = "Ok",
             NEW k \in 0..fetch, Ask(fetch, k),
             storage' = [i \in 1..StorageSize |->
                            IF i <= k THEN range.offset + offset + i - 1 ELSE storage[i]],
             window' = IF state'.code = "Ok" THEN [at |-> offset, len |-> fetch, valid |-> TRUE]
                       ELSE ResetWindow,
             Answer("view", offset, n, state'.code,
                    IF state'.code = "Ok" THEN Cut(storage', 0, n) ELSE <<>>)
      PROVE  Inv'
  <2>1. /\ CeilingsHold' /\ state' \in ReadState /\ asked' \in [requests : Nat, bytes : Nat]
        /\ state'.code = "Ok" => k = fetch
    BY <1>0, <1>3, Asking
  <2>2. state'.code \in Codes BY <2>1 DEF ReadState
  <2>3. \A i \in 1..StorageSize : i <= k => range.offset + offset + i - 1 \in Cell
    <3>1. SUFFICES ASSUME NEW i \in 1..StorageSize, i <= k
                   PROVE  range.offset + offset + i - 1 \in Cell
      OBVIOUS
    <3>2. i \in Nat /\ k \in Nat /\ i >= 1 BY SizesAssumption
    <3>3. range.offset + offset + i - 1 <= SourceSize /\ range.offset + offset + i - 1 \in Nat
      BY SMTT(30), <1>0, <3>1, <3>2, SizesAssumption DEF RangeValid
    <3> QED BY <3>3, SizesAssumption DEF Cell
  <2>4. storage' \in [1..StorageSize -> Cell]
    BY <1>0, <1>3, <2>3
  <2>5. window' \in Window
    <3>1. offset \in 0..SourceSize BY <1>0, SizesAssumption DEF RangeValid
    <3>2. [at |-> offset, len |-> fetch, valid |-> TRUE] \in Window
      BY <3>1, SizesAssumption DEF Window
    <3> QED BY <1>1, <1>3, <3>2
  <2>6. TypeOK' BY <1>0, <2>1, <2>2, <2>4, <2>5, <1>3 DEF TypeOK, Answer
  <2>7. state'.code = "Ok" => Holds(storage', fetch, range.offset + offset)
    BY <1>0, <1>3, <2>1, SizesAssumption DEF Holds
  <2>8. WindowTrue'
    BY <1>0, <1>1, <1>3, <2>7 DEF WindowTrue, RangeValid
  <2>9. ViewsAreTrue'
    <3>1. CASE state'.code = "Ok"
      <4>1. PICK base \in Nat : base = range.offset + offset BY <1>0
      <4>2. PICK t \in [1..StorageSize -> Cell] : t = storage' BY <2>4
      <4>3. Holds(t, fetch, base) BY <2>7, <3>1, <4>1, <4>2
      <4>4. fetch \in 0..StorageSize /\ 0 \in Nat /\ 0 + n <= fetch /\ base + 0 = base
        BY SizesAssumption
      <4>5. Cut(t, 0, n) = SourceBytes(base, n)
        <5>1. Cut(t, 0, n) = SourceBytes(base + 0, n) BY <4>3, <4>4, Cutting
        <5> QED BY <4>4, <5>1
      <4> QED BY <1>3, <3>1, <4>1, <4>2, <4>5 DEF ViewsAreTrue, Answer
    <3>2. CASE state'.code # "Ok" BY <1>3, <3>2 DEF ViewsAreTrue, Answer
    <3> QED BY <3>1, <3>2
  <2> QED BY <2>1, <2>6, <2>8, <2>9 DEF Inv
<1> QED BY <1>2, <1>3 DEF Refill

LEMMA ReadViewInv ==
    ASSUME Inv, NEW offset \in Nat, NEW n \in Nat, NEW minimum \in Nat,
           ReadView(offset, n, minimum)
    PROVE  Inv'
<1> DEFINE refusal == ViewRefusal(offset, n)
           fetch == FetchBytes(offset, n, minimum)
<1>1. /\ UNCHANGED <<memory, limits, range, lender>>
      /\ TypeOK /\ CeilingsHold /\ WindowTrue
      /\ range.offset \in Nat /\ range.size \in Nat
      /\ window.at \in Nat /\ window.len \in Nat /\ window.len \in 0..StorageSize
      /\ storage \in [1..StorageSize -> Cell]
  BY SizesAssumption DEF ReadView, Inv, TypeOK, Ranges, Window
<1>2. ASSUME UNCHANGED <<window, storage, state, asked>>, NEW bytes,
             Answer("view", offset, n, "Ok", bytes),
             bytes = SourceBytes(range.offset + offset, n)
      PROVE  Inv'
  <2>1. "Ok" \in Codes BY DEF Codes
  <2>2. TypeOK' BY <1>1, <1>2, <2>1 DEF TypeOK, Answer
  <2>3. ViewsAreTrue' BY <1>1, <1>2 DEF ViewsAreTrue, Answer
  <2>4. CeilingsHold' BY <1>1, <1>2 DEF CeilingsHold
  <2>5. WindowTrue' BY <1>1, <1>2 DEF WindowTrue, RangeValid
  <2> QED BY <2>2, <2>3, <2>4, <2>5 DEF Inv
<1>3. ASSUME NEW code \in Codes, code # "Ok", Refuse("view", offset, n, code),
             UNCHANGED <<window, storage>>
      PROVE  Inv'
  <2>1. /\ CeilingsHold' /\ state' \in ReadState /\ asked' = asked
        /\ last'.code = code /\ ViewsAreTrue'
    BY <1>1, <1>3, Refusing
  <2>2. TypeOK' BY <1>1, <1>3, <2>1 DEF TypeOK
  <2>3. WindowTrue' BY <1>1, <1>3 DEF WindowTrue, RangeValid
  <2> QED BY <2>1, <2>2, <2>3 DEF Inv
<1>4. CASE refusal # "Ok" /\ Refuse("view", offset, n, refusal) /\ UNCHANGED <<window, storage>>
  BY <1>1, <1>3, <1>4, RefusalsAreCodes
<1>5. CASE /\ refusal = "Ok" /\ (memory \/ n = 0)
           /\ Answer("view", offset, n, "Ok", SourceBytes(range.offset + offset, n))
           /\ UNCHANGED <<window, storage, state, asked>>
  BY <1>2, <1>5
<1>6. CASE /\ refusal = "Ok" /\ ~memory /\ n > 0 /\ Cached(offset, n)
           /\ Answer("view", offset, n, "Ok", Cut(storage, offset - window.at, n))
           /\ UNCHANGED <<window, storage, state, asked>>
  <2>1. PICK base \in Nat : base = range.offset + window.at BY <1>1
  <2>2. PICK skip \in Nat : skip = offset - window.at BY <1>1, <1>6 DEF Cached
  <2>3. Holds(storage, window.len, base) BY <1>1, <1>6, <2>1 DEF Cached, WindowTrue
  <2>4. skip + n <= window.len
    <3>1. window.len \in Nat BY <1>1
    <3>2. n <= window.len - skip BY <1>6, <2>2 DEF Cached
    <3> QED BY <3>1, <3>2
  <2>5. Cut(storage, skip, n) = SourceBytes(base + skip, n)
    BY <1>1, <2>3, <2>4, Cutting
  <2>6. base + skip = range.offset + offset
    <3>1. window.at \in Nat /\ range.offset \in Nat BY <1>1
    <3> QED BY <3>1, <2>1, <2>2
  <2> QED BY <1>2, <1>6, <2>2, <2>5, <2>6
<1>7. CASE /\ refusal = "Ok" /\ n > 0 /\ fetch < n
           /\ Refuse("view", offset, n, "ByteLimitExceeded") /\ UNCHANGED <<window, storage>>
  <2>1. "ByteLimitExceeded" \in Codes BY DEF Codes, Failures, Refusals
  <2> QED BY <1>3, <1>7, <2>1
<1>8. CASE /\ refusal = "Ok" /\ n > 0 /\ fetch >= n /\ Refill(offset, n, fetch)
  <2>1. RangeValid(range) /\ InRange(range, offset, n) BY <1>8, <1>1 DEF ViewRefusal
  <2>2. fetch \in Nat /\ fetch <= StorageSize /\ offset + fetch <= range.size
    BY <1>1, <2>1, Fetching
  <2> QED BY <1>1, <1>8, <2>1, <2>2, RefillInv
<1> QED BY <1>4, <1>5, <1>6, <1>7, <1>8 DEF ReadView

\* Changing hands forgets the window; a new operation forgets the counters.
LEMMA HandoverInv ==
    ASSUME Inv, \/ NewOperation \/ GiveBack
                \/ \E offset, size \in 0..SourceSize : Lend(offset, size)
    PROVE  Inv'
<1>0. /\ TypeOK /\ CeilingsHold /\ WindowTrue /\ range \in Ranges /\ lender \in Ranges
  BY DEF Inv, TypeOK
<1>1. /\ ResetWindow \in Window /\ ~ResetWindow.valid
      /\ NoCall.code \in Codes /\ NoCall.code = "Ok"
  BY SizesAssumption DEF ResetWindow, Window, NoCall, Codes
<1>2. ASSUME last' = NoCall, range' \in Ranges PROVE ViewsAreTrue'
  BY <1>2, SizesAssumption DEF ViewsAreTrue, NoCall, SourceBytes, Ranges
<1>3. ASSUME NewOperation PROVE Inv'
  <2>1. /\ FreshState \in ReadState /\ FreshState.requests = 0 /\ FreshState.requested = 0
        /\ FreshState.completed = 0
    BY MaximaAssumption DEF FreshState, ReadState, Codes
  <2>2. limits'.requests \in Nat /\ limits'.total \in Nat
    BY <1>3, LimitsAssumption, MaximaAssumption DEF NewOperation
  <2>3. TypeOK' BY <1>0, <1>1, <1>3, <2>1 DEF NewOperation, TypeOK
  <2>4. WindowTrue' BY <1>0, <1>3 DEF NewOperation, WindowTrue, RangeValid
  <2>5. ViewsAreTrue' BY <1>0, <1>2, <1>3 DEF NewOperation
  <2>6. CeilingsHold' BY <1>3, <2>1, <2>2 DEF NewOperation, CeilingsHold
  <2> QED BY <2>3, <2>4, <2>5, <2>6 DEF Inv
<1>4. ASSUME GiveBack PROVE Inv'
  <2>1. TypeOK' BY <1>0, <1>1, <1>4, SizesAssumption DEF GiveBack, TypeOK, NoLender, Ranges
  <2>2. WindowTrue' BY <1>1, <1>4 DEF GiveBack, WindowTrue
  <2>3. ViewsAreTrue' BY <1>0, <1>2, <1>4 DEF GiveBack
  <2>4. CeilingsHold' BY <1>0, <1>4 DEF GiveBack, CeilingsHold
  <2> QED BY <2>1, <2>2, <2>3, <2>4 DEF Inv
<1>5. ASSUME NEW offset \in 0..SourceSize, NEW size \in 0..SourceSize, Lend(offset, size)
      PROVE  Inv'
  <2>1. range' \in Ranges
    <3>1. /\ range.offset \in Nat /\ range.size \in Nat /\ offset \in Nat /\ size \in Nat
          /\ RangeValid(range) /\ InRange(range, offset, size)
      BY <1>0, <1>5, SizesAssumption DEF Lend, Ranges
    <3>2. range.offset + offset \in 0..SourceSize
      BY <3>1, SizesAssumption DEF RangeValid, InRange
    <3> QED BY <1>5, <3>2 DEF Lend, Ranges
  <2>2. TypeOK' BY <1>0, <1>1, <1>5, <2>1 DEF Lend, TypeOK
  <2>3. WindowTrue' BY <1>1, <1>5 DEF Lend, WindowTrue
  <2>4. ViewsAreTrue' BY <1>2, <1>5, <2>1 DEF Lend
  <2>5. CeilingsHold' BY <1>0, <1>5 DEF Lend, CeilingsHold
  <2> QED BY <2>2, <2>3, <2>4, <2>5 DEF Inv
<1> QED BY <1>3, <1>4, <1>5

\* The reads of Next are given natural offsets, sizes and policies.
LEMMA StepInv == Inv /\ [Next]_vars => Inv'
<1> SUFFICES ASSUME Inv, [Next]_vars PROVE Inv' OBVIOUS
<1>1. ASSUME NEW offset \in 0..MaxOffset, NEW n \in 0..MaxOffset,
             \/ ReadExact(offset, n)
             \/ \E minimum \in Minimums : ReadView(offset, n, minimum)
      PROVE  Inv'
  <2>1. offset \in Nat /\ n \in Nat BY SizesAssumption
  <2>2. \A minimum \in Minimums : minimum \in Nat BY SizesAssumption
  <2> QED BY <1>1, <2>1, <2>2, ReadExactInv, ReadViewInv
<1>2. CASE UNCHANGED vars
  BY <1>2 DEF vars, Inv, TypeOK, WindowTrue, ViewsAreTrue, CeilingsHold, RangeValid
<1> QED BY <1>1, <1>2, HandoverInv DEF Next

LEMMA InvHolds == Spec => []Inv
  BY InitInv, StepInv, PTL DEF Spec

-----------------------------------------------------------------------------
\* An operation that failed answers its failure again and asks nothing.
LEMMA FailedStep ==
    ASSUME Inv, Next, state.code # "Ok"
    PROVE  \/ state' = state /\ asked' = asked /\ (last' = NoCall \/ last'.code = state.code)
           \/ state' = FreshState /\ last' = NoCall
<1>1. state \in ReadState /\ state.code \in Codes BY DEF Inv, TypeOK, ReadState
<1>2. ASSUME NEW call, NEW offset, NEW n, Refuse(call, offset, n, state.code)
      PROVE  state' = state /\ asked' = asked /\ last'.code = state.code
  BY <1>1, <1>2, Failing DEF Refuse, Answer
<1>3. ASSUME NEW offset, NEW n, ReadExact(offset, n)
      PROVE  state' = state /\ asked' = asked /\ last'.code = state.code
  <2>1. Refusal(state, offset, n) = state.code BY DEF Refusal
  <2> QED BY <1>2, <1>3, <2>1 DEF ReadExact
<1>4. ASSUME NEW offset, NEW n, NEW minimum, ReadView(offset, n, minimum)
      PROVE  state' = state /\ asked' = asked /\ last'.code = state.code
  <2>1. ViewRefusal(offset, n) = state.code BY DEF ViewRefusal
  <2> QED BY <1>2, <1>4, <2>1 DEF ReadView
<1> QED BY <1>3, <1>4 DEF Next, Lend, NewOperation, GiveBack

\* A view that the ceilings refuse is one whose bytes alone they refuse: the
\* refill never asks for more than the ceilings leave unless the view does.
LEMMA RefusedView ==
    ASSUME Inv, NEW offset \in Nat, NEW n \in Nat, NEW minimum \in Nat,
           ReadView(offset, n, minimum),
           state.code = "Ok", limits.total # 0, last'.code \in Refusals
    PROVE  Refusal(state, offset, n) # "Ok"
<1> DEFINE fetch == FetchBytes(offset, n, minimum)
<1>1. /\ TypeOK /\ CeilingsHold /\ state \in ReadState /\ limits \in Limits
      /\ UNCHANGED <<memory, limits>>
  BY DEF Inv, TypeOK, ReadView
<1>2. /\ limits.total \in 0..Max64 /\ limits.single \in 0..Max64 /\ limits.requests \in Nat
      /\ state.requested \in 0..Max64 /\ state.completed \in Nat /\ state.requests \in Nat
      /\ range.size \in Nat
  <2>1. limits \in [requests : 0..Max32, total : 0..Max64, single : 0..Max64]
    BY <1>1, LimitsAssumption
  <2>2. limits.total \in 0..Max64 /\ limits.single \in 0..Max64 /\ limits.requests \in 0..Max32
    BY <2>1
  <2>3. /\ state.requested \in 0..Max64 /\ state.completed \in 0..Max64
        /\ state.requests \in 0..Max32
    BY <1>1 DEF ReadState
  <2>4. range.size \in Nat BY <1>1, SizesAssumption DEF TypeOK, Ranges
  <2>5. \A i \in 0..Max32 : i \in Nat BY MaximaAssumption
  <2>6. \A i \in 0..Max64 : i \in Nat BY MaximaAssumption
  <2> QED BY <2>2, <2>3, <2>4, <2>5, <2>6
<1>3. "Ok" \notin Refusals BY DEF Refusals
<1>4. /\ ViewRefusal(offset, n) = "Ok" /\ ~memory /\ n > 0
      /\ fetch < n \/ (fetch >= n /\ Refill(offset, n, fetch))
  <2>1. ViewRefusal(offset, n) # "Ok" => ViewRefusal(offset, n) \notin Refusals
    BY DEF ViewRefusal, Refusals
  <2>2. ASSUME NEW code, Refuse("view", offset, n, code) PROVE last'.code = code
    BY <2>2 DEF Refuse, Answer
  <2>3. ASSUME NEW bytes, Answer("view", offset, n, "Ok", bytes) PROVE last'.code = "Ok"
    BY <2>3 DEF Answer
  <2> QED BY <1>3, <2>1, <2>2, <2>3 DEF ReadView
<1>5. /\ RangeValid(range) /\ InRange(range, offset, n) /\ n <= StorageSize
      /\ offset + n <= range.size /\ state.completed <= state.requested
  <2>1. RangeValid(range) /\ InRange(range, offset, n) /\ ~(n > StorageSize)
    BY <1>4 DEF ViewRefusal
  <2> QED BY <1>1, <1>2, <2>1, SizesAssumption DEF InRange, CeilingsHold
<1>6. /\ fetch \in Nat /\ fetch <= StorageSize /\ offset + fetch <= range.size
  BY <1>1, <1>5, Fetching
<1>7. SUFFICES LimitRefusal(state, limits, n) # "Ok"
  BY <1>4 DEF Refusal
<1>8. /\ limits.single # 0 => fetch <= limits.single
      /\ state.requested < limits.total => fetch <= limits.total - state.requested
  BY <1>2, <1>5, SizesAssumption DEF FetchBytes, Least
<1>9. CASE fetch < n
  <2>1. \/ limits.single # 0 /\ n > limits.single
        \/ state.requested < limits.total /\ n > limits.total - state.requested
    BY <1>2, <1>5, <1>9, SizesAssumption DEF FetchBytes, Least
  <2>2. state.requested + n > limits.total \/ (limits.single # 0 /\ n > limits.single)
    BY <1>2, <2>1, MaximaAssumption
  <2> QED BY <2>2 DEF LimitRefusal
<1>10. CASE fetch >= n /\ Refill(offset, n, fetch)
  <2>1. Refusal(state, offset, fetch) \in Refusals
    <3>1. CASE Refusal(state, offset, fetch) # "Ok"
      BY <3>1, <1>10 DEF Refill, Refuse, Answer
    <3>2. ASSUME NEW k \in 0..fetch, Refusal(state, offset, fetch) = "Ok", Ask(fetch, k),
                 last'.code = state'.code
          PROVE  FALSE
      <4>1. fetch > 0 BY <1>4, <1>6, <1>10
      <4>2. state'.code \notin Refusals BY <1>1, <1>6, <3>2, <4>1, Asking
      <4> QED BY <3>2, <4>2
    <3>3. CASE Refusal(state, offset, fetch) = "Ok"
      BY <3>2, <3>3, <1>10 DEF Refill, Answer
    <3> QED BY <3>1, <3>3
  <2>2. LimitRefusal(state, limits, fetch) # "Ok"
    BY <1>3, <2>1 DEF Refusal, Refusals
  <2>3. CASE (limits.requests # 0 /\ state.requests >= limits.requests) \/ state.requests = Max32
    BY <2>3 DEF LimitRefusal
  <2>4. CASE fetch > Max64 - state.requested \/ state.requested + fetch > limits.total
    <3>1. ~(state.requested < limits.total)
      BY <1>2, <1>6, <1>8, <2>4, MaximaAssumption
    <3>2. state.requested + n > limits.total
      BY <1>2, <1>4, <3>1, MaximaAssumption
    <3> QED BY <3>2 DEF LimitRefusal
  <2>5. ~(limits.single # 0 /\ fetch > limits.single)
    BY <1>2, <1>6, <1>8, MaximaAssumption
  <2> QED BY <2>2, <2>3, <2>4, <2>5 DEF LimitRefusal
<1> QED BY <1>4, <1>9, <1>10

-----------------------------------------------------------------------------
\* Every reachable state of a read operation is typed: the counters never leave
\* their widths and the window never leaves its storage.
THEOREM TypeCorrect == Spec => []TypeOK
<1>1. Inv => TypeOK BY DEF Inv
<1> QED BY <1>1, InvHolds, PTL

\* random_access_read_view() and random_access_read_exact(): an answer Ok comes
\* with the source's bytes, whatever the window went through before.
THEOREM ViewsAreAlwaysTrue == Spec => []ViewsAreTrue
<1>1. Inv => ViewsAreTrue BY DEF Inv
<1> QED BY <1>1, InvHolds, PTL

\* No operation asks the source for more than its limits, read-ahead included,
\* and its counters say what it asked.
THEOREM CeilingsAlwaysHold == Spec => []CeilingsHold
<1>1. Inv => CeilingsHold BY DEF Inv
<1> QED BY <1>1, InvHolds, PTL

\* The first failure of an operation is the only one it answers, and the last
\* time it asks anything of the source.
THEOREM FirstFailureAlwaysSticks == Spec => FirstFailureSticks
<1>1. Inv /\ [Next]_vars =>
        [state.code # "Ok" =>
            \/ state' = state /\ asked' = asked /\ (last' = NoCall \/ last'.code = state.code)
            \/ state' = FreshState /\ last' = NoCall]_vars
  BY FailedStep
<1> QED BY <1>1, InvHolds, PTL DEF Spec, FirstFailureSticks

\* random_access_read_view() with any minimum_read_bytes: the clamps of the
\* refill keep read-ahead from costing a view its answer.
THEOREM ReadAheadIsAlwaysFree == Spec => ReadAheadIsFree
<1>1. ASSUME Inv, Next, state.code = "Ok", limits.total # 0,
             last'.call = "view", last'.code \in Refusals
      PROVE  Refusal(state, last'.at, last'.size) # "Ok"
  <2>1. PICK offset \in 0..MaxOffset, n \in 0..MaxOffset, minimum \in Minimums :
           ReadView(offset, n, minimum)
    BY <1>1 DEF Next, ReadExact, Refuse, Answer, Lend, NewOperation, GiveBack, NoCall
  <2>2. offset \in Nat /\ n \in Nat /\ minimum \in Nat BY SizesAssumption
  <2>3. Refusal(state, offset, n) # "Ok" BY <1>1, <2>1, <2>2, RefusedView
  <2>4. last'.at = offset /\ last'.size = n
    BY <2>1 DEF ReadView, Refill, Refuse, Answer
  <2> QED BY <2>3, <2>4
<1>2. Inv /\ [Next]_vars =>
        [/\ state.code = "Ok" /\ limits.total # 0
         /\ last'.call = "view" /\ last'.code \in Refusals
         => Refusal(state, last'.at, last'.size) # "Ok"]_vars
  BY <1>1
<1> QED BY <1>2, InvHolds, PTL DEF Spec, ReadAheadIsFree
===============================================================================
