------------------------- MODULE IfdTraversal_proofs --------------------------
(***************************************************************************)
(* Two facts about the two decoders, for every file, every options and     *)
(* every capacity.                                                         *)
(*                                                                         *)
(* A directory is decoded once.  What the entries of a directory do to the *)
(* tasks plays no part: the invariant relates the references given out to  *)
(* the table of visited offsets, whatever the task taken is.               *)
(*                                                                         *)
(* And nothing is lost: here the tasks are what matters.  Every helper     *)
(* either queues the offsets it was to queue and loses none, or leaves a   *)
(* mark that something was cut short (Gains), the loops over entries and   *)
(* over pointers by induction; the task that is taken is the only one that *)
(* goes; so whatever a directory given out leads to is queued or visited,  *)
(* and what is visited was read, and given out if it is whole.             *)
(***************************************************************************)
EXTENDS IfdTraversal, SequenceTheorems, FiniteSetTheorems, TLAPS

\* A sequence, of whatever it is.
IsSequence(q) == \E S : q \in Seq(S)

\* Two references to one offset are its decoding as GPS and as Interop directory.
OnceIn(refs) ==
    \A i, j \in DOMAIN refs :
        i < j /\ refs[i].offset = refs[j].offset => {refs[i].kind, refs[j].kind} = Pair

\* What was given out is in the table.
SeenIn(refs, table) ==
    \A i \in DOMAIN refs : refs[i].offset \in Offsets /\ refs[i].kind \in table[refs[i].offset]

IsTable(table) == table = [o \in Offsets |-> table[o]]

\* The table and the references of one decoder.
WalkInv(table, refs) ==
    /\ IsTable(table) /\ IsSequence(refs)
    /\ OnceIn(refs) /\ SeenIn(refs, table)

IInv ==
    /\ visited = [d \in Decoders |-> visited[d]]
    /\ decoded = [d \in Decoders |-> decoded[d]]
    /\ \A d \in Decoders : WalkInv(visited[d], decoded[d])

Entered(table, t) == [table EXCEPT ![t.offset] = @ \cup {t.kind}]

\* Entering a task in the table keeps what was there.
LEMMA EnteredKeepsInv ==
    ASSUME NEW table, NEW refs, NEW t, t.offset \in Offsets, WalkInv(table, refs)
    PROVE  WalkInv(Entered(table, t), refs)
<1> DEFINE new == Entered(table, t)
<1>1. IsTable(new)
  BY DEF Entered, WalkInv, IsTable
<1>2. ASSUME NEW o \in Offsets
      PROVE  table[o] \subseteq new[o]
  BY DEF Entered, WalkInv, IsTable
<1>3. SeenIn(refs, new)
  BY <1>2 DEF WalkInv, SeenIn
<1> QED
  BY <1>1, <1>3 DEF WalkInv

\* A task that the table allows may be given out once it is entered there.
LEMMA EmittingKeepsInv ==
    ASSUME NEW table, NEW refs, NEW t, t.offset \in Offsets, WalkInv(table, refs),
           Allowed(table[t.offset], t.kind)
    PROVE  WalkInv(Entered(table, t), Append(refs, t))
<1> DEFINE new == Entered(table, t)
           all == Append(refs, t)
<1>1. WalkInv(new, refs)
  BY EnteredKeepsInv
<1>2. PICK S : refs \in Seq(S)
  BY DEF WalkInv, IsSequence
<1> DEFINE n == Len(refs)
<1>3. /\ refs \in Seq(S \cup {t}) /\ all \in Seq(S \cup {t})
      /\ n \in Nat /\ DOMAIN refs = 1..n /\ DOMAIN all = 1..(n + 1)
      /\ \A i \in 1..n : all[i] = refs[i]
      /\ all[n + 1] = t
  BY <1>2
<1>4. t.kind \in new[t.offset]
  BY DEF Entered, WalkInv, IsTable
<1> HIDE DEF new, all, n
<1>5. SeenIn(all, new)
  <2> SUFFICES ASSUME NEW i \in DOMAIN all
               PROVE  all[i].offset \in Offsets /\ all[i].kind \in new[all[i].offset]
    BY DEF SeenIn
  <2>1. CASE i \in 1..n
    BY <1>1, <1>3, <2>1 DEF WalkInv, SeenIn
  <2>2. CASE i = n + 1
    BY <1>3, <1>4, <2>2
  <2> QED
    BY <1>3, <2>1, <2>2
<1>6. ASSUME NEW i \in 1..n, refs[i].offset = t.offset
      PROVE  {refs[i].kind, t.kind} = Pair
  <2>1. refs[i].kind \in table[t.offset]
    BY <1>3, <1>6 DEF WalkInv, SeenIn
  <2>2. t.kind \in Pair /\ table[t.offset] = Pair \ {t.kind}
    BY <2>1 DEF Allowed
  <2> QED
    BY <2>1, <2>2 DEF Pair
<1>7. OnceIn(all)
  <2> SUFFICES ASSUME NEW i \in DOMAIN all, NEW j \in DOMAIN all,
                      i < j, all[i].offset = all[j].offset
               PROVE  {all[i].kind, all[j].kind} = Pair
    BY DEF OnceIn
  <2>1. i \in 1..n /\ (j \in 1..n \/ j = n + 1)
    BY <1>3
  <2>2. CASE j \in 1..n
    BY <1>1, <1>3, <2>1, <2>2 DEF WalkInv, OnceIn
  <2>3. CASE j = n + 1
    BY <1>3, <1>6, <2>1, <2>3
  <2> QED
    BY <2>1, <2>2, <2>3
<1> QED
  BY <1>1, <1>3, <1>5, <1>7 DEF WalkInv, IsSequence, new, all

\* A step that enters a task of one decoder in its table, and may give it out.
LEMMA VisitKeepsInv ==
    ASSUME IInv, NEW d \in Decoders, NEW t, t.offset \in Offsets, Visit(d, t),
           \/ UNCHANGED decoded
           \/ Emit(d, t) /\ Allowed(visited[d][t.offset], t.kind)
    PROVE  IInv'
<1>1. /\ visited' = [visited EXCEPT ![d] = Entered(visited[d], t)]
      /\ visited' = [e \in Decoders |-> visited'[e]]
  BY DEF Visit, Entered, IInv
<1>2. WalkInv(visited[d], decoded[d])
  BY DEF IInv
<1>3. ASSUME NEW e \in Decoders, e # d, decoded'[e] = decoded[e]
      PROVE  WalkInv(visited'[e], decoded'[e])
  BY <1>1, <1>3 DEF IInv
<1>4. visited'[d] = Entered(visited[d], t)
  BY <1>1 DEF IInv
<1>5. CASE UNCHANGED decoded
  <2>1. WalkInv(visited'[d], decoded'[d])
    BY <1>2, <1>4, <1>5, EnteredKeepsInv
  <2> QED
    BY <1>1, <1>3, <1>5, <2>1 DEF IInv
<1>6. CASE Emit(d, t) /\ Allowed(visited[d][t.offset], t.kind)
  <2>1. /\ decoded' = [e \in Decoders |-> decoded'[e]]
        /\ decoded'[d] = Append(decoded[d], t)
        /\ \A e \in Decoders : e # d => decoded'[e] = decoded[e]
    BY <1>6 DEF Emit, IInv
  <2>2. WalkInv(visited'[d], decoded'[d])
    BY <1>2, <1>4, <1>6, <2>1, EmittingKeepsInv
  <2> QED
    BY <1>1, <1>3, <2>1, <2>2 DEF IInv
<1> QED
  BY <1>5, <1>6

LEMMA InitInv == Init => IInv
<1> SUFFICES ASSUME Init
             PROVE  IInv
  OBVIOUS
<1>1. \A d \in Decoders : visited[d] = [o \in Offsets |-> {}] /\ decoded[d] = <<>>
  BY DEF Init
<1>2. IsSequence(<<>>) /\ OnceIn(<<>>)
  BY DEF IsSequence, OnceIn
<1>3. ASSUME NEW d \in Decoders
      PROVE  WalkInv(visited[d], decoded[d])
  BY <1>1, <1>2 DEF WalkInv, IsTable, SeenIn
<1> QED
  BY <1>3 DEF Init, IInv

LEMMA NextInv == IInv /\ [Next]_vars => IInv'
<1> SUFFICES ASSUME IInv, [Next]_vars
             PROVE  IInv'
  OBVIOUS
<1>1. CASE UNCHANGED <<visited, decoded>>
  BY <1>1 DEF IInv
<1>2. ASSUME NEW d \in Decoders, Begin(d) \/ Skip(d) \/ Finish(d)
      PROVE  IInv'
  BY <1>1, <1>2 DEF Begin, Skip, Finish
<1>3. ASSUME NEW d \in Decoders, Refuse(d)
      PROVE  IInv'
  <2> DEFINE t == Task(dec[d])
  <2>1. t.offset \in Offsets /\ UNCHANGED decoded /\ (UNCHANGED visited \/ Visit(d, t))
    BY <1>3 DEF Refuse, Fresh
  <2> HIDE DEF t
  <2> QED
    BY <1>1, <2>1, VisitKeepsInv
<1>4. ASSUME NEW d \in Decoders, Open(d)
      PROVE  IInv'
  <2>1. PICK t : OpenTask(d, t)
    BY <1>4 DEF Open
  <2>2. /\ t.offset \in Offsets /\ Allowed(visited[d][t.offset], t.kind) /\ Visit(d, t)
        /\ Emit(d, t) \/ UNCHANGED decoded
    BY <2>1 DEF OpenTask, MayOpen, Fresh
  <2> QED
    BY <2>2, VisitKeepsInv
<1>5. ASSUME OpenFails
      PROVE  IInv'
  <2>1. PICK t : OpenTaskFails(t)
    BY <1>5 DEF OpenFails
  <2>2. /\ t.offset \in Offsets /\ Allowed(visited["Callback"][t.offset], t.kind)
        /\ Visit("Callback", t)
        /\ Emit("Callback", t) \/ UNCHANGED decoded
    BY <2>1 DEF OpenTaskFails, MayOpen, Fresh
  <2> QED
    BY <2>2, VisitKeepsInv DEF Decoders
<1>6. CASE BeginFails
  BY <1>1, <1>6 DEF BeginFails
<1>7. CASE Done \/ UNCHANGED vars
  BY <1>1, <1>7 DEF Done, vars
<1> QED
  BY <1>2, <1>3, <1>4, <1>5, <1>6, <1>7 DEF Next, Calls, Walk

\* Whatever the file names, and whatever fails, no decoder gives out a directory
\* twice, but as the GPS and the Interop directory that are one.
THEOREM EachIsDecodedOnce == Spec => []DecodedOnce
<1>1. IInv => DecodedOnce
  BY DEF IInv, WalkInv, OnceIn, DecodedOnce
<1> QED
  BY <1>1, InitInv, NextInv, PTL DEF Spec

-----------------------------------------------------------------------------
\* Induction over the natural numbers, for a set instead of a predicate.
LEMMA Induction ==
    ASSUME NEW S, 0 \in S, \A n \in Nat : n \in S => n + 1 \in S
    PROVE  Nat \subseteq S
<1> SUFFICES ASSUME NEW n \in Nat, n \notin S PROVE FALSE
  OBVIOUS
<1> DEFINE F == {0..k : k \in {j \in 0..n : j \notin S}}
           R == StrictSubsetOrdering(0..n)
<1>1. IsWellFoundedOn(R, FiniteSubsetsOf(0..n))
  BY FS_StrictSubsetOrderingWellFounded
<1>2. FiniteSubsetsOf(0..n) = SUBSET (0..n)
  <2>1. IsFiniteSet(0..n)
    BY FS_Interval
  <2> QED BY <2>1, FS_FiniteSubsetsOfFinite
<1>3. F \subseteq SUBSET (0..n) /\ F # {}
  OBVIOUS
<1>4. PICK x \in F : \A y \in F : ~(<<y, x>> \in R)
  <2> HIDE DEF F, R
  <2> QED BY <1>1, <1>2, <1>3, WFMin
<1>5. PICK k \in 0..n : k \notin S /\ x = 0..k
  OBVIOUS
<1>6. k # 0 /\ k - 1 \in Nat /\ k - 1 \in 0..n /\ k - 1 \notin S
  BY <1>5
<1>7. 0..k - 1 \in F
  BY <1>6
<1>8. <<0..k - 1, x>> \in R
  <2>1. 0..k - 1 \subseteq 0..k /\ k \in 0..k /\ k \notin 0..k - 1
    BY <1>6
  <2>2. 0..k - 1 \in SUBSET (0..n) /\ x \in SUBSET (0..n)
    BY <1>3, <1>7
  <2> QED BY <1>5, <2>1, <2>2 DEF StrictSubsetOrdering
<1> QED BY <1>4, <1>7, <1>8

-----------------------------------------------------------------------------
(* What the helpers do to the state of a decoder.                           *)

Statuses == {"Ok", "OutputTruncated", "Unsupported", "Malformed", "LimitExceeded"}
TaskType == [kind : Kinds, index : Nat, offset : Nat]
State == [at : {"idle", "loop", "break", "done"}, tasks : Seq(TaskType), subs : Nat,
          entries : Nat, status : Statuses, input : {"Ok", "Failed"}, needed : Nat]

\* No ceiling was met and no value was left unread.
Uncut(s) == s.status # "LimitExceeded" /\ s.needed = 0

\* The offsets a decoder still has to look at.
Pending(s) == {s.tasks[i].offset : i \in DOMAIN s.tasks}

\* r is s after some helpers: nothing is lost and the offsets are queued, or
\* the state says that something was cut.
Gains(s, r, offsets) ==
    /\ r \in State /\ r.at = s.at /\ r.input = s.input
    /\ Uncut(r) => Uncut(s) /\ Pending(s) \cup offsets \subseteq Pending(r)

LEMMA GainsNothing == ASSUME NEW s \in State PROVE Gains(s, s, {})
BY DEF Gains

LEMMA GainsBoth ==
    ASSUME NEW s, NEW r, NEW q, NEW a, NEW b, Gains(s, r, a), Gains(r, q, b)
    PROVE  Gains(s, q, a \cup b)
BY DEF Gains

LEMMA GainsLess ==
    ASSUME NEW s, NEW r, NEW a, NEW b, Gains(s, r, a), b \subseteq a
    PROVE  Gains(s, r, b)
BY DEF Gains

\* update_status(), mark_limit_exceeded()
LEMMA MarkIs ==
    ASSUME NEW s \in State, NEW status \in Statuses, NEW r, r = Mark(s, status)
    PROVE  /\ r \in State /\ r.status \in {s.status, status}
           /\ r.at = s.at /\ r.tasks = s.tasks /\ r.input = s.input /\ r.needed = s.needed
           /\ r.subs = s.subs /\ r.entries = s.entries
           /\ r.status # "LimitExceeded" => /\ s.status # "LimitExceeded"
                                            /\ status # "LimitExceeded"
<1>1. /\ s.status \in Statuses /\ s.at \in {"idle", "loop", "break", "done"}
      /\ s.tasks \in Seq(TaskType) /\ s.subs \in Nat /\ s.entries \in Nat
      /\ s.input \in {"Ok", "Failed"} /\ s.needed \in Nat
  BY DEF State
<1>2. PICK worst : worst = IF Rank[s.status] >= Rank[status] THEN s.status ELSE status
  OBVIOUS
<1>3. worst \in {s.status, status}
  BY <1>2
<1>4. worst # "LimitExceeded" => s.status # "LimitExceeded" /\ status # "LimitExceeded"
  BY <1>1, <1>2 DEF Rank, Statuses
<1>5. r = [s EXCEPT !.status = worst]
  BY <1>2 DEF Mark
<1>6. /\ r \in State /\ r.status = worst
      /\ r.at = s.at /\ r.tasks = s.tasks /\ r.input = s.input /\ r.needed = s.needed
      /\ r.subs = s.subs /\ r.entries = s.entries
  BY <1>1, <1>3, <1>5 DEF State
<1> QED BY <1>3, <1>4, <1>6

LEMMA MarkGains ==
    ASSUME NEW s \in State, NEW status \in Statuses PROVE Gains(s, Mark(s, status), {})
BY MarkIs DEF Gains, Uncut, Pending

\* A ceiling that is met is told of, so that anything may be left out.
LEMMA CeilingGains ==
    ASSUME NEW s \in State, NEW offsets PROVE Gains(s, Mark(s, "LimitExceeded"), offsets)
BY MarkIs DEF Gains, Uncut, Statuses

\* A state with one task more.
LEMMA OneTaskMore ==
    ASSUME NEW s \in State, NEW t \in TaskType, NEW r \in State, r.at = s.at, r.input = s.input,
           r.tasks = Append(s.tasks, t), r.status = s.status, r.needed = s.needed
    PROVE  Gains(s, r, {t.offset})
<1>1. s.tasks \in Seq(TaskType)
  BY DEF State
<1>2. PICK n : n = Len(s.tasks)
  OBVIOUS
<1>3. /\ n \in Nat /\ DOMAIN s.tasks = 1..n /\ DOMAIN r.tasks = 1..n + 1
      /\ \A i \in 1..n : r.tasks[i] = s.tasks[i]
      /\ r.tasks[n + 1] = t
  BY <1>1, <1>2
<1>4. /\ \A i \in 1..n : i \in 1..n + 1
      /\ n + 1 \in 1..n + 1
  BY <1>3
<1>5. Pending(s) \cup {t.offset} \subseteq Pending(r)
  BY <1>3, <1>4 DEF Pending
<1> QED BY <1>5 DEF Gains, Uncut

LEMMA QueueGains ==
    ASSUME NEW s \in State, NEW t \in TaskType PROVE Gains(s, Queue(s, t), {t.offset})
<1>1. CASE Len(s.tasks) < Capacity /\ Len(s.tasks) < options.ifds
  <2>1. PICK r : r = [s EXCEPT !.tasks = Append(@, t)]
    OBVIOUS
  <2>2. s.tasks \in Seq(TaskType) /\ Append(s.tasks, t) \in Seq(TaskType)
    BY DEF State
  <2>3. /\ r \in State /\ r.at = s.at /\ r.input = s.input /\ r.tasks = Append(s.tasks, t)
        /\ r.status = s.status /\ r.needed = s.needed
    BY <2>1, <2>2 DEF State
  <2>4. Gains(s, r, {t.offset})
    BY <2>3, OneTaskMore
  <2> QED BY <1>1, <2>1, <2>4 DEF Queue
<1>2. CASE ~(Len(s.tasks) < Capacity /\ Len(s.tasks) < options.ifds)
  BY <1>2, CeilingGains DEF Queue
<1> QED BY <1>1, <1>2

LEMMA QueueSubGains ==
    ASSUME NEW s \in State, NEW o \in Nat PROVE Gains(s, QueueSub(s, o), {o})
<1>1. CASE Len(s.tasks) < Capacity /\ Len(s.tasks) < options.ifds
  <2>1. PICK t : t = [kind |-> "SubIfd", index |-> s.subs, offset |-> o]
    OBVIOUS
  <2>2. PICK r : r = [s EXCEPT !.tasks = Append(@, t), !.subs = @ + 1]
    OBVIOUS
  <2>3. s.tasks \in Seq(TaskType) /\ s.subs \in Nat /\ s.subs + 1 \in Nat
    BY DEF State
  <2>4. t \in TaskType /\ t.offset = o
    BY <2>1, <2>3 DEF TaskType, Kinds
  <2>5. Append(s.tasks, t) \in Seq(TaskType)
    BY <2>3, <2>4
  <2>6. /\ r \in State /\ r.at = s.at /\ r.input = s.input /\ r.tasks = Append(s.tasks, t)
        /\ r.status = s.status /\ r.needed = s.needed
    BY <2>2, <2>3, <2>5 DEF State
  <2>7. Gains(s, r, {t.offset})
    BY <2>4, <2>6, OneTaskMore
  <2> QED BY <1>1, <2>1, <2>2, <2>4, <2>7 DEF QueueSub
<1>2. CASE ~(Len(s.tasks) < Capacity /\ Len(s.tasks) < options.ifds)
  BY <1>2, CeilingGains DEF QueueSub
<1> QED BY <1>1, <1>2

\* The loop over the pointers of a SubIFDs entry.
IsQueueSubs(s, offsets, n, f) ==
    f = [k \in 0..n |-> IF k = 0 THEN s ELSE QueueSub(f[k - 1], offsets[k])]
HasQueueSubs(s, offsets, n) == \E f : IsQueueSubs(s, offsets, n, f)

LEMMA QueueSubsExist ==
    ASSUME NEW s, NEW offsets, NEW n \in Nat
    PROVE  HasQueueSubs(s, offsets, n)
<1> DEFINE S == {m \in Nat : HasQueueSubs(s, offsets, m)}
<1>1. 0 \in S
  <2>1. PICK f : f = [k \in 0..0 |-> s]
    OBVIOUS
  <2>2. IsQueueSubs(s, offsets, 0, f)
    <3>1. \A k \in 0..0 : k = 0
      OBVIOUS
    <3> QED BY <2>1, <3>1 DEF IsQueueSubs
  <2> QED BY <2>2 DEF HasQueueSubs
<1>2. ASSUME NEW m \in Nat, m \in S PROVE m + 1 \in S
  <2>1. PICK f : IsQueueSubs(s, offsets, m, f)
    BY <1>2 DEF HasQueueSubs
  <2>2. PICK g : g = [k \in 0..m + 1 |->
                         IF k = m + 1 THEN QueueSub(f[m], offsets[k]) ELSE f[k]]
    OBVIOUS
  <2>3. \A k \in 0..m : g[k] = f[k]
    BY <2>2
  <2>4. ASSUME NEW k \in 0..m + 1
        PROVE  g[k] = IF k = 0 THEN s ELSE QueueSub(g[k - 1], offsets[k])
    <3>1. CASE k = m + 1
      <4>1. k # 0 /\ k - 1 = m /\ m \in 0..m
        BY <3>1
      <4> QED BY <2>2, <2>3, <3>1, <4>1
    <3>2. CASE k # m + 1
      <4>1. k \in 0..m /\ (k # 0 => k - 1 \in 0..m)
        BY <3>2
      <4>2. f[k] = IF k = 0 THEN s ELSE QueueSub(f[k - 1], offsets[k])
        BY <2>1, <4>1 DEF IsQueueSubs
      <4> QED BY <2>3, <4>1, <4>2
    <3> QED BY <3>1, <3>2
  <2>5. g = [k \in 0..m + 1 |-> g[k]]
    BY <2>2
  <2>6. IsQueueSubs(s, offsets, m + 1, g)
    BY <2>4, <2>5 DEF IsQueueSubs
  <2>7. HasQueueSubs(s, offsets, m + 1)
    BY <2>6 DEF HasQueueSubs
  <2> QED BY <2>7
<1> HIDE DEF S
<1>3. n \in S
  BY <1>1, <1>2, Induction
<1> QED BY <1>3 DEF S

LEMMA QueueSubsGain ==
    ASSUME NEW s \in State, NEW offsets \in Seq(Nat)
    PROVE  Gains(s, QueueSubs(s, offsets), Range(offsets))
<1> DEFINE n == Len(offsets)
           after[k \in 0..n] == IF k = 0 THEN s ELSE QueueSub(after[k - 1], offsets[k])
           Upto(m) == {offsets[k] : k \in 1..m}
           S == {m \in Nat : m \in 0..n => Gains(s, after[m], Upto(m))}
<1>0. n \in Nat
  OBVIOUS
<1>1. QueueSubs(s, offsets) = after[n]
  BY DEF QueueSubs
<1>2. after = CHOOSE f : IsQueueSubs(s, offsets, n, f)
  BY DEF IsQueueSubs
<1>3. IsQueueSubs(s, offsets, n, after)
  <2> HIDE DEF after
  <2> QED BY <1>0, <1>2, QueueSubsExist DEF HasQueueSubs
<1> HIDE DEF after
<1>4. \A k \in 0..n : after[k] = IF k = 0 THEN s ELSE QueueSub(after[k - 1], offsets[k])
  BY <1>3 DEF IsQueueSubs
<1>5. 0 \in S
  <2>1. after[0] = s /\ Upto(0) = {}
    BY <1>0, <1>4
  <2> QED BY <2>1, GainsNothing
<1>6. ASSUME NEW m \in Nat, m \in S PROVE m + 1 \in S
  <2> SUFFICES ASSUME m + 1 \in 0..n PROVE Gains(s, after[m + 1], Upto(m + 1))
    OBVIOUS
  <2>1. m \in 0..n /\ m + 1 \in 1..n /\ (m + 1) - 1 = m /\ m + 1 # 0
    BY <1>0
  <2>2. Gains(s, after[m], Upto(m))
    BY <1>6, <2>1
  <2>3. after[m + 1] = QueueSub(after[m], offsets[m + 1])
    BY <1>4, <2>1
  <2>4. Gains(after[m], after[m + 1], {offsets[m + 1]})
    <3>1. after[m] \in State /\ offsets[m + 1] \in Nat
      BY <2>1, <2>2 DEF Gains
    <3> QED BY <2>3, <3>1, QueueSubGains
  <2>5. Upto(m + 1) = Upto(m) \cup {offsets[m + 1]}
    <3>1. 1..m + 1 = (1..m) \cup {m + 1}
      OBVIOUS
    <3> QED BY <3>1
  <2> HIDE DEF Upto
  <2> QED BY <2>2, <2>4, <2>5, GainsBoth
<1>7. n \in S
  <2> HIDE DEF S
  <2> QED BY <1>0, <1>5, <1>6, Induction
<1>8. Range(offsets) = Upto(n)
  BY DEF Range
<1> HIDE DEF Upto, n
<1> QED BY <1>0, <1>1, <1>7, <1>8

LEMMA WiderSequence ==
    ASSUME NEW S, NEW T, S \subseteq T, NEW q \in Seq(S) PROVE q \in Seq(T)
<1>1. Len(q) \in Nat /\ q \in [1..Len(q) -> S]
  OBVIOUS
<1>2. q \in [1..Len(q) -> T]
  BY <1>1
<1> QED BY <1>1, <1>2

\* decode_u32_or_u64_offset()
LEMMA PointersAre ==
    ASSUME NEW e \in Entry
    PROVE  /\ e.ptrs \in Seq(Nat) /\ Pointers(e) \in Seq(Nat)
           /\ e.tag \in PointerTags \cup {"Other", "Alien", "Bad"}
<1>1. e.ptrs \in Seq(0..Size) /\ e.tag \in PointerTags \cup {"Other", "Alien", "Bad"}
  BY DEF Entry
<1>2. e.ptrs \in Seq(Nat)
  <2>1. 0..Size \subseteq Nat
    OBVIOUS
  <2> QED BY <1>1, <2>1, WiderSequence
<1>3. PICK p, n, m : p = e.ptrs /\ n = Len(p)
                     /\ m = IF n < PointerCap THEN n ELSE PointerCap
  OBVIOUS
<1>4. n \in Nat /\ m \in 0..n
  BY <1>2, <1>3, SizesAssumption
<1>5. \A k \in 1..m : k \in 1..n
  BY <1>4
<1>6. SubSeq(p, 1, m) \in Seq(Nat)
  BY <1>2, <1>3, <1>4, <1>5, SubSeqProperties
<1> QED BY <1>1, <1>2, <1>3, <1>6 DEF Pointers

LEMMA KindsOfPointers == \A tag \in PointerTags : KindOf[tag] \in Kinds
BY DEF PointerTags, KindOf, Kinds

\* follow_ifd_pointers()
LEMMA FollowPointersGains ==
    ASSUME NEW s \in State, NEW t \in TaskType, NEW e \in Entry
    PROVE  Gains(s, FollowPointers(s, t, e), EntryLinks(t, e))
<1>0. e.ptrs \in Seq(Nat) /\ Pointers(e) \in Seq(Nat)
  BY PointersAre
<1>1. CASE ~IsLink(t, e)
  BY <1>1, GainsNothing DEF FollowPointers, EntryLinks
<1>2. CASE IsLink(t, e)
  <2>1. CASE Len(s.tasks) >= options.ifds
    BY <1>2, <2>1, CeilingGains DEF FollowPointers
  <2>2. CASE ~(Len(s.tasks) >= options.ifds) /\ KindOf[e.tag] = "SubIfd"
    BY <1>0, <1>2, <2>2, QueueSubsGain DEF FollowPointers, EntryLinks
  <2>3. CASE ~(Len(s.tasks) >= options.ifds) /\ KindOf[e.tag] # "SubIfd"
    <3>1. CASE e.ptrs = <<>>
      <4>1. EntryLinks(t, e) = {}
        BY <1>2, <2>3, <3>1 DEF EntryLinks
      <4>2. FollowPointers(s, t, e) = s
        BY <1>2, <2>3, <3>1 DEF FollowPointers
      <4> QED BY <4>1, <4>2, GainsNothing
    <3>2. CASE e.ptrs # <<>>
      <4>1. PICK task : task = [kind |-> KindOf[e.tag], index |-> 0, offset |-> e.ptrs[1]]
        OBVIOUS
      <4>2. e.ptrs[1] \in Nat /\ 1 \in DOMAIN e.ptrs
        BY <1>0, <3>2
      <4>3. task \in TaskType /\ task.offset = e.ptrs[1]
        <5>1. KindOf[e.tag] \in Kinds
          BY <1>2, KindsOfPointers DEF IsLink
        <5> QED BY <4>1, <4>2, <5>1 DEF TaskType
      <4>4. EntryLinks(t, e) = {task.offset}
        BY <1>2, <2>3, <4>2, <4>3 DEF EntryLinks
      <4>5. FollowPointers(s, t, e) = Queue(s, task)
        BY <1>2, <2>3, <3>2, <4>1 DEF FollowPointers
      <4> QED BY <4>3, <4>4, <4>5, QueueGains
    <3> QED BY <3>1, <3>2
  <2> QED BY <2>1, <2>2, <2>3
<1> QED BY <1>1, <1>2

LEMMA StoredGains == ASSUME NEW s \in State, NEW e PROVE Gains(s, Stored(s, e), {})
<1>1. PICK r : r = [s EXCEPT !.entries = @ + 1]
  OBVIOUS
<1>2. /\ r \in State /\ r.at = s.at /\ r.input = s.input /\ r.tasks = s.tasks
      /\ r.status = s.status /\ r.needed = s.needed
  BY <1>1 DEF State
<1>3. Gains(s, r, {})
  BY <1>2 DEF Gains, Uncut, Pending
<1> QED BY <1>1, <1>3, GainsNothing DEF Stored

\* source_tiff_value(): a value that does not fit in the scratch is told of.
LEMMA UnfetchedGains ==
    ASSUME NEW d, NEW s \in State, NEW e \in Entry, TooLong(d, e), NEW offsets
    PROVE  Gains(s, Unfetched(s, e), offsets)
<1>1. PICK n : n = Len(e.ptrs)
  OBVIOUS
<1>2. n \in Nat /\ n > 1
  BY <1>1, PointersAre DEF TooLong
<1>3. PICK m : m = Mark(s, "OutputTruncated")
  OBVIOUS
<1>4. m \in State /\ m.at = s.at /\ m.input = s.input
  BY <1>3, MarkIs DEF Statuses
<1>5. PICK r, k : r = [m EXCEPT !.needed = k] /\ k = IF m.needed < n THEN n ELSE m.needed
  OBVIOUS
<1>6. m.needed \in Nat
  BY <1>4 DEF State
<1>7. k \in Nat /\ k > 1
  BY <1>2, <1>5, <1>6
<1>8. r \in State /\ r.at = s.at /\ r.input = s.input /\ r.needed = k
  BY <1>4, <1>5, <1>7 DEF State
<1>9. Unfetched(s, e) = r
  BY <1>1, <1>3, <1>5 DEF Unfetched
<1> QED BY <1>7, <1>8, <1>9 DEF Gains, Uncut

\* The most pointers that d reads of one entry, if there is a limit on them; and
\* what an entry tells it of under such a limit.
Width(d) == IF d = "Callback" THEN {options.value} ELSE {}
Tells(w, ref, e) ==
    IF \E n \in w : Len(e.ptrs) > 1 /\ Len(e.ptrs) > n THEN {} ELSE EntryLinks(ref, e)

LEMMA TellsAreKnown ==
    ASSUME NEW d, NEW ref, NEW e
    PROVE  KnownLinks(d, ref, e) = Tells(Width(d), ref, e)
BY DEF KnownLinks, Tells, Width, Oversized

\* One turn of the loop over entries.
LEMMA HandleGains ==
    ASSUME NEW d, NEW s \in State, NEW t \in TaskType, NEW e \in Entry
    PROVE  Gains(s, Handle(d, t, s, e), Tells(Width(d), t, e))
<1>1. CASE e.tag = "Alien" \/ e.tag = "Bad"
  <2>1. Tells(Width(d), t, e) = {}
    BY <1>1 DEF Tells, EntryLinks, IsLink, PointerTags, KindOf
  <2>2. CASE e.tag = "Alien"
    BY <2>1, <2>2, GainsNothing DEF Handle
  <2>3. CASE e.tag = "Bad"
    <3>1. Handle(d, t, s, e) = Mark(s, "Malformed")
      BY <2>3 DEF Handle
    <3> QED BY <2>1, <3>1, MarkGains DEF Statuses
  <2> QED BY <1>1, <2>2, <2>3
<1>2. CASE ~(e.tag = "Alien" \/ e.tag = "Bad")
  <2>1. PICK r : r = IF Oversized(d, e) THEN s
                     ELSE IF TooLong(d, e) THEN Unfetched(s, e) ELSE FollowPointers(s, t, e)
    OBVIOUS
  <2>2. Gains(s, r, Tells(Width(d), t, e))
    <3>1. CASE Oversized(d, e)
      BY <2>1, <3>1, GainsNothing, TellsAreKnown DEF KnownLinks
    <3>2. CASE ~Oversized(d, e)
      <4>1. Gains(s, r, EntryLinks(t, e))
        BY <2>1, <3>2, UnfetchedGains, FollowPointersGains
      <4> QED BY <3>2, <4>1, TellsAreKnown DEF KnownLinks
    <3> QED BY <3>1, <3>2
  <2>3. Gains(r, Stored(r, e), {})
    BY <2>2, StoredGains DEF Gains
  <2>4. Handle(d, t, s, e) = Stored(r, e)
    BY <1>2, <2>1 DEF Handle
  <2>5. Gains(s, Stored(r, e), Tells(Width(d), t, e) \cup {})
    BY <2>2, <2>3, GainsBoth
  <2> QED BY <2>4, <2>5, GainsLess
<1> QED BY <1>1, <1>2

\* The loop over the entries of a directory.
IsEntries(d, t, s, entries, n, f) ==
    f = [k \in 0..n |-> IF k = 0 THEN s ELSE Handle(d, t, f[k - 1], entries[k])]
HasEntries(d, t, s, entries, n) == \E f : IsEntries(d, t, s, entries, n, f)

LEMMA EntriesExist ==
    ASSUME NEW d, NEW t, NEW s, NEW entries, NEW n \in Nat
    PROVE  HasEntries(d, t, s, entries, n)
<1> DEFINE S == {m \in Nat : HasEntries(d, t, s, entries, m)}
<1>1. 0 \in S
  <2>1. PICK f : f = [k \in 0..0 |-> s]
    OBVIOUS
  <2>2. IsEntries(d, t, s, entries, 0, f)
    <3>1. \A k \in 0..0 : k = 0
      OBVIOUS
    <3> QED BY <2>1, <3>1 DEF IsEntries
  <2> QED BY <2>2 DEF HasEntries
<1>2. ASSUME NEW m \in Nat, m \in S PROVE m + 1 \in S
  <2>1. PICK f : IsEntries(d, t, s, entries, m, f)
    BY <1>2 DEF HasEntries
  <2>2. PICK g : g = [k \in 0..m + 1 |->
                         IF k = m + 1 THEN Handle(d, t, f[m], entries[k]) ELSE f[k]]
    OBVIOUS
  <2>3. \A k \in 0..m : g[k] = f[k]
    BY <2>2
  <2>4. ASSUME NEW k \in 0..m + 1
        PROVE  g[k] = IF k = 0 THEN s ELSE Handle(d, t, g[k - 1], entries[k])
    <3>1. CASE k = m + 1
      <4>1. k # 0 /\ k - 1 = m /\ m \in 0..m
        BY <3>1
      <4> QED BY <2>2, <2>3, <3>1, <4>1
    <3>2. CASE k # m + 1
      <4>1. k \in 0..m /\ (k # 0 => k - 1 \in 0..m)
        BY <3>2
      <4>2. f[k] = IF k = 0 THEN s ELSE Handle(d, t, f[k - 1], entries[k])
        BY <2>1, <4>1 DEF IsEntries
      <4> QED BY <2>3, <4>1, <4>2
    <3> QED BY <3>1, <3>2
  <2>5. g = [k \in 0..m + 1 |-> g[k]]
    BY <2>2
  <2>6. IsEntries(d, t, s, entries, m + 1, g)
    BY <2>4, <2>5 DEF IsEntries
  <2>7. HasEntries(d, t, s, entries, m + 1)
    BY <2>6 DEF HasEntries
  <2> QED BY <2>7
<1> HIDE DEF S
<1>3. n \in S
  BY <1>1, <1>2, Induction
<1> QED BY <1>3 DEF S

\* What the entries lead to.
Told(w, t, entries) == UNION {Tells(w, t, e) : e \in Range(entries)}
LinksUpto(w, t, entries, m) == UNION {Tells(w, t, entries[k]) : k \in 1..m}

LEMMA EntriesGain ==
    ASSUME NEW d, NEW s \in State, NEW t \in TaskType, NEW entries \in Seq(Entry)
    PROVE  Gains(s, Entries(d, t, s, entries), Told(Width(d), t, entries))
<1> PICK w : w = Width(d)
  OBVIOUS
<1> DEFINE n == Len(entries)
           after[k \in 0..n] == IF k = 0 THEN s ELSE Handle(d, t, after[k - 1], entries[k])
           S == {m \in Nat : m \in 0..n => Gains(s, after[m], LinksUpto(w, t, entries, m))}
<1>0. n \in Nat
  OBVIOUS
<1>1. Entries(d, t, s, entries) = after[n]
  BY DEF Entries
<1>2. after = CHOOSE f : IsEntries(d, t, s, entries, n, f)
  BY DEF IsEntries
<1>3. IsEntries(d, t, s, entries, n, after)
  <2> HIDE DEF after
  <2> QED BY <1>0, <1>2, EntriesExist DEF HasEntries
<1> HIDE DEF after
<1>4. \A k \in 0..n : after[k] = IF k = 0 THEN s ELSE Handle(d, t, after[k - 1], entries[k])
  BY <1>3 DEF IsEntries
<1>5. 0 \in S
  <2>1. after[0] = s
    BY <1>0, <1>4
  <2>2. LinksUpto(w, t, entries, 0) = {}
    BY DEF LinksUpto
  <2> QED BY <2>1, <2>2, GainsNothing
<1>6. ASSUME NEW m \in Nat, m \in S PROVE m + 1 \in S
  <2> SUFFICES ASSUME m + 1 \in 0..n PROVE Gains(s, after[m + 1], LinksUpto(w, t, entries, m + 1))
    OBVIOUS
  <2>1. m \in 0..n /\ m + 1 \in 1..n /\ (m + 1) - 1 = m /\ m + 1 # 0
    BY <1>0
  <2>2. Gains(s, after[m], LinksUpto(w, t, entries, m))
    BY <1>6, <2>1
  <2>3. after[m + 1] = Handle(d, t, after[m], entries[m + 1])
    BY <1>4, <2>1
  <2>4. Gains(after[m], after[m + 1], Tells(w, t, entries[m + 1]))
    <3>1. after[m] \in State /\ entries[m + 1] \in Entry
      BY <2>1, <2>2 DEF Gains
    <3> QED BY <2>3, <3>1, HandleGains
  <2>5. LinksUpto(w, t, entries, m + 1) = LinksUpto(w, t, entries, m) \cup Tells(w, t, entries[m + 1])
    <3>1. 1..m + 1 = (1..m) \cup {m + 1}
      OBVIOUS
    <3> QED BY <3>1 DEF LinksUpto
  <2> QED BY <2>2, <2>4, <2>5, GainsBoth
<1>7. n \in S
  <2> HIDE DEF S
  <2> QED BY <1>0, <1>5, <1>6, Induction
<1>8. LinksUpto(w, t, entries, n) = Told(w, t, entries)
  <2>1. Range(entries) = {entries[k] : k \in 1..n}
    BY DEF Range
  <2> QED BY <2>1 DEF LinksUpto, Told
<1>9. Gains(s, after[n], LinksUpto(w, t, entries, n))
  BY <1>0, <1>7
<1> QED BY <1>1, <1>8, <1>9

\* The next directory of the chain.
NextLinks(t, ifd) == IF t.kind = "Ifd" THEN {ifd.next} \cap Offsets ELSE {}

LEMMA FollowNextGains ==
    ASSUME NEW s \in State, NEW t \in TaskType, NEW ifd \in Directory
    PROVE  Gains(s, FollowNext(s, t, ifd), NextLinks(t, ifd))
<1>0. ifd.next \in 0..Size \cup {Torn} /\ Size \in Nat
  BY SizesAssumption DEF Directory
<1>1. CASE t.kind # "Ifd" \/ ifd.next = 0
  <2>1. NextLinks(t, ifd) = {}
    BY <1>0, <1>1 DEF NextLinks, Offsets
  <2> QED BY <1>1, <2>1, GainsNothing DEF FollowNext
<1>2. CASE ~(t.kind # "Ifd" \/ ifd.next = 0) /\ ifd.next = Torn
  <2>1. NextLinks(t, ifd) = {}
    BY <1>0, <1>2 DEF NextLinks, Offsets, Torn
  <2>2. FollowNext(s, t, ifd) = Mark(s, "Malformed")
    BY <1>2 DEF FollowNext
  <2> QED BY <2>1, <2>2, MarkGains DEF Statuses
<1>3. CASE ~(t.kind # "Ifd" \/ ifd.next = 0) /\ ifd.next # Torn
  <2>1. PICK task : task = [kind |-> "Ifd", index |-> t.index + 1, offset |-> ifd.next]
    OBVIOUS
  <2>2. task \in TaskType /\ task.offset = ifd.next
    <3>1. ifd.next \in Nat /\ t.index + 1 \in Nat
      BY <1>0, <1>3 DEF TaskType
    <3> QED BY <2>1, <3>1 DEF TaskType, Kinds
  <2>3. FollowNext(s, t, ifd) = Queue(s, task)
    BY <1>3, <2>1 DEF FollowNext
  <2>4. Gains(s, FollowNext(s, t, ifd), {ifd.next})
    BY <2>2, <2>3, QueueGains
  <2> QED BY <2>4, GainsLess DEF NextLinks
<1> QED BY <1>1, <1>2, <1>3

LEMMA EmittedGains ==
    ASSUME NEW d, NEW s \in State PROVE Gains(s, Emitted(d, s), {})
BY GainsNothing, MarkGains DEF Emitted, Statuses

LEMMA Joined ==
    ASSUME NEW a, NEW b
    PROVE  b \cup a = a \cup b /\ (b \cup {}) \cup a = a \cup b /\ ({} \cup a) \cup b = a \cup b
OBVIOUS

\* Decoding a directory that is there and fits queues whatever it leads to, in
\* the order of either decoder.
AllLinks(w, t, ifd) == Told(w, t, ifd.entries) \cup NextLinks(t, ifd)

LEMMA WholeGains ==
    ASSUME NEW d \in Decoders, NEW s \in State, NEW t \in TaskType, NEW ifd \in Directory,
           ifd.shape = "Whole"
    PROVE  Gains(s, DecodedIfd(d, s, t, ifd), AllLinks(Width(d), t, ifd))
<1> DEFINE inside == Told(Width(d), t, ifd.entries)
           r == DecodedIfd(d, s, t, ifd)
<1>0. ifd.entries \in Seq(Entry)
  BY DEF Directory
<1>7. ASSUME NEW x \in State PROVE Gains(x, Entries(d, t, x, ifd.entries), inside)
  BY <1>0, EntriesGain
<1>8. /\ NextLinks(t, ifd) \cup inside = AllLinks(Width(d), t, ifd)
      /\ (NextLinks(t, ifd) \cup {}) \cup inside = AllLinks(Width(d), t, ifd)
      /\ ({} \cup inside) \cup NextLinks(t, ifd) = AllLinks(Width(d), t, ifd)
  <2>1. AllLinks(Width(d), t, ifd) = inside \cup NextLinks(t, ifd)
    BY DEF AllLinks
  <2> PICK a, b : a = inside /\ b = NextLinks(t, ifd)
    OBVIOUS
  <2>2. AllLinks(Width(d), t, ifd) = a \cup b
    BY <2>1
  <2> QED BY <2>2, Joined
<1>1. CASE d = "Span"
  <2>1. r = DecodedBySpan(s, t, ifd)
    BY <1>1 DEF DecodedIfd
  <2>2. PICK next : next = FollowNext(s, t, ifd)
    OBVIOUS
  <2>3. Gains(s, next, NextLinks(t, ifd)) /\ next \in State
    BY <2>2, FollowNextGains DEF Gains
  <2>4. CASE TooMany(s, ifd)
    <3>1. r = Mark(next, "LimitExceeded")
      BY <2>1, <2>2, <2>4 DEF DecodedBySpan
    <3>2. Gains(next, r, inside)
      BY <2>3, <3>1, CeilingGains
    <3> HIDE DEF r, inside
    <3>3. Gains(s, r, NextLinks(t, ifd) \cup inside)
      BY <2>3, <3>2, GainsBoth
    <3> QED BY <3>3, <1>8 DEF r
  <2>5. CASE ~TooMany(s, ifd)
    <3>1. PICK e : e = Emitted("Span", next)
      OBVIOUS
    <3>2. Gains(next, e, {}) /\ e \in State
      BY <2>3, <3>1, EmittedGains DEF Gains
    <3>3. PICK q : q = Entries("Span", t, e, ifd.entries)
      OBVIOUS
    <3>6. r = q
      BY <2>1, <2>2, <2>5, <3>1, <3>3 DEF DecodedBySpan
    <3>4. Gains(e, r, inside)
      <4>1. q = Entries(d, t, e, ifd.entries)
        BY <1>1, <3>3
      <4> HIDE DEF r, inside
      <4> QED BY <1>7, <3>2, <3>6, <4>1
    <3> HIDE DEF r, inside
    <3>5. Gains(s, r, (NextLinks(t, ifd) \cup {}) \cup inside)
      BY <2>3, <3>2, <3>4, GainsBoth
    <3> QED BY <3>5, <1>8 DEF r
  <2> QED BY <2>4, <2>5
<1>2. CASE d = "Callback"
  <2>1. r = DecodedByCallback(s, t, ifd)
    BY <1>2 DEF DecodedIfd
  <2>2. CASE TooMany(s, ifd)
    BY <2>1, <2>2, CeilingGains DEF DecodedByCallback
  <2>3. CASE ~TooMany(s, ifd)
    <3>1. PICK e, q : e = Emitted("Callback", s) /\ q = Entries("Callback", t, e, ifd.entries)
      OBVIOUS
    <3>2. Gains(s, e, {}) /\ e \in State
      BY <3>1, EmittedGains DEF Gains
    <3>3. r = FollowNext(q, t, ifd)
      BY <2>1, <2>3, <3>1 DEF DecodedByCallback
    <3>4. Gains(e, q, inside) /\ q \in State
      <4>1. q = Entries(d, t, e, ifd.entries)
        BY <1>2, <3>1
      <4> HIDE DEF inside
      <4> QED BY <1>7, <3>2, <4>1 DEF Gains
    <3>5. Gains(q, r, NextLinks(t, ifd))
      BY <3>3, <3>4, FollowNextGains
    <3> HIDE DEF r, inside
    <3>6. Gains(s, r, ({} \cup inside) \cup NextLinks(t, ifd))
      BY <3>2, <3>4, <3>5, GainsBoth
    <3> QED BY <3>6, <1>8 DEF r
  <2> QED BY <2>2, <2>3
<1> QED BY <1>1, <1>2 DEF Decoders

-----------------------------------------------------------------------------
(* Taking a task.                                                           *)

LEMMA BeforeOrders ==
    ASSUME NEW t \in TaskType, NEW u \in TaskType, NEW v \in TaskType
    PROVE  /\ ~Before(t, t)
           /\ Before(t, u) => ~Before(u, t)
           /\ Before(t, u) /\ ~Before(v, u) => Before(t, v)
<1>1. /\ t.kind \in Kinds /\ u.kind \in Kinds /\ v.kind \in Kinds
      /\ t.offset \in Nat /\ u.offset \in Nat /\ v.offset \in Nat
  BY DEF TaskType
<1>2. \A k \in Kinds : Priority[k] \in Nat
  BY DEF Kinds, Priority
<1>3. Priority[t.kind] \in Nat /\ Priority[u.kind] \in Nat /\ Priority[v.kind] \in Nat
  BY <1>1, <1>2
<1> HIDE DEF Priority
<1> QED BY <1>1, <1>3 DEF Before

\* The best of the first m tasks, the oldest of equals.
IsBest(tasks, m, i) ==
    \A j \in 1..m : ~Before(tasks[j], tasks[i]) /\ (j < i => Before(tasks[i], tasks[j]))

\* select_next_task_index()
LEMMA BestIsThere ==
    ASSUME NEW tasks \in Seq(TaskType), tasks # <<>>
    PROVE  Best(tasks) \in DOMAIN tasks
<1> DEFINE n == Len(tasks)
           S == {m \in Nat : m + 1 \in 1..n => \E i \in 1..m + 1 : IsBest(tasks, m + 1, i)}
<1>0. n \in Nat /\ n # 0 /\ DOMAIN tasks = 1..n /\ \A i \in 1..n : tasks[i] \in TaskType
  OBVIOUS
<1>1. 0 \in S
  <2>1. 0 + 1 = 1 /\ 1 \in 1..1 /\ \A j \in 1..1 : j = 1
    OBVIOUS
  <2>2. 1 \in 1..n
    BY <1>0
  <2>3. IsBest(tasks, 1, 1)
    BY <1>0, <2>1, <2>2, BeforeOrders DEF IsBest
  <2> QED BY <2>1, <2>3
<1>2. ASSUME NEW m \in Nat, m \in S PROVE m + 1 \in S
  <2> SUFFICES ASSUME (m + 1) + 1 \in 1..n
               PROVE  \E i \in 1..(m + 1) + 1 : IsBest(tasks, (m + 1) + 1, i)
    OBVIOUS
  <2> PICK k : k = m + 1
    OBVIOUS
  <2>1. k \in Nat /\ k \in 1..n /\ k + 1 \in 1..n /\ \A j \in 1..k + 1 : j \in 1..n
    BY <1>0
  <2>2. PICK i \in 1..k : IsBest(tasks, k, i)
    BY <1>2, <2>1
  <2>3. PICK t, u : t = tasks[i] /\ u = tasks[k + 1]
    OBVIOUS
  <2>4. i \in 1..n /\ t \in TaskType /\ u \in TaskType
    BY <1>0, <2>1, <2>3
  <2>5. \A j \in 1..k + 1 : j \in 1..k \/ j = k + 1
    BY <2>1
  <2>6. CASE Before(u, t)
    <3>1. ASSUME NEW j \in 1..k PROVE Before(u, tasks[j])
      <4>1. tasks[j] \in TaskType /\ ~Before(tasks[j], t)
        BY <1>0, <2>1, <2>2, <2>3 DEF IsBest
      <4> QED BY <2>4, <2>6, <4>1, BeforeOrders
    <3>2. ASSUME NEW j \in 1..k + 1
          PROVE  ~Before(tasks[j], u) /\ (j < k + 1 => Before(u, tasks[j]))
      <4>1. tasks[j] \in TaskType
        BY <1>0, <2>1
      <4>2. CASE j \in 1..k
        BY <2>4, <3>1, <4>1, <4>2, BeforeOrders
      <4>3. CASE j = k + 1
        BY <2>1, <2>3, <2>4, <4>3, BeforeOrders
      <4> QED BY <2>5, <4>2, <4>3
    <3>3. IsBest(tasks, k + 1, k + 1) /\ k + 1 \in 1..k + 1
      BY <2>1, <2>3, <3>2 DEF IsBest
    <3> QED BY <3>3
  <2>7. CASE ~Before(u, t)
    <3>1. IsBest(tasks, k + 1, i)
      <4> SUFFICES ASSUME NEW j \in 1..k + 1
                   PROVE  ~Before(tasks[j], t) /\ (j < i => Before(t, tasks[j]))
        BY <2>3 DEF IsBest
      <4>1. CASE j \in 1..k
        BY <2>2, <2>3, <4>1 DEF IsBest
      <4>2. CASE j = k + 1
        <5>1. ~(j < i)
          BY <2>1, <4>2
        <5> QED BY <2>3, <2>7, <4>2, <5>1
      <4> QED BY <2>5, <4>1, <4>2
    <3>2. i \in 1..k + 1
      BY <2>1
    <3> QED BY <3>1, <3>2
  <2> QED BY <2>6, <2>7
<1>3. n - 1 \in S
  <2>1. n - 1 \in Nat
    BY <1>0
  <2> HIDE DEF S
  <2> QED BY <1>1, <1>2, <2>1, Induction
<1>4. PICK i \in 1..n : IsBest(tasks, n, i)
  <2>1. (n - 1) + 1 = n /\ n \in 1..n
    BY <1>0
  <2> HIDE DEF n
  <2> QED BY <1>3, <2>1
<1>5. \E k \in DOMAIN tasks : \A j \in DOMAIN tasks :
          ~Before(tasks[j], tasks[k]) /\ (j < k => Before(tasks[k], tasks[j]))
  BY <1>0, <1>4 DEF IsBest
<1> HIDE DEF n
<1> QED BY <1>5 DEF Best

\* The task that is taken is the only one that goes.
LEMMA TakenKeeps ==
    ASSUME NEW s \in State, s.tasks # <<>>, NEW r, r = Taken(s), NEW t, t = Task(s)
    PROVE  /\ r \in State /\ t \in TaskType
           /\ r.at = s.at /\ r.input = s.input /\ r.status = s.status /\ r.needed = s.needed
           /\ r.entries = s.entries
           /\ Pending(s) \subseteq Pending(r) \cup {t.offset}
<1> PICK q, i, n : q = s.tasks /\ i = Best(s.tasks) /\ n = Len(s.tasks)
  OBVIOUS
<1>1. q \in Seq(TaskType) /\ q # <<>>
  BY DEF State
<1>2. n \in Nat /\ n >= 1 /\ DOMAIN q = 1..n /\ i \in 1..n /\ \A j \in 1..n : q[j] \in TaskType
  BY <1>1, BestIsThere
<1>3. PICK p : p = [q EXCEPT ![i] = q[n]]
  OBVIOUS
<1>4. /\ p \in Seq(TaskType) /\ Len(p) = n /\ p[i] = q[n]
      /\ \A j \in 1..n : j # i => p[j] = q[j]
  <2>1. q[n] \in TaskType
    BY <1>2
  <2> QED BY <1>1, <1>2, <1>3, <2>1
<1>5. PICK w : w = SubSeq(p, 1, n - 1)
  OBVIOUS
<1>6. /\ w \in Seq(TaskType) /\ Len(w) = n - 1
      /\ \A j \in 1..n - 1 : w[j] = p[j]
  <2>1. 1 \in 1..n + 1 /\ n - 1 \in 0..n
    BY <1>2
  <2>2. \A j \in 1..n - 1 : j \in 1..n
    BY <1>2
  <2> QED BY <1>2, <1>4, <1>5, <2>1, <2>2, SubSeqProperties
<1>7. Without(q, i) = w
  BY <1>2, <1>3, <1>5 DEF Without
<1>8. r = [s EXCEPT !.tasks = w]
  BY <1>7 DEF Taken
<1>9. /\ r \in State /\ r.tasks = w /\ r.at = s.at /\ r.input = s.input
      /\ r.status = s.status /\ r.needed = s.needed /\ r.entries = s.entries
  BY <1>6, <1>8 DEF State
<1>10. t = q[i] /\ t \in TaskType
  BY <1>2 DEF Task
<1>11. ASSUME NEW j \in 1..n
       PROVE  q[j].offset = t.offset \/ \E k \in 1..n - 1 : w[k] = q[j]
  <2>1. CASE j = i
    BY <1>10, <2>1
  <2>2. CASE j # i /\ j # n
    <3>1. j \in 1..n - 1
      BY <1>2, <2>2
    <3> QED BY <1>4, <1>6, <2>2, <3>1
  <2>3. CASE j # i /\ j = n
    <3>1. i \in 1..n - 1
      BY <1>2, <2>3
    <3> QED BY <1>4, <1>6, <2>3, <3>1
  <2> QED BY <2>1, <2>2, <2>3
<1>12. Pending(s) \subseteq Pending(r) \cup {t.offset}
  <2>1. DOMAIN w = 1..n - 1
    BY <1>2, <1>6
  <2> SUFFICES ASSUME NEW o \in Pending(s)
               PROVE  o \in Pending(r) \cup {t.offset}
    OBVIOUS
  <2>2. PICK j \in 1..n : o = q[j].offset
    BY <1>2 DEF Pending
  <2>3. CASE q[j].offset = t.offset
    BY <2>2, <2>3
  <2>4. ASSUME NEW k \in 1..n - 1, w[k] = q[j]
        PROVE  o \in Pending(r)
    BY <1>9, <2>1, <2>2, <2>4 DEF Pending
  <2> QED BY <1>11, <2>3, <2>4
<1> QED BY <1>9, <1>10, <1>12

-----------------------------------------------------------------------------
(* Decoding what was opened.                                                *)

\* s went on with the task t and found ifd: the state says that something was
\* cut or a read failed, or what ifd leads to is queued.
Opened(w, s, t, ifd, r) ==
    /\ r \in State
    /\ r.input = "Ok" => s.input = "Ok" /\ r.at = s.at
    /\ Uncut(r) /\ r.input = "Ok" =>
           /\ Uncut(s) /\ Pending(s) \subseteq Pending(r)
           /\ ifd.shape = "Whole" => /\ ~TooMany(s, ifd)
                                     /\ AllLinks(w, t, ifd) \subseteq Pending(r)

LEMMA BrokenIs ==
    ASSUME NEW s \in State, NEW status \in Statuses
    PROVE  Broken(s, status) \in State /\ Broken(s, status).input = "Failed"
<1>1. PICK m : m = Mark(s, status)
  OBVIOUS
<1>2. m \in State
  BY <1>1, MarkIs
<1>3. Broken(s, status) = [[m EXCEPT !.input = "Failed"] EXCEPT !.at = "break"]
  BY <1>1 DEF Broken, Failed
<1> QED BY <1>2, <1>3 DEF State

LEMMA TooManyIsTold ==
    ASSUME NEW d \in Decoders, NEW s \in State, NEW t \in TaskType, NEW ifd \in Directory,
           ifd.shape = "Whole", TooMany(s, ifd)
    PROVE  ~Uncut(DecodedIfd(d, s, t, ifd))
<1>1. PICK next : next = FollowNext(s, t, ifd)
  OBVIOUS
<1>2. next \in State
  BY <1>1, FollowNextGains DEF Gains
<1>3. DecodedIfd(d, s, t, ifd) = Mark(next, "LimitExceeded")
      \/ DecodedIfd(d, s, t, ifd) = Mark(s, "LimitExceeded")
  BY <1>1 DEF DecodedIfd, DecodedBySpan, DecodedByCallback
<1> QED BY <1>2, <1>3, MarkIs DEF Uncut, Statuses

LEMMA DecodedIs ==
    ASSUME NEW d \in Decoders, NEW s \in State, NEW t \in TaskType, NEW ifd \in Directory
    PROVE  Opened(Width(d), s, t, ifd, DecodedIfd(d, s, t, ifd))
<1> PICK r, w : r = DecodedIfd(d, s, t, ifd) /\ w = Width(d)
  OBVIOUS
<1>0. ifd.shape \in {"Whole", "Stub", "Cut", "Long"}
  BY DEF Directory
<1>1. CASE ifd.shape = "Stub"
  <2>1. CASE d = "Span"
    <3>1. r = Mark(s, "Malformed")
      BY <1>1, <2>1 DEF DecodedIfd
    <3>2. Gains(s, r, {})
      BY <3>1, MarkGains DEF Statuses
    <3> QED BY <1>1, <3>2 DEF Opened, Gains
  <2>2. CASE d # "Span"
    <3>1. r = Broken(s, "Malformed")
      BY <1>1, <2>2 DEF DecodedIfd
    <3>2. r \in State /\ r.input = "Failed"
      BY <3>1, BrokenIs DEF Statuses
    <3> QED BY <3>2 DEF Opened
  <2> QED BY <2>1, <2>2
<1>2. CASE ifd.shape = "Cut"
  <2>1. r = Mark(s, "Malformed")
    BY <1>2 DEF DecodedIfd
  <2>2. Gains(s, r, {})
    BY <2>1, MarkGains DEF Statuses
  <2> QED BY <1>2, <2>2 DEF Opened, Gains
<1>3. CASE ifd.shape = "Long"
  <2>1. r = Mark(s, "LimitExceeded")
    BY <1>3 DEF DecodedIfd
  <2>2. Gains(s, r, {})
    BY <2>1, CeilingGains
  <2> QED BY <1>3, <2>2 DEF Opened, Gains
<1>4. CASE ifd.shape = "Whole"
  <2>1. Gains(s, r, AllLinks(w, t, ifd))
    BY <1>4, WholeGains
  <2>2. TooMany(s, ifd) => ~Uncut(r)
    BY <1>4, TooManyIsTold
  <2> QED BY <2>1, <2>2 DEF Opened, Gains
<1> QED BY <1>0, <1>1, <1>2, <1>3, <1>4

-----------------------------------------------------------------------------
(* Nothing is lost: what a directory given out leads to is queued, or is in   *)
(* the table of visited offsets.                                             *)

FileType == [header : {"Good", "Short", "Foreign"}, first : 0..Size,
             ifds : [Offsets -> Directory \cup {Unread}]]

\* No ceiling, no value left unread and no failed read so far.
Intact(s) == Uncut(s) /\ s.input = "Ok"

\* What is visited was read, and given out if it is whole.
WholeOnesGiven(f, table, refs) ==
    \A o \in Offsets :
        table[o] # {} =>
            /\ f.ifds[o] # Unread
            /\ f.ifds[o].shape = "Whole" => \E i \in DOMAIN refs : refs[i].offset = o

Known(table, s, o) == o \in Pending(s) \/ table[o] # {}

LinksIn(w, f, ref) == AllLinks(w, ref, f.ifds[ref.offset])

LinksKnown(w, f, table, refs, s) ==
    \A i \in DOMAIN refs : \A o \in Offsets :
        o \in LinksIn(w, f, refs[i]) => Known(table, s, o)

FirstKnown(f, table, s) ==
    s.at # "idle" /\ f.header = "Good" /\ f.first \in Offsets => Known(table, s, f.first)

Followed(w, f, table, refs, s) ==
    /\ s.at # "break" /\ (s.at \in {"idle", "done"} => s.tasks = <<>>)
    /\ WholeOnesGiven(f, table, refs)
    /\ LinksKnown(w, f, table, refs, s)
    /\ FirstKnown(f, table, s)

\* One decoder.
FollowInv(w, f, table, refs, s) ==
    /\ s \in State
    /\ Intact(s) => Followed(w, f, table, refs, s)

LInv ==
    /\ IInv
    /\ file \in FileType /\ options \in Options
    /\ dec \in [Decoders -> State]
    /\ \A d \in Decoders : FollowInv(Width(d), file, visited[d], decoded[d], dec[d])

\* What was read stays.
Grows(f, g) ==
    /\ g.header = f.header /\ g.first = f.first
    /\ \A o \in Offsets : f.ifds[o] # Unread => g.ifds[o] = f.ifds[o]

LEMMA GrowingKeeps ==
    ASSUME NEW w, NEW f, NEW g, Grows(f, g), NEW table, NEW refs, NEW s, SeenIn(refs, table),
           FollowInv(w, f, table, refs, s)
    PROVE  FollowInv(w, g, table, refs, s)
<1> SUFFICES ASSUME Intact(s) PROVE Followed(w, g, table, refs, s)
  BY DEF FollowInv
<1>1. Followed(w, f, table, refs, s)
  BY DEF FollowInv
<1>2. WholeOnesGiven(g, table, refs)
  BY <1>1 DEF Followed, WholeOnesGiven, Grows
<1>3. LinksKnown(w, g, table, refs, s)
  <2> SUFFICES ASSUME NEW i \in DOMAIN refs, NEW o \in Offsets, o \in LinksIn(w, g, refs[i])
               PROVE  Known(table, s, o)
    BY DEF LinksKnown
  <2> PICK ref, p : ref = refs[i] /\ p = ref.offset
    OBVIOUS
  <2>1. p \in Offsets /\ table[p] # {}
    BY DEF SeenIn
  <2>2. f.ifds[p] # Unread
    BY <1>1, <2>1 DEF Followed, WholeOnesGiven
  <2>3. g.ifds[p] = f.ifds[p]
    BY <2>1, <2>2 DEF Grows
  <2>4. LinksIn(w, g, ref) = LinksIn(w, f, ref)
    BY <2>3 DEF LinksIn
  <2> QED BY <1>1, <2>4 DEF Followed, LinksKnown
<1>4. FirstKnown(g, table, s)
  BY <1>1 DEF Followed, FirstKnown, Grows
<1> QED BY <1>1, <1>2, <1>3, <1>4 DEF Followed

\* A state that is cut is no concern.
LEMMA CutKeeps ==
    ASSUME NEW w, NEW f, NEW table, NEW refs, NEW r \in State, ~Intact(r)
    PROVE  FollowInv(w, f, table, refs, r)
BY DEF FollowInv

\* A step of a decoder that opens nothing, and loses at most what the table has.
LEMMA MovingKeeps ==
    ASSUME NEW w, NEW f, NEW table, NEW refs, NEW s, FollowInv(w, f, table, refs, s),
           NEW r \in State,
           Intact(r) => /\ Intact(s) /\ r.at \in {"loop", "done"}
                        /\ r.at = "done" => r.tasks = <<>>
                        /\ \A o \in Offsets : o \in Pending(s) => Known(table, r, o)
                        /\ s.at # "idle" \/ FirstKnown(f, table, r)
    PROVE  FollowInv(w, f, table, refs, r)
<1> SUFFICES ASSUME Intact(r) PROVE Followed(w, f, table, refs, r)
  BY DEF FollowInv
<1>1. Followed(w, f, table, refs, s)
  BY DEF FollowInv
<1>2. \A o \in Offsets : Known(table, s, o) => Known(table, r, o)
  BY DEF Known
<1>3. LinksKnown(w, f, table, refs, r)
  BY <1>1, <1>2 DEF Followed, LinksKnown
<1>4. FirstKnown(f, table, r)
  BY <1>1, <1>2 DEF Followed, FirstKnown
<1> QED BY <1>1, <1>3, <1>4 DEF Followed

\* f once ifd was found at o.
WithRead(f, o, ifd) == [f EXCEPT !.ifds[o] = ifd]

LEMMA ReadGrows ==
    ASSUME NEW f \in FileType, NEW o \in Offsets, NEW ifd \in Directory,
           f.ifds[o] = Unread \/ ifd = f.ifds[o]
    PROVE  /\ WithRead(f, o, ifd) \in FileType /\ Grows(f, WithRead(f, o, ifd))
           /\ WithRead(f, o, ifd).ifds[o] = ifd /\ ifd # Unread
<1> PICK g : g = WithRead(f, o, ifd)
  OBVIOUS
<1>1. g = [f EXCEPT !.ifds = [f.ifds EXCEPT ![o] = ifd]]
  BY DEF WithRead
<1>2. f.ifds \in [Offsets -> Directory \cup {Unread}]
  BY DEF FileType
<1>3. PICK ifds : ifds = [f.ifds EXCEPT ![o] = ifd]
  OBVIOUS
<1>4. /\ ifds \in [Offsets -> Directory \cup {Unread}] /\ ifds[o] = ifd
      /\ \A p \in Offsets : p # o => ifds[p] = f.ifds[p]
  BY <1>2, <1>3
<1>5. g \in FileType /\ g.ifds = ifds /\ g.header = f.header /\ g.first = f.first
  BY <1>1, <1>3, <1>4 DEF FileType
<1>6. ifd # Unread
  BY DEF Directory, Unread
<1>7. Grows(f, g)
  BY <1>4, <1>5 DEF Grows
<1> QED BY <1>4, <1>5, <1>6, <1>7

\* A directory is opened: the task is entered in the table, the directory is
\* given out if it is whole and there is room for its entries, and what it leads
\* to is queued.
LEMMA OpeningKeeps ==
    ASSUME NEW d \in Decoders, NEW w, w = Width(d), NEW f \in FileType, NEW table, NEW refs, NEW s,
           IsTable(table), IsSequence(refs), SeenIn(refs, table), FollowInv(w, f, table, refs, s),
           s.at = "loop",
           NEW t \in TaskType, t.offset \in Offsets,
           NEW u \in State, u.at = s.at, u.entries = s.entries, Intact(u) => Intact(s),
           Pending(s) \subseteq Pending(u) \cup {t.offset},
           NEW ifd \in Directory, f.ifds[t.offset] = Unread \/ ifd = f.ifds[t.offset],
           NEW all, all = IF Emits(s, ifd) THEN Append(refs, t) ELSE refs
    PROVE  FollowInv(w, WithRead(f, t.offset, ifd), Entered(table, t), all, DecodedIfd(d, u, t, ifd))
<1> PICK r, g, new, p : /\ r = DecodedIfd(d, u, t, ifd) /\ g = WithRead(f, t.offset, ifd)
                        /\ new = Entered(table, t) /\ p = t.offset
  OBVIOUS
<1>1. Opened(w, u, t, ifd, r)
  BY DecodedIs
<1>2. r \in State
  BY <1>1 DEF Opened
<1> SUFFICES ASSUME Intact(r) PROVE Followed(w, g, new, all, r)
  BY <1>2 DEF FollowInv
<1>3. /\ Intact(u) /\ r.at = "loop" /\ Pending(u) \subseteq Pending(r)
      /\ ifd.shape = "Whole" => /\ ~TooMany(s, ifd)
                                /\ AllLinks(w, t, ifd) \subseteq Pending(r)
  <2>1. TooMany(u, ifd) = TooMany(s, ifd)
    BY DEF TooMany
  <2> QED BY <1>1, <2>1 DEF Opened, Intact
<1>4. g \in FileType /\ Grows(f, g) /\ g.ifds[p] = ifd /\ ifd # Unread
  BY ReadGrows
<1>5. FollowInv(w, g, table, refs, s)
  BY <1>4, GrowingKeeps
<1>6. Followed(w, g, table, refs, s)
  BY <1>3, <1>5 DEF FollowInv
<1>7. /\ \A o \in Offsets : table[o] # {} => new[o] # {}
      /\ new[p] # {} /\ \A o \in Offsets : o # p => new[o] = table[o]
  BY DEF Entered, IsTable
<1>8. \A o \in Offsets : Known(table, s, o) => Known(new, r, o)
  BY <1>3, <1>7 DEF Known
<1>9. PICK S : refs \in Seq(S)
  BY DEF IsSequence
<1> PICK n : n = Len(refs)
  OBVIOUS
<1>10. n \in Nat /\ DOMAIN refs = 1..n
  BY <1>9
<1>11. CASE ifd.shape = "Whole"
  <2>1. all = Append(refs, t)
    BY <1>3, <1>11 DEF Emits
  <2>2. /\ DOMAIN all = 1..n + 1 /\ all[n + 1] = t /\ \A i \in 1..n : all[i] = refs[i]
        /\ n + 1 \in 1..n + 1 /\ \A i \in 1..n : i \in 1..n + 1
    <3>1. refs \in Seq(S \cup {t}) /\ t \in S \cup {t}
      BY <1>9, WiderSequence
    <3> QED BY <1>10, <2>1, <3>1
  <2>3. WholeOnesGiven(g, new, all)
    <3> SUFFICES ASSUME NEW o \in Offsets, new[o] # {}
                 PROVE  /\ g.ifds[o] # Unread
                        /\ g.ifds[o].shape = "Whole"
                              => \E i \in DOMAIN all : all[i].offset = o
      BY DEF WholeOnesGiven
    <3>1. CASE o = p
      BY <1>4, <2>2, <3>1
    <3>2. CASE o # p
      BY <1>6, <1>7, <1>10, <2>2, <3>2 DEF Followed, WholeOnesGiven
    <3> QED BY <3>1, <3>2
  <2>4. LinksKnown(w, g, new, all, r)
    <3> SUFFICES ASSUME NEW i \in DOMAIN all, NEW o \in Offsets, o \in LinksIn(w, g, all[i])
                 PROVE  Known(new, r, o)
      BY DEF LinksKnown
    <3>1. CASE i \in 1..n
      BY <1>6, <1>8, <1>10, <2>2, <3>1 DEF Followed, LinksKnown
    <3>2. CASE i = n + 1
      <4>1. LinksIn(w, g, all[i]) = AllLinks(w, t, ifd)
        BY <1>4, <2>2, <3>2 DEF LinksIn
      <4> QED BY <1>3, <1>11, <4>1 DEF Known
    <3>3. i \in 1..n \/ i = n + 1
      BY <1>10, <2>2
    <3> QED BY <3>1, <3>2, <3>3
  <2>5. FirstKnown(g, new, r)
    BY <1>6, <1>8 DEF Followed, FirstKnown
  <2> QED BY <1>3, <2>3, <2>4, <2>5 DEF Followed
<1>12. CASE ifd.shape # "Whole"
  <2>1. all = refs
    BY <1>12 DEF Emits
  <2>2. WholeOnesGiven(g, new, all)
    BY <1>4, <1>6, <1>7, <1>12, <2>1 DEF Followed, WholeOnesGiven
  <2>3. LinksKnown(w, g, new, all, r)
    BY <1>6, <1>8, <2>1 DEF Followed, LinksKnown
  <2>4. FirstKnown(g, new, r)
    BY <1>6, <1>8 DEF Followed, FirstKnown
  <2> QED BY <1>3, <2>2, <2>3, <2>4 DEF Followed
<1> QED BY <1>11, <1>12

\* A step of d that opens nothing.
LEMMA OthersStay ==
    ASSUME LInv, NEW d \in Decoders, NEW r, Become(d, r),
           UNCHANGED <<file, options, decoded>>, IInv',
           \A e \in Decoders : e # d => visited'[e] = visited[e],
           FollowInv(Width(d), file, visited'[d], decoded[d], r)
    PROVE  LInv'
<1>1. r \in State
  BY DEF FollowInv
<1>2. dec' \in [Decoders -> State] /\ dec'[d] = r /\ \A e \in Decoders : e # d => dec'[e] = dec[e]
  BY <1>1 DEF LInv, Become
<1>3. ASSUME NEW e \in Decoders
      PROVE  FollowInv(Width(e)', file', visited'[e], decoded'[e], dec'[e])
  <2>1. Width(e)' = Width(e)
    BY DEF Width
  <2> QED BY <1>2, <2>1 DEF LInv
<1> QED BY <1>2, <1>3 DEF LInv

LEMMA EndIs ==
    ASSUME NEW s \in State, NEW status \in Statuses, NEW r, r = End(s, status)
    PROVE  /\ r \in State /\ r.at = "done" /\ r.tasks = s.tasks
           /\ Pending(r) = Pending(s) /\ (Intact(r) => Intact(s))
           /\ status = "LimitExceeded" => ~Intact(r)
<1>1. PICK m : m = Mark(s, status)
  OBVIOUS
<1>2. /\ m \in State /\ m.tasks = s.tasks /\ m.input = s.input /\ m.needed = s.needed
      /\ m.status # "LimitExceeded" => s.status # "LimitExceeded" /\ status # "LimitExceeded"
  BY <1>1, MarkIs
<1>3. r = [m EXCEPT !.at = "done"]
  BY <1>1 DEF End
<1>4. /\ r \in State /\ r.at = "done" /\ r.tasks = m.tasks /\ r.input = m.input
      /\ r.needed = m.needed /\ r.status = m.status
  BY <1>2, <1>3 DEF State
<1> QED BY <1>2, <1>4 DEF Pending, Intact, Uncut

LEMMA NothingPending == ASSUME NEW s, s.tasks = <<>> PROVE Pending(s) = {}
BY DEF Pending

LEMMA BeginKeepsLInv ==
    ASSUME LInv, IInv', NEW d \in Decoders, Begin(d)
    PROVE  LInv'
<1> PICK s : s = dec[d]
  OBVIOUS
<1>1. s \in State /\ s.at = "idle" /\ FollowInv(Width(d), file, visited[d], decoded[d], s)
  BY DEF LInv, Begin
<1>2. UNCHANGED <<file, options, visited, decoded>>
  BY DEF Begin
<1>3. Intact(s) => s.tasks = <<>>
  BY <1>1 DEF FollowInv, Followed
<1>4. ASSUME NEW status \in {"LimitExceeded", "Malformed", "Unsupported"}, Become(d, End(s, status)),
             status = "LimitExceeded" \/ file.header # "Good" \/ file.first >= Size
      PROVE  LInv'
  <2>1. PICK r : r = End(s, status)
    OBVIOUS
  <2>2. /\ r \in State /\ r.at = "done" /\ r.tasks = s.tasks
        /\ Pending(r) = Pending(s) /\ (Intact(r) => Intact(s))
        /\ status = "LimitExceeded" => ~Intact(r)
    BY <1>1, <2>1, EndIs DEF Statuses
  <2>3. Intact(r) => FirstKnown(file, visited[d], r)
    <3>1. file.first >= Size => file.first \notin Offsets
      BY SizesAssumption DEF Offsets, LInv, FileType
    <3> QED BY <1>4, <2>2, <3>1 DEF FirstKnown
  <2>4. FollowInv(Width(d), file, visited[d], decoded[d], r)
    BY <1>1, <1>3, <2>2, <2>3, MovingKeeps DEF Known
  <2> QED BY <1>2, <1>4, <2>1, <2>4, OthersStay
<1>5. ASSUME file.header = "Good", file.first < Size,
             Become(d, [s EXCEPT !.at = "loop", !.tasks =
                           IF file.first = 0 THEN <<>>
                           ELSE <<[kind |-> "Ifd", index |-> 0, offset |-> file.first]>>])
      PROVE  LInv'
  <2>7. PICK tasks : tasks = IF file.first = 0 THEN <<>>
                           ELSE <<[kind |-> "Ifd", index |-> 0, offset |-> file.first]>>
    OBVIOUS
  <2>8. PICK r : r = [s EXCEPT !.at = "loop", !.tasks = tasks]
    OBVIOUS
  <2>1. file.first \in Nat
    BY SizesAssumption DEF LInv, FileType
  <2>2. tasks \in Seq(TaskType)
    <3>3. PICK t : t = [kind |-> "Ifd", index |-> 0, offset |-> file.first]
      OBVIOUS
    <3>1. t \in TaskType
      BY <2>1, <3>3 DEF TaskType, Kinds
    <3>2. tasks = <<>> \/ tasks = <<t>>
      BY <2>7, <3>3
    <3>4. CASE tasks = <<>>
      BY <3>4
    <3>5. CASE tasks = <<t>>
      BY <3>1, <3>5
    <3> QED BY <3>2, <3>4, <3>5
  <2>3. r \in State /\ r.at = "loop" /\ r.tasks = tasks /\ (Intact(r) => Intact(s))
    BY <1>1, <2>2, <2>8 DEF State, Intact, Uncut
  <2>4. file.first \in Offsets => file.first \in Pending(r)
    BY <2>1, <2>3, <2>7 DEF Pending, Offsets
  <2>5. FollowInv(Width(d), file, visited[d], decoded[d], r)
    <3>1. Intact(s) => Pending(s) = {}
      BY <1>3, NothingPending
    <3>2. FirstKnown(file, visited[d], r)
      BY <2>4 DEF FirstKnown, Known
    <3>3. Intact(r) => /\ Intact(s) /\ r.at \in {"loop", "done"}
                       /\ r.at = "done" => r.tasks = <<>>
                       /\ \A o \in Offsets : o \in Pending(s) => Known(visited[d], r, o)
                       /\ s.at # "idle" \/ FirstKnown(file, visited[d], r)
      BY <2>3, <3>1, <3>2
    <3> QED BY <1>1, <2>3, <3>3, MovingKeeps
  <2>6. Become(d, r)
    BY <1>5, <2>7, <2>8
  <2> QED BY <1>2, <2>5, <2>6, OthersStay
<1> QED BY <1>4, <1>5 DEF Begin

LEMMA SkipKeepsLInv ==
    ASSUME LInv, IInv', NEW d \in Decoders, Skip(d)
    PROVE  LInv'
<1> PICK s, r, t : s = dec[d] /\ r = Taken(s) /\ t = Task(s)
  OBVIOUS
<1>1. /\ s \in State /\ s.at = "loop" /\ s.tasks # <<>> /\ ~Fresh(d, t) /\ Become(d, r)
      /\ FollowInv(Width(d), file, visited[d], decoded[d], s)
  BY DEF LInv, Skip, Looping
<1>2. UNCHANGED <<file, options, visited, decoded>>
  BY DEF Skip
<1>3. /\ r \in State /\ r.at = "loop" /\ (Intact(r) => Intact(s))
      /\ Pending(s) \subseteq Pending(r) \cup {t.offset}
  BY <1>1, TakenKeeps DEF Intact, Uncut
<1>4. t.offset \in Offsets => visited[d][t.offset] # {}
  BY <1>1 DEF Fresh, Allowed
<1>5. FollowInv(Width(d), file, visited[d], decoded[d], r)
  BY <1>1, <1>3, <1>4, MovingKeeps DEF Known
<1> QED BY <1>1, <1>2, <1>5, OthersStay

LEMMA RefuseKeepsLInv ==
    ASSUME LInv, IInv', NEW d \in Decoders, Refuse(d)
    PROVE  LInv'
<1> PICK s, u, m, r : /\ s = dec[d] /\ u = Taken(s) /\ m = Mark(u, "LimitExceeded")
                      /\ r = [m EXCEPT !.at = "break"]
  OBVIOUS
<1>1. s \in State /\ s.tasks # <<>> /\ Become(d, r)
  BY DEF LInv, Refuse, Looping
<1>2. UNCHANGED <<file, options, decoded>> /\ (UNCHANGED visited \/ Visit(d, Task(dec[d])))
  BY DEF Refuse
<1>3. u \in State
  BY <1>1, TakenKeeps
<1>4. m \in State /\ m.status = "LimitExceeded"
  BY <1>3, MarkIs DEF Statuses
<1>5. r \in State /\ ~Intact(r)
  BY <1>4 DEF State, Intact, Uncut
<1>6. FollowInv(Width(d), file, visited'[d], decoded[d], r)
  BY <1>5, CutKeeps
<1>7. \A e \in Decoders : e # d => visited'[e] = visited[e]
  BY <1>2 DEF Visit, LInv, IInv
<1> QED BY <1>1, <1>2, <1>6, <1>7, OthersStay

LEMMA FinishKeepsLInv ==
    ASSUME LInv, IInv', NEW d \in Decoders, Finish(d)
    PROVE  LInv'
<1> PICK s : s = dec[d]
  OBVIOUS
<1>1. /\ s \in State
      /\ s.at = "break" \/ (s.at = "loop" /\ s.tasks = <<>>)
      /\ FollowInv(Width(d), file, visited[d], decoded[d], s)
  BY DEF LInv, Finish
<1>2. PICK status \in {"Ok", "LimitExceeded"} : Become(d, End(s, status))
  BY DEF Finish
<1>3. PICK r : r = End(s, status)
  OBVIOUS
<1>4. /\ r \in State /\ r.at = "done" /\ r.tasks = s.tasks
      /\ Pending(r) = Pending(s) /\ (Intact(r) => Intact(s))
  BY <1>1, <1>3, EndIs DEF Statuses
<1>5. Intact(s) => s.at = "loop" /\ s.tasks = <<>>
  BY <1>1 DEF FollowInv, Followed
<1>6. FollowInv(Width(d), file, visited[d], decoded[d], r)
  BY <1>1, <1>4, <1>5, MovingKeeps DEF Known
<1>7. UNCHANGED <<file, options, visited, decoded>>
  BY DEF Finish
<1> QED BY <1>2, <1>3, <1>6, <1>7, OthersStay

LEMMA TaskMayOpen ==
    ASSUME LInv, NEW d \in Decoders, NEW t, t = Task(dec[d]), MayOpen(d, t),
           NEW u, u = Taken(dec[d])
    PROVE  /\ dec[d] \in State /\ dec[d].at = "loop" /\ u \in State /\ u.at = "loop"
           /\ t \in TaskType /\ t.offset \in Offsets
           /\ u.entries = dec[d].entries /\ (Intact(u) => Intact(dec[d]))
           /\ Pending(dec[d]) \subseteq Pending(u) \cup {t.offset}
<1>1. dec[d] \in State /\ dec[d].at = "loop" /\ dec[d].tasks # <<>> /\ t.offset \in Offsets
  BY DEF LInv, MayOpen, Looping, Fresh
<1>2. PICK s : s = dec[d]
  OBVIOUS
<1>3. /\ u \in State /\ t \in TaskType /\ u.at = s.at /\ u.input = s.input
      /\ u.status = s.status /\ u.needed = s.needed /\ u.entries = s.entries
      /\ Pending(s) \subseteq Pending(u) \cup {t.offset}
  BY <1>1, <1>2, TakenKeeps
<1> QED BY <1>1, <1>2, <1>3 DEF Intact, Uncut

LEMMA HeldIs ==
    ASSUME LInv, NEW o \in Offsets, NEW ifd \in Held(o)
    PROVE  ifd \in Directory /\ (file.ifds[o] = Unread \/ ifd = file.ifds[o])
<1>1. file.ifds[o] \in Directory \cup {Unread}
  BY DEF LInv, FileType
<1>2. Contents[o] \subseteq Directory
  BY FilesAssumption
<1> QED BY <1>1, <1>2 DEF Held

\* A step of d in which a directory may be read.
LEMMA ReadingKeepsLInv ==
    ASSUME LInv, IInv', NEW d \in Decoders, NEW r, Become(d, r), UNCHANGED options,
           NEW g, file' = g, g \in FileType, Grows(file, g),
           \A e \in Decoders : e # d => visited'[e] = visited[e] /\ decoded'[e] = decoded[e],
           FollowInv(Width(d), g, visited'[d], decoded'[d], r)
    PROVE  LInv'
<1>1. r \in State
  BY DEF FollowInv
<1>2. dec' \in [Decoders -> State] /\ dec'[d] = r /\ \A e \in Decoders : e # d => dec'[e] = dec[e]
  BY <1>1 DEF LInv, Become
<1>3. ASSUME NEW e \in Decoders
      PROVE  FollowInv(Width(e)', g, visited'[e], decoded'[e], dec'[e])
  <2>0. Width(e)' = Width(e)
    BY DEF Width
  <2>1. CASE e = d
    BY <1>2, <2>0, <2>1
  <2>2. CASE e # d
    <3>1. SeenIn(decoded[e], visited[e]) /\ FollowInv(Width(e), file, visited[e], decoded[e], dec[e])
      BY DEF LInv, IInv, WalkInv
    <3>2. FollowInv(Width(e), g, visited[e], decoded[e], dec[e])
      BY <3>1, GrowingKeeps
    <3> QED BY <1>2, <2>0, <2>2, <3>2
  <2> QED BY <2>1, <2>2
<1> QED BY <1>2, <1>3 DEF LInv

LEMMA VisitIs ==
    ASSUME IInv, NEW d \in Decoders, NEW t, t.offset \in Offsets, Visit(d, t)
    PROVE  /\ visited'[d] = Entered(visited[d], t)
           /\ \A e \in Decoders : e # d => visited'[e] = visited[e]
BY DEF Visit, Entered, IInv

LEMMA EmitIs ==
    ASSUME IInv, NEW d \in Decoders, NEW t, Emit(d, t)
    PROVE  /\ decoded'[d] = Append(decoded[d], t)
           /\ \A e \in Decoders : e # d => decoded'[e] = decoded[e]
BY DEF Emit, IInv

LEMMA OpenKeepsLInv ==
    ASSUME LInv, IInv', NEW d \in Decoders, Open(d)
    PROVE  LInv'
<1> PICK s, t, u, o : s = dec[d] /\ t = Task(s) /\ u = Taken(s) /\ o = t.offset
  OBVIOUS
<1>1. MayOpen(d, t) /\ Visit(d, t) /\ UNCHANGED options
  BY DEF Open, OpenTask
<1>2. PICK ifd \in Held(o) :
          /\ Read(o, ifd) /\ Become(d, DecodedIfd(d, u, t, ifd))
          /\ IF Emits(s, ifd) THEN Emit(d, t) ELSE UNCHANGED decoded
  BY DEF Open, OpenTask
<1>3. /\ s \in State /\ s.at = "loop" /\ u \in State /\ u.at = "loop"
      /\ t \in TaskType /\ o \in Offsets
      /\ u.entries = s.entries /\ (Intact(u) => Intact(s))
      /\ Pending(s) \subseteq Pending(u) \cup {o}
  BY <1>1, TaskMayOpen
<1>4. ifd \in Directory /\ (file.ifds[o] = Unread \/ ifd = file.ifds[o])
  BY <1>2, <1>3, HeldIs
<1> PICK g : g = WithRead(file, o, ifd)
  OBVIOUS
<1>5. g \in FileType /\ Grows(file, g) /\ file' = g
  BY <1>2, <1>3, <1>4, ReadGrows DEF LInv, Read, WithRead
<1>6. IInv /\ WalkInv(visited[d], decoded[d])
  BY DEF LInv, IInv
<1>7. /\ visited'[d] = Entered(visited[d], t)
      /\ \A e \in Decoders : e # d => visited'[e] = visited[e]
  BY <1>1, <1>3, <1>6, VisitIs
<1>8. /\ decoded'[d] = IF Emits(s, ifd) THEN Append(decoded[d], t) ELSE decoded[d]
      /\ \A e \in Decoders : e # d => decoded'[e] = decoded[e]
  BY <1>2, <1>6, EmitIs
<1>9. FollowInv(Width(d), g, visited'[d], decoded'[d], DecodedIfd(d, u, t, ifd))
  <2>1. FollowInv(Width(d), file, visited[d], decoded[d], s) /\ file \in FileType
    BY DEF LInv
  <2> PICK table, refs, all, f, w : /\ table = visited[d] /\ refs = decoded[d]
                                    /\ all = decoded'[d] /\ f = file /\ w = Width(d)
    OBVIOUS
  <2>2. IsTable(table) /\ IsSequence(refs) /\ SeenIn(refs, table)
    BY <1>6 DEF WalkInv
  <2>3. all = IF Emits(s, ifd) THEN Append(refs, t) ELSE refs
    BY <1>8
  <2>4. u.at = s.at
    BY <1>3
  <2>5. FollowInv(w, f, table, refs, s) /\ f \in FileType
    BY <2>1
  <2>6. FollowInv(w, WithRead(f, o, ifd), Entered(table, t), all, DecodedIfd(d, u, t, ifd))
    BY <1>3, <1>4, <2>2, <2>3, <2>4, <2>5, OpeningKeeps
  <2> QED BY <1>7, <2>6
<1> QED BY <1>1, <1>2, <1>5, <1>7, <1>8, <1>9, ReadingKeepsLInv

LEMMA BrokenIsCut ==
    ASSUME NEW s \in State, NEW status \in Failures, NEW w, NEW f, NEW table, NEW refs
    PROVE  FollowInv(w, f, table, refs, Broken(s, status))
<1>1. status \in Statuses
  BY FilesAssumption DEF Statuses
<1>2. Broken(s, status) \in State /\ Broken(s, status).input = "Failed"
  BY <1>1, BrokenIs
<1> QED BY <1>2, CutKeeps DEF Intact

LEMMA OpenFailsKeepsLInv ==
    ASSUME LInv, IInv', OpenFails
    PROVE  LInv'
<1> PICK s, t, u, o, d : /\ d = "Callback" /\ s = dec[d] /\ t = Task(s) /\ u = Taken(s)
                         /\ o = t.offset
  OBVIOUS
<1>0. d \in Decoders
  BY DEF Decoders
<1>1. MayOpen(d, t) /\ Visit(d, t) /\ UNCHANGED options
  BY DEF OpenFails, OpenTaskFails
<1>2. /\ u \in State /\ t \in TaskType /\ o \in Offsets
  BY <1>0, <1>1, TaskMayOpen
<1>3. IInv
  BY DEF LInv
<1>4. \A e \in Decoders : e # d => visited'[e] = visited[e]
  BY <1>0, <1>1, <1>2, <1>3, VisitIs
<1>5. ASSUME NEW status \in Failures, Become(d, Broken(u, status)), UNCHANGED <<file, decoded>>
      PROVE  LInv'
  <2>1. file \in FileType /\ Grows(file, file)
    BY DEF LInv, Grows
  <2>2. FollowInv(Width(d), file, visited'[d], decoded'[d], Broken(u, status))
    BY <1>2, BrokenIsCut
  <2> QED BY <1>0, <1>1, <1>4, <1>5, <2>1, <2>2, ReadingKeepsLInv
<1>6. ASSUME NEW ifd \in Held(o), Read(o, ifd), Emit(d, t),
             NEW n \in 0..Len(ifd.entries), NEW status \in Failures,
             NEW r, r = Entries(d, t, Emitted(d, u), SubSeq(ifd.entries, 1, n)),
             NEW q \in {r} \cup StoredAlone(r, ifd.entries, n), Become(d, Broken(q, status))
      PROVE  LInv'
  <2>1. ifd \in Directory /\ (file.ifds[o] = Unread \/ ifd = file.ifds[o])
    BY <1>2, <1>6, HeldIs
  <2> PICK g : g = WithRead(file, o, ifd)
    OBVIOUS
  <2>2. g \in FileType /\ Grows(file, g) /\ file' = g
    BY <1>2, <1>6, <2>1, ReadGrows DEF LInv, Read, WithRead
  <2>3. Emitted(d, u) \in State
    BY <1>2, EmittedGains DEF Gains
  <2>4. SubSeq(ifd.entries, 1, n) \in Seq(Entry)
    <3>1. ifd.entries \in Seq(Entry)
      BY <2>1 DEF Directory
    <3> PICK es, m : es = ifd.entries /\ m = Len(es)
      OBVIOUS
    <3>2. 1 \in 1..m + 1 /\ n \in 0..m
      BY <1>6, <3>1
    <3> QED BY <3>1, <3>2, SubSeqProperties
  <2>5. r \in State
    BY <1>2, <1>6, <2>3, <2>4, EntriesGain DEF Gains
  <2>6. q \in State
    BY <1>6, <2>5, StoredGains DEF StoredAlone, Gains
  <2>7. FollowInv(Width(d), g, visited'[d], decoded'[d], Broken(q, status))
    BY <2>6, BrokenIsCut
  <2>8. \A e \in Decoders : e # d => decoded'[e] = decoded[e]
    BY <1>0, <1>3, <1>6, EmitIs
  <2> QED BY <1>0, <1>1, <1>4, <1>6, <2>2, <2>7, <2>8, ReadingKeepsLInv
<1> QED BY <1>5, <1>6 DEF OpenFails, OpenTaskFails

LEMMA BeginFailsKeepsLInv ==
    ASSUME LInv, IInv', BeginFails
    PROVE  LInv'
<1> PICK s, d : d = "Callback" /\ s = dec[d]
  OBVIOUS
<1>0. d \in Decoders /\ s \in State
  BY DEF Decoders, LInv
<1>1. PICK status \in Failures : Become(d, [Failed(s, status) EXCEPT !.at = "done"])
  BY DEF BeginFails
<1>2. PICK m, r : m = Mark(s, status) /\ r = [[m EXCEPT !.input = "Failed"] EXCEPT !.at = "done"]
  OBVIOUS
<1>3. m \in State
  <2>1. status \in Statuses
    BY FilesAssumption DEF Statuses
  <2> QED BY <1>0, <1>2, <2>1, MarkIs
<1>4. r \in State /\ ~Intact(r)
  BY <1>2, <1>3 DEF State, Intact
<1>5. Become(d, r)
  BY <1>1, <1>2 DEF Failed
<1>6. FollowInv(Width(d), file, visited[d], decoded[d], r)
  BY <1>4, CutKeeps
<1>7. UNCHANGED <<file, options, visited, decoded>>
  BY DEF BeginFails
<1> QED BY <1>0, <1>5, <1>6, <1>7, OthersStay

LEMMA InitLInv == Init => LInv
<1> SUFFICES ASSUME Init PROVE LInv
  OBVIOUS
<1>1. IInv
  BY InitInv
<1>2. options \in Options
  BY FilesAssumption DEF Init
<1>3. PICK h \in Headers, f \in Firsts :
          file = [header |-> h, first |-> f, ifds |-> [o \in Offsets |-> Unread]]
  BY DEF Init
<1>4. file \in FileType
  <2>1. h \in {"Good", "Short", "Foreign"} /\ f \in 0..Size
    BY FilesAssumption
  <2>2. PICK ifds : ifds = [o \in Offsets |-> Unread]
    OBVIOUS
  <2>3. ifds \in [Offsets -> Directory \cup {Unread}]
    BY <2>2
  <2> QED BY <1>3, <2>1, <2>2, <2>3 DEF FileType
<1>5. Idle \in State
  BY DEF Idle, State, Statuses
<1>6. dec \in [Decoders -> State] /\ \A d \in Decoders : dec[d] = Idle
  BY <1>5 DEF Init
<1>7. ASSUME NEW d \in Decoders
      PROVE  FollowInv(Width(d), file, visited[d], decoded[d], dec[d])
  <2>1. visited[d] = [o \in Offsets |-> {}] /\ decoded[d] = <<>>
    BY DEF Init
  <2>2. WholeOnesGiven(file, visited[d], decoded[d])
    BY <2>1 DEF WholeOnesGiven
  <2>3. LinksKnown(Width(d), file, visited[d], decoded[d], dec[d])
    BY <2>1 DEF LinksKnown
  <2>4. FirstKnown(file, visited[d], dec[d]) /\ Idle.at = "idle" /\ Idle.tasks = <<>>
    BY <1>6 DEF FirstKnown, Idle
  <2> QED BY <1>5, <1>6, <2>2, <2>3, <2>4 DEF FollowInv, Followed
<1> QED BY <1>1, <1>2, <1>4, <1>6, <1>7 DEF LInv

LEMMA NextLInv == LInv /\ [Next]_vars => LInv'
<1> SUFFICES ASSUME LInv, [Next]_vars PROVE LInv'
  OBVIOUS
<1>1. IInv'
  BY NextInv DEF LInv
<1>2. ASSUME NEW d \in Decoders, Calls(d)
      PROVE  LInv'
  BY <1>1, <1>2, BeginKeepsLInv, SkipKeepsLInv, RefuseKeepsLInv, OpenKeepsLInv, FinishKeepsLInv
     DEF Calls, Walk
<1>3. CASE BeginFails
  BY <1>1, <1>3, BeginFailsKeepsLInv
<1>4. CASE OpenFails
  BY <1>1, <1>4, OpenFailsKeepsLInv
<1>5. CASE Done \/ UNCHANGED vars
  <2>1. UNCHANGED <<file, options, dec, visited, decoded>>
    BY <1>5 DEF Done, vars
  <2>2. ASSUME NEW d \in Decoders PROVE Width(d)' = Width(d)
    BY <2>1 DEF Width
  <2> QED BY <1>1, <2>1, <2>2 DEF LInv
<1> QED BY <1>2, <1>3, <1>4, <1>5 DEF Next

\* What a directory leads to, as the property and as the lemmas say it.
LEMMA LinksAre ==
    ASSUME NEW d, NEW ref, NEW o \in Offsets, o \in Links(d, ref)
    PROVE  o \in LinksIn(Width(d), file, ref)
<1>1. PICK ifd : ifd = file.ifds[ref.offset]
  OBVIOUS
<1>2. \/ o \in UNION {KnownLinks(d, ref, e) : e \in Range(ifd.entries)}
      \/ ref.kind = "Ifd" /\ o = ifd.next
  BY <1>1 DEF Links
<1>3. LinksIn(Width(d), file, ref) = AllLinks(Width(d), ref, ifd)
  BY <1>1 DEF LinksIn
<1>4. \A e : KnownLinks(d, ref, e) = Tells(Width(d), ref, e)
  BY TellsAreKnown
<1> QED BY <1>2, <1>3, <1>4 DEF AllLinks, NextLinks, Told

LEMMA EverythingIsFollowed == LInv => LinksFollowed
<1> SUFFICES ASSUME LInv, NEW d \in Decoders, Complete(d), file.header = "Good",
                    NEW o \in Offsets,
                    o = file.first \/ \E i \in DOMAIN decoded[d] : o \in Links(d, decoded[d][i]),
                    file.ifds[o].shape = "Whole"
             PROVE  DecodedAt(d, o)
  BY DEF LinksFollowed
<1> PICK s, table, refs : s = dec[d] /\ table = visited[d] /\ refs = decoded[d]
  OBVIOUS
<1>1. Intact(s) /\ s.at = "done" /\ FollowInv(Width(d), file, table, refs, s)
  BY DEF LInv, Complete, Intact, Uncut
<1>2. Followed(Width(d), file, table, refs, s)
  BY <1>1 DEF FollowInv
<1>3. Pending(s) = {}
  BY <1>1, <1>2, NothingPending DEF Followed
<1>4. Known(table, s, o)
  <2>1. CASE o = file.first
    BY <1>1, <1>2, <2>1 DEF Followed, FirstKnown
  <2>2. ASSUME NEW i \in DOMAIN refs, o \in Links(d, refs[i])
        PROVE  Known(table, s, o)
    <3>1. o \in LinksIn(Width(d), file, refs[i])
      BY <2>2, LinksAre
    <3> QED BY <1>2, <3>1 DEF Followed, LinksKnown
  <2> QED BY <2>1, <2>2
<1> QED BY <1>2, <1>3, <1>4 DEF Followed, WholeOnesGiven, Known, DecodedAt

\* A call that reports nothing as cut short has decoded the first directory and
\* everything that what it decoded leads to, whatever the file holds and in
\* whatever order the tasks are taken: for the contiguous decoder all of it, for
\* the callback decoder all but what only an array of pointers above
\* max_value_bytes names.
THEOREM NothingIsLost == Spec => []LinksFollowed
BY InitLInv, NextLInv, EverythingIsFollowed, PTL DEF Spec
=============================================================================
