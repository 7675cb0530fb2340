-------------------------- MODULE SnapshotRead_proofs --------------------------
(***************************************************************************)
(* The budget of a snapshot, for any depth of nesting, any number of       *)
(* blocks, any sizes, ceilings and widths of the counters.                 *)
(*                                                                         *)
(* The argument: an operation is given what its caller has left (Within),  *)
(* and only when something is, so what all have asked for together is what *)
(* the last one may not spend any more, and what it has spent.  What the   *)
(* operations count is what they were asked for between two marks (Sums),  *)
(* each up to the width of its counter.  Both survive that an operation    *)
(* returns and its accounting is merged into its caller's.                 *)
(***************************************************************************)
EXTENDS SnapshotRead, SequenceTheorems, TLAPS

\* The parts that n operations count, each up to max, of all.
Marked(n, used, max, all, mark) ==
    /\ mark \in [1..(n + 1) -> Nat]
    /\ mark[1] = 0 /\ mark[n + 1] = all
    /\ \A i \in 1..n : mark[i] <= mark[i + 1] /\ used[i] = Least(max, mark[i + 1] - mark[i])

Sums(n, used, max, all) == \E mark : Marked(n, used, max, all, mark)

\* What n operations have used of a ceiling, 0 being none.
Within(n, limit, used, all, code) ==
    limit[1] # 0 =>
        /\ all <= limit[1]
        /\ code = "Ok" => all = (limit[1] - limit[n]) + used[n]
        /\ \A i \in 1..n : 1 <= limit[i] /\ limit[i] <= limit[1] /\ used[i] <= limit[i]
        /\ \A i \in 1..n : i < n => limit[i + 1] = limit[i] - used[i]

-----------------------------------------------------------------------------
(* The counts of n operations, when the last one reads m more, when it      *)
(* starts another one, and when it returns.                                 *)

More(n, used, m) == [i \in 1..n |-> IF i = n THEN used[n] + m ELSE used[i]]
And(n, used, last) == [i \in 1..(n + 1) |-> IF i = n + 1 THEN last ELSE used[i]]
Merged(n, used, max) ==
    [i \in 1..(n - 1) |-> IF i = n - 1 THEN Least(max, used[n - 1] + used[n]) ELSE used[i]]
Callers(n, limit) == [i \in 1..(n - 1) |-> limit[i]]

\* Saturating sums.
LEMMA LeastBounded ==
    ASSUME NEW max \in Nat, NEW x \in Nat
    PROVE  Least(max, x) \in 0..max
  BY DEF Least

LEMMA LeastGrows ==
    ASSUME NEW max \in Nat, NEW a \in Nat, NEW b \in Nat, a <= b, NEW m \in Nat \ {0},
           Least(max, b - a) + m <= max
    PROVE  Least(max, b - a) + m = Least(max, (b + m) - a) /\ a <= b + m
  BY DEF Least

LEMMA SumsMore ==
    ASSUME NEW n \in Nat \ {0}, NEW max \in Nat, NEW used \in [1..n -> 0..max],
           NEW all \in Nat, NEW m \in Nat \ {0}, used[n] + m <= max, Sums(n, used, max, all)
    PROVE  Sums(n, More(n, used, m), max, all + m)
<1>1. PICK mark : Marked(n, used, max, all, mark)
  BY DEF Sums
<1>2. PICK new : new = [i \in 1..(n + 1) |-> IF i = n + 1 THEN all + m ELSE mark[i]]
  OBVIOUS
<1>3. PICK more : more = More(n, used, m)
  OBVIOUS
<1>4. /\ new \in [1..(n + 1) -> Nat] /\ new[1] = 0 /\ new[n + 1] = all + m
      /\ \A i \in 1..n : new[i] = mark[i]
  BY <1>1, <1>2 DEF Marked
<1>5. ASSUME NEW i \in 1..n
      PROVE  new[i] <= new[i + 1] /\ more[i] = Least(max, new[i + 1] - new[i])
  <2>0. /\ mark[i] \in Nat /\ mark[i + 1] \in Nat /\ mark[i] <= mark[i + 1]
        /\ used[i] \in Nat /\ used[i] = Least(max, mark[i + 1] - mark[i])
    BY <1>1, SMTT(40) DEF Marked
  <2>1. CASE i = n
    <3>1. mark[i + 1] = all /\ new[i + 1] = all + m /\ new[i] = mark[i]
      BY <1>1, <1>4, <2>1 DEF Marked
    <3>2. more[i] = used[i] + m /\ used[i] + m <= max
      BY <1>3, <2>1 DEF More
    <3>3. all \in Nat /\ mark[i] <= all /\ used[i] = Least(max, all - mark[i])
      BY <2>0, <3>1
    <3>4. Least(max, all - mark[i]) + m <= max
      BY <3>2, <3>3
    <3>5. /\ Least(max, all - mark[i]) + m = Least(max, (all + m) - mark[i])
          /\ mark[i] <= all + m
      BY <2>0, <3>3, <3>4, LeastGrows
    <3> QED
      BY <3>1, <3>2, <3>3, <3>5
  <2>2. CASE i # n
    <3>1. i + 1 \in 1..n
      BY <2>2
    <3>2. new[i] = mark[i] /\ new[i + 1] = mark[i + 1] /\ more[i] = used[i]
      BY <1>3, <1>4, <2>2, <3>1 DEF More
    <3> QED
      BY <2>0, <3>2
  <2> QED
    BY <2>1, <2>2
<1>6. Marked(n, more, max, all + m, new)
  BY <1>4, <1>5 DEF Marked
<1> QED
  BY <1>3, <1>6 DEF Sums

LEMMA SumsAnd ==
    ASSUME NEW n \in Nat \ {0}, NEW max \in Nat, NEW used \in [1..n -> 0..max],
           NEW all \in Nat, Sums(n, used, max, all)
    PROVE  Sums(n + 1, And(n, used, 0), max, all)
<1>1. PICK mark : Marked(n, used, max, all, mark)
  BY DEF Sums
<1>2. PICK new : new = [i \in 1..((n + 1) + 1) |-> IF i = n + 2 THEN all ELSE mark[i]]
  OBVIOUS
<1>3. PICK next : next = And(n, used, 0)
  OBVIOUS
<1>4. /\ new \in [1..((n + 1) + 1) -> Nat] /\ new[1] = 0 /\ new[(n + 1) + 1] = all
      /\ \A i \in 1..(n + 1) : new[i] = mark[i]
  BY <1>1, <1>2 DEF Marked
<1>5. ASSUME NEW i \in 1..(n + 1)
      PROVE  new[i] <= new[i + 1] /\ next[i] = Least(max, new[i + 1] - new[i])
  <2>1. CASE i = n + 1
    BY <1>1, <1>3, <1>4, <2>1 DEF Least, And, Marked
  <2>2. CASE i # n + 1
    <3>1. i \in 1..n /\ i + 1 \in 1..(n + 1)
      BY <2>2
    <3>2. new[i] = mark[i] /\ new[i + 1] = mark[i + 1] /\ next[i] = used[i]
      BY <1>3, <1>4, <3>1 DEF And
    <3> QED
      BY <1>1, <3>1, <3>2 DEF Marked
  <2> QED
    BY <2>1, <2>2
<1>6. Marked(n + 1, next, max, all, new)
  BY <1>4, <1>5 DEF Marked
<1> QED
  BY <1>3, <1>6 DEF Sums

LEMMA SumsMerged ==
    ASSUME NEW n \in Nat, n >= 2, NEW max \in Nat, NEW used \in [1..n -> 0..max],
           NEW all \in Nat, Sums(n, used, max, all)
    PROVE  Sums(n - 1, Merged(n, used, max), max, all)
<1>1. PICK mark : Marked(n, used, max, all, mark)
  BY DEF Sums
<1>2. PICK new : new = [i \in 1..((n - 1) + 1) |-> IF i = n THEN all ELSE mark[i]]
  OBVIOUS
<1>3. PICK next : next = Merged(n, used, max)
  OBVIOUS
<1>4. /\ new \in [1..((n - 1) + 1) -> Nat] /\ new[1] = 0 /\ new[(n - 1) + 1] = all
      /\ \A i \in 1..(n - 1) : new[i] = mark[i]
  BY <1>1, <1>2, SMTT(40) DEF Marked
<1>5. ASSUME NEW i \in 1..(n - 1)
      PROVE  new[i] <= new[i + 1] /\ next[i] = Least(max, new[i + 1] - new[i])
  <2>0. i \in 1..n /\ i + 1 \in 1..n /\ i + 1 \in 1..(n + 1) /\ i \in 1..(n + 1)
    OBVIOUS
  <2>1. /\ mark[i] \in Nat /\ mark[i + 1] \in Nat /\ mark[i] <= mark[i + 1]
        /\ used[i] = Least(max, mark[i + 1] - mark[i])
    BY <1>1, <2>0 DEF Marked
  <2>2. CASE i = n - 1
    <3>1. i + 1 = n /\ (n - 1) + 1 = n
      BY <2>2
    <3>2. mark[n] <= all /\ used[n] = Least(max, all - mark[n])
      BY <1>1 DEF Marked
    <3>3. next[i] = Least(max, used[i] + used[i + 1])
      BY <1>3, <2>2, <3>1 DEF Merged
    <3>4. used[i] = Least(max, mark[n] - mark[i]) /\ mark[i] <= mark[n] /\ mark[n] \in Nat
      BY <2>1, <3>1
    <3>5. Least(max, Least(max, mark[n] - mark[i]) + Least(max, all - mark[n]))
            = Least(max, all - mark[i])
      <4>1. PICK a \in Nat : a = mark[i]
        BY <2>1
      <4>2. PICK b \in Nat : b = mark[n]
        BY <3>4
      <4>3. a <= b /\ b <= all
        BY <3>2, <3>4, <4>1, <4>2
      <4>4. Least(max, Least(max, b - a) + Least(max, all - b)) = Least(max, all - a)
        BY <4>3 DEF Least
      <4> QED
        BY <4>1, <4>2, <4>4
    <3>6. next[i] = Least(max, all - mark[i])
      BY <3>1, <3>2, <3>3, <3>4, <3>5
    <3>7. mark[i] <= all
      BY <2>1, <3>2, <3>4
    <3> QED
      BY <1>4, <2>0, <2>1, <3>1, <3>6, <3>7
  <2>3. CASE i # n - 1
    <3>1. i + 1 \in 1..(n - 1)
      BY <2>3
    <3>2. new[i] = mark[i] /\ new[i + 1] = mark[i + 1] /\ next[i] = used[i]
      BY <1>3, <1>4, <2>3, <3>1 DEF Merged
    <3> QED
      BY <2>1, <3>2
  <2> QED
    BY <2>2, <2>3
<1>6. Marked(n - 1, next, max, all, new)
  BY <1>4, <1>5 DEF Marked
<1> QED
  BY <1>3, <1>6 DEF Sums

LEMMA SumsOfOne ==
    ASSUME NEW used, NEW max, NEW all \in Nat, Sums(1, used, max, all)
    PROVE  used[1] = Least(max, all)
<1>1. PICK mark : Marked(1, used, max, all, mark)
  BY DEF Sums
<1> QED
  BY <1>1 DEF Marked

-----------------------------------------------------------------------------
(* One account, of requests or of bytes: the ceilings of n operations, what  *)
(* they used of them and what the source was asked for in all, while the     *)
(* last operation has this code and formats of this kind are read.           *)

Account(n, limit, used, max, all, code, k) ==
    /\ n \in Nat \ {0} /\ max \in Nat /\ all \in Nat
    /\ limit \in [1..n -> 0..max] /\ used \in [1..n -> 0..max]
    /\ code = "ContractViolation" \/ Sums(n, used, max, all)
    /\ k = "embedded" \/ Within(n, limit, used, all, code)

\* The last operation is refused something.
LEMMA AccountFails ==
    ASSUME NEW n, NEW limit, NEW used, NEW max, NEW all, NEW code, NEW k,
           Account(n, limit, used, max, all, "Ok", k)
    PROVE  Account(n, limit, used, max, all, code, k)
  BY DEF Account, Within

\* The last operation asks for m more, which its ceiling allows.
LEMMA AccountReads ==
    ASSUME NEW n, NEW limit, NEW used, NEW max, NEW all, NEW code, NEW k,
           Account(n, limit, used, max, all, "Ok", k),
           NEW m \in Nat \ {0}, used[n] + m <= max, limit[n] = 0 \/ used[n] + m <= limit[n]
    PROVE  Account(n, limit, More(n, used, m), max, all + m, code, k)
<1>1. PICK more : more = More(n, used, m)
  OBVIOUS
<1>2. /\ n \in Nat \ {0} /\ max \in Nat /\ all \in Nat
      /\ limit \in [1..n -> 0..max] /\ used \in [1..n -> 0..max]
  BY DEF Account
<1>3. /\ more \in [1..n -> 0..max] /\ more[n] = used[n] + m
      /\ \A i \in 1..n : i < n => more[i] = used[i]
  BY <1>1, <1>2 DEF More
<1>4. Sums(n, more, max, all + m)
  BY <1>1, <1>2, SumsMore DEF Account
<1>5. ASSUME k # "embedded"
      PROVE  Within(n, limit, more, all + m, code)
  <2> SUFFICES ASSUME limit[1] # 0
               PROVE  /\ all + m <= limit[1]
                      /\ all + m = (limit[1] - limit[n]) + more[n]
                      /\ \A i \in 1..n : 1 <= limit[i] /\ limit[i] <= limit[1] /\ more[i] <= limit[i]
                      /\ \A i \in 1..n : i < n => limit[i + 1] = limit[i] - more[i]
    BY DEF Within
  <2>1. /\ all = (limit[1] - limit[n]) + used[n]
        /\ \A i \in 1..n : 1 <= limit[i] /\ limit[i] <= limit[1] /\ used[i] <= limit[i]
        /\ \A i \in 1..n : i < n => limit[i + 1] = limit[i] - used[i]
    BY <1>5 DEF Account, Within
  <2>2. /\ limit[n] \in Nat /\ limit[1] \in Nat /\ used[n] \in Nat
        /\ limit[n] <= limit[1] /\ used[n] + m <= limit[n]
    BY <1>2, <2>1
  <2>3. all + m <= limit[1] /\ all + m = (limit[1] - limit[n]) + more[n]
    BY <1>2, <1>3, <2>1, <2>2
  <2>4. ASSUME NEW i \in 1..n
        PROVE  /\ 1 <= limit[i] /\ limit[i] <= limit[1] /\ more[i] <= limit[i]
               /\ i < n => limit[i + 1] = limit[i] - more[i]
    <3>1. CASE i = n
      BY <1>2, <1>3, <2>1, <2>2, <3>1
    <3>2. CASE i # n
      BY <1>2, <1>3, <2>1, <3>2, SMTT(40)
    <3> QED
      BY <3>1, <3>2
  <2> QED
    BY <2>3, <2>4
<1> QED
  BY <1>1, <1>2, <1>3, <1>4, <1>5, SMTT(40) DEF Account

\* The last operation starts another one with what it has left, if anything.
LEMMA AccountStarts ==
    ASSUME NEW n, NEW limit, NEW used, NEW max, NEW all, NEW k,
           Account(n, limit, used, max, all, "Ok", k),
           NEW left, left = IF limit[n] > used[n] THEN limit[n] - used[n] ELSE 0,
           k = "embedded" \/ limit[n] = 0 \/ used[n] < limit[n]
    PROVE  Account(n + 1, And(n, limit, left), And(n, used, 0), max, all, "Ok", k)
<1>1. PICK limits : limits = And(n, limit, left)
  OBVIOUS
<1>2. PICK uses : uses = And(n, used, 0)
  OBVIOUS
<1>3. /\ n \in Nat \ {0} /\ max \in Nat /\ all \in Nat
      /\ limit \in [1..n -> 0..max] /\ used \in [1..n -> 0..max]
  BY DEF Account
<1>4. left \in 0..max
  BY <1>3
<1>5. /\ limits \in [1..(n + 1) -> 0..max] /\ limits[n + 1] = left
      /\ \A i \in 1..n : limits[i] = limit[i]
  BY <1>1, <1>3, <1>4 DEF And
<1>6. /\ uses \in [1..(n + 1) -> 0..max] /\ uses[n + 1] = 0
      /\ \A i \in 1..n : uses[i] = used[i]
  BY <1>2, <1>3 DEF And
<1>7. Sums(n + 1, uses, max, all)
  BY <1>2, <1>3, SumsAnd DEF Account
<1>8. ASSUME k # "embedded"
      PROVE  Within(n + 1, limits, uses, all, "Ok")
  <2>0. limits[1] = limit[1]
    BY <1>3, <1>5
  <2> SUFFICES ASSUME limit[1] # 0
               PROVE  /\ all <= limits[1]
                      /\ all = (limits[1] - limits[n + 1]) + uses[n + 1]
                      /\ \A i \in 1..(n + 1) : 1 <= limits[i] /\ limits[i] <= limits[1]
                                               /\ uses[i] <= limits[i]
                      /\ \A i \in 1..(n + 1) : i < n + 1 => limits[i + 1] = limits[i] - uses[i]
    BY <2>0 DEF Within
  <2>1. /\ all <= limit[1]
        /\ all = (limit[1] - limit[n]) + used[n]
        /\ \A i \in 1..n : 1 <= limit[i] /\ limit[i] <= limit[1] /\ used[i] <= limit[i]
        /\ \A i \in 1..n : i < n => limit[i + 1] = limit[i] - used[i]
    BY <1>8 DEF Account, Within
  <2>2. /\ limit[n] \in Nat /\ limit[1] \in Nat /\ used[n] \in Nat
        /\ limit[n] <= limit[1] /\ used[n] < limit[n] /\ left = limit[n] - used[n]
    BY <1>3, <1>8, <2>1
  <2>3. ASSUME NEW i \in 1..(n + 1)
        PROVE  /\ 1 <= limits[i] /\ limits[i] <= limits[1] /\ uses[i] <= limits[i]
               /\ i < n + 1 => limits[i + 1] = limits[i] - uses[i]
    <3>1. CASE i = n + 1
      BY <1>3, <1>5, <1>6, <2>0, <2>2, <3>1
    <3>2. CASE i = n
      BY <1>3, <1>5, <1>6, <2>0, <2>1, <2>2, <3>2
    <3>3. CASE i # n /\ i # n + 1
      <4>1. i \in 1..n /\ i + 1 \in 1..n /\ i < n
        BY <1>3, <3>3
      <4> QED
        BY <1>5, <1>6, <2>0, <2>1, <4>1
    <3> QED
      BY <3>1, <3>2, <3>3
  <2>4. all <= limits[1] /\ all = (limits[1] - limits[n + 1]) + uses[n + 1]
    BY <1>3, <1>5, <1>6, <2>0, <2>1, <2>2
  <2> QED
    BY <2>3, <2>4
<1> QED
  BY <1>1, <1>2, <1>3, <1>5, <1>6, <1>7, <1>8, SMTT(40) DEF Account

\* The last operation returns, and its caller adds what it used to its own.
LEMMA AccountReturns ==
    ASSUME NEW n, NEW limit, NEW used, NEW max, NEW all, NEW code, NEW k,
           Account(n, limit, used, max, all, code, k), n >= 2
    PROVE  Account(n - 1, Callers(n, limit), Merged(n, used, max), max, all, code, k)
<1>1. PICK limits : limits = Callers(n, limit)
  OBVIOUS
<1>2. PICK uses : uses = Merged(n, used, max)
  OBVIOUS
<1>3. /\ n \in Nat \ {0} /\ max \in Nat /\ all \in Nat
      /\ limit \in [1..n -> 0..max] /\ used \in [1..n -> 0..max]
  BY DEF Account
<1>4. limits \in [1..(n - 1) -> 0..max] /\ \A i \in 1..(n - 1) : limits[i] = limit[i]
  BY <1>1, <1>3 DEF Callers
<1>5. /\ uses \in [1..(n - 1) -> 0..max]
      /\ uses[n - 1] = Least(max, used[n - 1] + used[n])
      /\ \A i \in 1..(n - 1) : i < n - 1 => uses[i] = used[i]
  <2>1. Least(max, used[n - 1] + used[n]) \in 0..max
    BY <1>3 DEF Least
  <2> QED
    BY <1>2, <1>3, <2>1 DEF Merged
<1>6. code = "ContractViolation" \/ Sums(n - 1, uses, max, all)
  BY <1>2, <1>3, SumsMerged DEF Account
<1>7. ASSUME k # "embedded"
      PROVE  Within(n - 1, limits, uses, all, code)
  <2>0. limits[1] = limit[1]
    BY <1>3, <1>4
  <2> SUFFICES ASSUME limit[1] # 0
               PROVE  /\ all <= limits[1]
                      /\ code = "Ok" => all = (limits[1] - limits[n - 1]) + uses[n - 1]
                      /\ \A i \in 1..(n - 1) : 1 <= limits[i] /\ limits[i] <= limits[1]
                                               /\ uses[i] <= limits[i]
                      /\ \A i \in 1..(n - 1) : i < n - 1 => limits[i + 1] = limits[i] - uses[i]
    BY <2>0 DEF Within
  <2>1. /\ all <= limit[1]
        /\ code = "Ok" => all = (limit[1] - limit[n]) + used[n]
        /\ \A i \in 1..n : 1 <= limit[i] /\ limit[i] <= limit[1] /\ used[i] <= limit[i]
        /\ \A i \in 1..n : i < n => limit[i + 1] = limit[i] - used[i]
    BY <1>7 DEF Account, Within
  <2>2. PICK a \in Nat : a = limit[n - 1]
    BY <1>3
  <2>3. PICK b \in Nat : b = used[n - 1]
    BY <1>3
  <2>4. PICK c \in Nat : c = used[n]
    BY <1>3
  <2>5. /\ limit[n] = a - b /\ c <= limit[n] /\ 1 <= a /\ a <= limit[1] /\ b <= a
        /\ limit[1] \in 0..max
    BY <1>3, <2>1, <2>2, <2>3, <2>4
  <2>6. uses[n - 1] = b + c /\ b + c <= a
    <3>1. b + c <= a /\ b + c <= max
      <4>1. PICK d \in Nat : d = limit[n]
        BY <1>3
      <4>2. PICK e \in Nat : e = limit[1]
        BY <1>3
      <4> QED
        BY <1>3, <2>5, <4>1, <4>2
    <3>2. uses[n - 1] = Least(max, b + c)
      BY <1>5, <2>3, <2>4
    <3> QED
      BY <1>3, <3>1, <3>2 DEF Least
  <2>7. ASSUME NEW i \in 1..(n - 1)
        PROVE  /\ 1 <= limits[i] /\ limits[i] <= limits[1] /\ uses[i] <= limits[i]
               /\ i < n - 1 => limits[i + 1] = limits[i] - uses[i]
    <3>1. CASE i = n - 1
      BY <1>3, <1>4, <2>0, <2>2, <2>5, <2>6, <3>1
    <3>2. CASE i # n - 1
      <4>1. i \in 1..n /\ i < n /\ i + 1 \in 1..(n - 1) /\ i < n - 1
        BY <1>3, <3>2
      <4> QED
        BY <1>4, <1>5, <2>0, <2>1, <4>1
    <3> QED
      BY <3>1, <3>2
  <2>8. code = "Ok" => all = (limits[1] - limits[n - 1]) + uses[n - 1]
    <3>1. limits[n - 1] = a
      BY <1>3, <1>4, <2>2
    <3> QED
      BY <1>3, <2>0, <2>1, <2>4, <2>5, <2>6, <3>1, SMTT(40)
  <2> QED
    BY <2>0, <2>1, <2>7, <2>8
<1> QED
  BY <1>1, <1>2, <1>3, <1>4, <1>5, <1>6, <1>7 DEF Account

\* The last operation returns and its caller cannot count what it used.
LEMMA AccountViolated ==
    ASSUME NEW n, NEW limit, NEW used, NEW max, NEW all, NEW code, NEW k,
           Account(n, limit, used, max, all, code, k), n >= 2
    PROVE  Account(n - 1, Callers(n, limit), Callers(n, used), max, all,
                   "ContractViolation", k)
<1>1. PICK limits : limits = Callers(n, limit)
  OBVIOUS
<1>2. PICK uses : uses = Callers(n, used)
  OBVIOUS
<1>3. /\ n \in Nat \ {0} /\ max \in Nat /\ all \in Nat
      /\ limit \in [1..n -> 0..max] /\ used \in [1..n -> 0..max]
  BY DEF Account
<1>4. limits \in [1..(n - 1) -> 0..max] /\ \A i \in 1..(n - 1) : limits[i] = limit[i]
  BY <1>1, <1>3 DEF Callers
<1>5. uses \in [1..(n - 1) -> 0..max] /\ \A i \in 1..(n - 1) : uses[i] = used[i]
  BY <1>2, <1>3 DEF Callers
<1>6. ASSUME k # "embedded"
      PROVE  Within(n - 1, limits, uses, all, "ContractViolation")
  <2>0. limits[1] = limit[1]
    BY <1>3, <1>4
  <2>1. ASSUME limit[1] # 0, NEW i \in 1..(n - 1)
        PROVE  /\ 1 <= limits[i] /\ limits[i] <= limits[1] /\ uses[i] <= limits[i]
               /\ i < n - 1 => limits[i + 1] = limits[i] - uses[i]
    <3>1. i \in 1..n /\ i < n /\ (i < n - 1 => i + 1 \in 1..(n - 1))
      BY <1>3
    <3> QED
      BY <1>4, <1>5, <1>6, <2>0, <2>1, <3>1 DEF Account, Within
  <2> QED
    BY <1>6, <2>0, <2>1 DEF Account, Within
<1> QED
  BY <1>1, <1>2, <1>3, <1>4, <1>5, <1>6 DEF Account

-----------------------------------------------------------------------------
(* The accounts of the operations q under way, the last of which is the      *)
(* current one.                                                              *)

RequestLimits(q) == [i \in 1..Len(q) |-> q[i].limits.requests]
ByteLimits(q) == [i \in 1..Len(q) |-> q[i].limits.total]
Requests(q) == [i \in 1..Len(q) |-> q[i].state.requests]
Bytes(q) == [i \in 1..Len(q) |-> q[i].state.requested]
Code(q) == q[Len(q)].state.code

\* What an operation's own failure says of the first one, f.
Reported(code, f) ==
    /\ code = "Ok" => f = "Ok"
    /\ code # "Ok" => code \in {f, "ContractViolation"}

Stack(q) ==
    /\ q \in Seq(Operation) /\ Len(q) >= 1
    /\ \A i \in 1..Len(q) : i < Len(q) => q[i].state.code = "Ok"

Budget(q, a, f, k) ==
    /\ Stack(q)
    /\ Reported(Code(q), f)
    /\ Account(Len(q), RequestLimits(q), Requests(q), Max32, a.requests, Code(q), k)
    /\ Account(Len(q), ByteLimits(q), Bytes(q), Max64, a.bytes, Code(q), k)

\* The current operation's state becomes s.
Becomes(q, r, s) == r = [q EXCEPT ![Len(q)].state = s]

LEMMA CurrentBecomes ==
    ASSUME NEW q, Stack(q), NEW s \in ReadState,
           NEW r, Becomes(q, r, s)
    PROVE  /\ Stack(r) /\ Len(r) = Len(q) /\ Code(r) = s.code
           /\ RequestLimits(r) = RequestLimits(q) /\ ByteLimits(r) = ByteLimits(q)
           /\ r[Len(r)].state = s
           /\ \A i \in 1..Len(q) : i < Len(q) => r[i].state = q[i].state
<1>1. PICK n \in Nat : n = Len(q) /\ n >= 1
  BY DEF Stack
<1>2. PICK op : op = [q[n] EXCEPT !.state = s]
  OBVIOUS
<1>3. q \in Seq(Operation) /\ q[n] \in Operation
  BY <1>1 DEF Stack
<1>4. op \in Operation /\ op.state = s /\ op.limits = q[n].limits
  BY <1>2, <1>3 DEF Operation
<1>5. r = [q EXCEPT ![n] = op]
  BY <1>1, <1>2 DEF Becomes
<1>6. /\ r \in Seq(Operation) /\ Len(r) = n /\ r[n] = op
      /\ \A i \in 1..n : i < n => r[i] = q[i]
  BY <1>1, <1>3, <1>4, <1>5
<1>7. Stack(r) /\ Code(r) = s.code
  BY <1>1, <1>4, <1>6 DEF Stack, Code
<1>8. \A i \in 1..n : r[i].limits = q[i].limits
  BY <1>4, <1>6
<1>9. RequestLimits(r) = RequestLimits(q) /\ ByteLimits(r) = ByteLimits(q)
  BY <1>1, <1>6, <1>8 DEF RequestLimits, ByteLimits
<1> QED
  BY <1>1, <1>4, <1>6, <1>7, <1>9

\* The current operation fails, and counts nothing.
LEMMA BudgetFails ==
    ASSUME NEW q, NEW a, NEW f, NEW g, NEW k, Budget(q, a, f, k), Code(q) = "Ok",
           NEW s \in ReadState, s.requests = q[Len(q)].state.requests,
           s.requested = q[Len(q)].state.requested, Reported(s.code, g),
           NEW r, Becomes(q, r, s)
    PROVE  Budget(r, a, g, k) /\ Len(r) = Len(q)
<1>1. /\ Stack(r) /\ Len(r) = Len(q) /\ Code(r) = s.code
      /\ RequestLimits(r) = RequestLimits(q) /\ ByteLimits(r) = ByteLimits(q)
      /\ r[Len(r)].state = s
      /\ \A i \in 1..Len(q) : i < Len(q) => r[i].state = q[i].state
  <2>1. Stack(q)
    BY DEF Budget
  <2> QED
    BY <2>1, CurrentBecomes
<1>2. Len(q) \in Nat
  BY DEF Budget, Stack
<1>3. \A i \in 1..Len(q) : /\ r[i].state.requests = q[i].state.requests
                           /\ r[i].state.requested = q[i].state.requested
  BY <1>1, <1>2
<1>4. Requests(r) = Requests(q) /\ Bytes(r) = Bytes(q)
  BY <1>1, <1>3 DEF Requests, Bytes
<1>5. /\ Account(Len(q), RequestLimits(q), Requests(q), Max32, a.requests, s.code, k)
      /\ Account(Len(q), ByteLimits(q), Bytes(q), Max64, a.bytes, s.code, k)
  BY AccountFails DEF Budget
<1> QED
  BY <1>1, <1>4, <1>5 DEF Budget

\* The current operation asks the source for n bytes, which its ceilings allow.
LEMMA BudgetReads ==
    ASSUME NEW q, NEW a, NEW f, NEW g, NEW k, Budget(q, a, f, k), Code(q) = "Ok",
           NEW n \in Nat \ {0}, LimitRefusal(q[Len(q)].state, q[Len(q)].limits, n) = "Ok",
           NEW s \in ReadState, s.requests = q[Len(q)].state.requests + 1,
           s.requested = q[Len(q)].state.requested + n, Reported(s.code, g),
           NEW r, Becomes(q, r, s),
           NEW b, b.requests = a.requests + 1, b.bytes = a.bytes + n
    PROVE  Budget(r, b, g, k) /\ Len(r) = Len(q)
<1>1. /\ Stack(r) /\ Len(r) = Len(q) /\ Code(r) = s.code
      /\ RequestLimits(r) = RequestLimits(q) /\ ByteLimits(r) = ByteLimits(q)
      /\ r[Len(r)].state = s
      /\ \A i \in 1..Len(q) : i < Len(q) => r[i].state = q[i].state
  <2>1. Stack(q)
    BY DEF Budget
  <2> QED
    BY <2>1, CurrentBecomes
<1>2. PICK m \in Nat : m = Len(q) /\ m >= 1
  BY DEF Budget, Stack
<1>3. q[m] \in Operation /\ r[m] \in Operation
  BY <1>1, <1>2 DEF Budget, Stack
<1>4. Requests(r) = More(m, Requests(q), 1) /\ Bytes(r) = More(m, Bytes(q), n)
  BY <1>1, <1>2 DEF Requests, Bytes, More
<1>5. PICK l : l = q[m].limits
  OBVIOUS
<1>6. PICK o : o = q[m].state
  OBVIOUS
<1>7. /\ l.requests \in Nat /\ l.total \in Nat /\ o.requests \in Nat /\ o.requested \in Nat
      /\ s.requests = o.requests + 1 /\ s.requests <= Max32
      /\ s.requested = o.requested + n /\ s.requested <= Max64
  <2>1. l \in [requests : 0..Max32, total : 0..Max64, single : 0..Max64] /\ o \in ReadState
    BY <1>3, <1>5, <1>6 DEF Operation
  <2>2. l.requests \in Nat /\ l.total \in Nat /\ o.requests \in Nat /\ o.requested \in Nat
    BY <2>1 DEF ReadState
  <2>3. s.requests <= Max32 /\ s.requested <= Max64
    BY MaximaAssumption DEF ReadState
  <2> QED
    BY <1>2, <1>6, <2>2, <2>3
<1>8. /\ o.requests + 1 <= Max32 /\ (l.requests = 0 \/ o.requests + 1 <= l.requests)
      /\ o.requested + n <= Max64 /\ (l.total = 0 \/ o.requested + n <= l.total)
  <2>1. LimitRefusal(o, l, n) = "Ok"
    BY <1>2, <1>5, <1>6
  <2>2. l.requests = 0 \/ ~(o.requests >= l.requests)
    BY <2>1 DEF LimitRefusal
  <2>3. l.total = 0 \/ ~(o.requested + n > l.total)
    BY <2>1 DEF LimitRefusal
  <2> QED
    BY <1>7, <2>2, <2>3, SMTT(40)
<1>9. /\ Requests(q)[m] = o.requests /\ RequestLimits(q)[m] = l.requests
      /\ Bytes(q)[m] = o.requested /\ ByteLimits(q)[m] = l.total
  BY <1>2, <1>5, <1>6 DEF Requests, RequestLimits, Bytes, ByteLimits
<1>10. Account(m, RequestLimits(q), More(m, Requests(q), 1), Max32, a.requests + 1, s.code, k)
  <2>1. Account(m, RequestLimits(q), Requests(q), Max32, a.requests, "Ok", k)
    BY <1>2 DEF Budget
  <2> QED
    BY <1>8, <1>9, <2>1, AccountReads
<1>11. Account(m, ByteLimits(q), More(m, Bytes(q), n), Max64, a.bytes + n, s.code, k)
  <2>1. Account(m, ByteLimits(q), Bytes(q), Max64, a.bytes, "Ok", k)
    BY <1>2 DEF Budget
  <2> QED
    BY <1>8, <1>9, <2>1, AccountReads
<1> QED
  BY <1>1, <1>2, <1>4, <1>10, <1>11 DEF Budget

\* Something is left of both ceilings.
Left(op) ==
    /\ op.limits.requests = 0 \/ op.state.requests < op.limits.requests
    /\ op.limits.total = 0 \/ op.state.requested < op.limits.total

LEMMA CheckedIsLeft ==
    ASSUME NEW op \in Operation, NEW minimum \in Nat \ {0}, BudgetRefusal(op, minimum) = "Ok"
    PROVE  Left(op)
<1>1. PICK l : l = op.limits
  OBVIOUS
<1>2. PICK o : o = op.state
  OBVIOUS
<1>3. l \in [requests : 0..Max32, total : 0..Max64, single : 0..Max64] /\ o \in ReadState
  BY <1>1, <1>2 DEF Operation
<1>4. l.requests \in Nat /\ l.total \in Nat /\ o.requests \in Nat /\ o.requested \in Nat
  BY <1>3 DEF ReadState
<1>5. l.requests = 0 \/ ~(o.requests >= l.requests)
  BY <1>1, <1>2 DEF BudgetRefusal
<1>6. l.total = 0 \/ ~(o.requested + minimum > l.total)
  BY <1>1, <1>2 DEF BudgetRefusal
<1> QED
  BY <1>1, <1>2, <1>4, <1>5, <1>6 DEF Left

LEMMA FreshIsLeft ==
    ASSUME NEW op \in Operation, op.state = FreshState
    PROVE  Left(op)
  BY DEF Left, FreshState, Operation

\* The current operation starts one within.
Starts(q, r) ==
    r = Append(q, [limits |-> Remaining(q[Len(q)].limits, q[Len(q)].state),
                   state |-> FreshState])

LEMMA BudgetStarts ==
    ASSUME NEW q, NEW a, NEW f, NEW k, Budget(q, a, f, k), Code(q) = "Ok",
           k = "embedded" \/ Left(q[Len(q)]), NEW r, Starts(q, r)
    PROVE  Budget(r, a, f, k) /\ Len(r) = Len(q) + 1
<1>1. PICK n \in Nat : n = Len(q) /\ n >= 1
  BY DEF Budget, Stack
<1>2. q \in Seq(Operation) /\ q[n] \in Operation
  BY <1>1 DEF Budget, Stack
<1>3. PICK l : l = q[n].limits
  OBVIOUS
<1>4. PICK o : o = q[n].state
  OBVIOUS
<1>5. l \in [requests : 0..Max32, total : 0..Max64, single : 0..Max64] /\ o \in ReadState
  BY <1>2, <1>3, <1>4 DEF Operation
<1>6. l.requests \in 0..Max32 /\ l.total \in 0..Max64 /\ o.requests \in Nat /\ o.requested \in Nat
  BY <1>5 DEF ReadState
<1>7. PICK x : x = IF l.requests > o.requests THEN l.requests - o.requests ELSE 0
  OBVIOUS
<1>8. PICK y : y = IF l.total > o.requested THEN l.total - o.requested ELSE 0
  OBVIOUS
<1>9. x \in 0..Max32 /\ y \in 0..Max64
  BY <1>6, <1>7, <1>8, MaximaAssumption, SMTT(40)
<1>10. Remaining(l, o) = [l EXCEPT !.requests = x, !.total = y]
  BY <1>5, <1>7, <1>8 DEF Remaining
<1>11. PICK rest : rest = Remaining(l, o)
  OBVIOUS
<1>12. /\ rest \in [requests : 0..Max32, total : 0..Max64, single : 0..Max64]
       /\ rest.requests = x /\ rest.total = y
  BY <1>5, <1>9, <1>10, <1>11
<1>13. PICK op : op = [limits |-> rest, state |-> FreshState]
  OBVIOUS
<1>14. FreshState \in ReadState
  BY MaximaAssumption DEF FreshState, ReadState, Codes
<1>15. op \in Operation /\ op.limits = rest /\ op.state = FreshState
  BY <1>12, <1>13, <1>14 DEF Operation
<1>16. r = Append(q, op)
  BY <1>1, <1>3, <1>4, <1>11, <1>13 DEF Starts
<1>17. /\ r \in Seq(Operation) /\ Len(r) = n + 1 /\ r[n + 1] = op
       /\ \A i \in 1..n : r[i] = q[i]
  BY <1>1, <1>2, <1>15, <1>16
<1>18. Stack(r) /\ Code(r) = "Ok"
  <2>1. q[n].state.code = "Ok"
    BY <1>1 DEF Code
  <2>2. \A i \in 1..n : q[i].state.code = "Ok"
    BY <1>1, <2>1 DEF Budget, Stack
  <2>3. op.state.code = "Ok"
    BY <1>15 DEF FreshState
  <2> QED
    BY <1>1, <1>17, <2>2, <2>3 DEF Stack, Code
<1>19. /\ RequestLimits(r) = And(n, RequestLimits(q), x)
       /\ ByteLimits(r) = And(n, ByteLimits(q), y)
  BY <1>1, <1>12, <1>15, <1>17 DEF RequestLimits, ByteLimits, And
<1>20. Requests(r) = And(n, Requests(q), 0) /\ Bytes(r) = And(n, Bytes(q), 0)
  <2>1. op.state.requests = 0 /\ op.state.requested = 0
    BY <1>15 DEF FreshState
  <2> QED
    BY <1>1, <1>17, <2>1 DEF Requests, Bytes, And
<1>21. /\ Requests(q)[n] = o.requests /\ RequestLimits(q)[n] = l.requests
       /\ Bytes(q)[n] = o.requested /\ ByteLimits(q)[n] = l.total
  BY <1>1, <1>3, <1>4 DEF Requests, RequestLimits, Bytes, ByteLimits
<1>22. /\ k = "embedded" \/ l.requests = 0 \/ o.requests < l.requests
       /\ k = "embedded" \/ l.total = 0 \/ o.requested < l.total
  BY <1>1, <1>3, <1>4 DEF Left
<1>23. Account(n + 1, And(n, RequestLimits(q), x), And(n, Requests(q), 0), Max32,
               a.requests, "Ok", k)
  <2>1. Account(n, RequestLimits(q), Requests(q), Max32, a.requests, "Ok", k)
    BY <1>1 DEF Budget
  <2> QED
    BY <1>7, <1>21, <1>22, <2>1, AccountStarts
<1>24. Account(n + 1, And(n, ByteLimits(q), y), And(n, Bytes(q), 0), Max64,
               a.bytes, "Ok", k)
  <2>1. Account(n, ByteLimits(q), Bytes(q), Max64, a.bytes, "Ok", k)
    BY <1>1 DEF Budget
  <2> QED
    BY <1>8, <1>21, <1>22, <2>1, AccountStarts
<1>25. Reported(Code(r), f)
  BY <1>18 DEF Budget
<1> QED
  BY <1>1, <1>17, <1>18, <1>19, <1>20, <1>23, <1>24, <1>25 DEF Budget

\* The current operation returns, and its caller's state becomes s.
Returns(q, r, s) == r = [Front(q) EXCEPT ![Len(q) - 1].state = s]

LEMMA CallerBecomes ==
    ASSUME NEW q, Stack(q), Len(q) >= 2, NEW s \in ReadState, NEW r, Returns(q, r, s)
    PROVE  /\ Stack(r) /\ Len(r) = Len(q) - 1 /\ Code(r) = s.code
           /\ RequestLimits(r) = Callers(Len(q), RequestLimits(q))
           /\ ByteLimits(r) = Callers(Len(q), ByteLimits(q))
           /\ r[Len(r)].state = s
           /\ \A i \in 1..Len(r) : i < Len(r) => r[i].state = q[i].state
<1>1. PICK n \in Nat : n = Len(q) /\ n >= 2
  BY DEF Stack
<1>2. PICK p : p = Front(q)
  OBVIOUS
<1>3. /\ p \in Seq(Operation) /\ Len(p) = n - 1
      /\ \A i \in 1..(n - 1) : p[i] = q[i]
  BY <1>1, <1>2 DEF Stack, Front
<1>4. Stack(p)
  BY <1>1, <1>3 DEF Stack
<1>5. Becomes(p, r, s)
  BY <1>1, <1>2, <1>3 DEF Returns, Becomes
<1>6. /\ Stack(r) /\ Len(r) = Len(p) /\ Code(r) = s.code
      /\ RequestLimits(r) = RequestLimits(p) /\ ByteLimits(r) = ByteLimits(p)
      /\ r[Len(r)].state = s
      /\ \A i \in 1..Len(p) : i < Len(p) => r[i].state = p[i].state
  BY <1>4, <1>5, CurrentBecomes
<1>7. /\ RequestLimits(p) = Callers(n, RequestLimits(q))
      /\ ByteLimits(p) = Callers(n, ByteLimits(q))
  BY <1>1, <1>3 DEF RequestLimits, ByteLimits, Callers
<1> QED
  BY <1>1, <1>3, <1>6, <1>7

LEMMA MergedState ==
    ASSUME NEW out \in ReadState, NEW in \in ReadState
    PROVE  /\ Merge(out, in) \in ReadState
           /\ Merge(out, in).code = IF out.code = "Ok" THEN in.code ELSE out.code
           /\ Merge(out, in).requests = Least(Max32, out.requests + in.requests)
           /\ Merge(out, in).requested = Least(Max64, out.requested + in.requested)
<1>1. /\ out.requests \in Nat /\ in.requests \in Nat /\ out.requested \in Nat
      /\ in.requested \in Nat /\ out.completed \in Nat /\ in.completed \in Nat
      /\ out.code \in Codes /\ in.code \in Codes
  BY DEF ReadState
<1>2. /\ out.requests + in.requests \in Nat
      /\ out.requested + in.requested \in Nat
      /\ out.completed + in.completed \in Nat
  BY <1>1
<1>3. /\ Least(Max32, out.requests + in.requests) \in 0..Max32
      /\ Least(Max64, out.requested + in.requested) \in 0..Max64
      /\ Least(Max64, out.completed + in.completed) \in 0..Max64
  BY <1>2, LeastBounded, MaximaAssumption
<1> QED
  BY <1>1, <1>3 DEF Merge, ReadState

\* Its accounting is merged into its caller's.
LEMMA BudgetReturns ==
    ASSUME NEW q, NEW a, NEW f, NEW g, NEW k, Budget(q, a, f, k), Len(q) >= 2,
           Reported(Code(q), g),
           NEW s, s = Merge(q[Len(q) - 1].state, q[Len(q)].state), NEW r, Returns(q, r, s)
    PROVE  /\ Budget(r, a, g, k) /\ Len(r) = Len(q) - 1
           /\ s.code = Code(q) /\ Code(r) = s.code
<1>1. PICK n \in Nat : n = Len(q) /\ n >= 2
  BY DEF Budget, Stack
<1>2. PICK out : out = q[n - 1].state
  OBVIOUS
<1>3. PICK in : in = q[n].state
  OBVIOUS
<1>4. out \in ReadState /\ in \in ReadState /\ out.code = "Ok" /\ in.code = Code(q)
  <2>1. n - 1 \in 1..n /\ n \in 1..n /\ n - 1 < n
    BY <1>1
  <2>2. q[n - 1] \in Operation /\ q[n] \in Operation /\ q[n - 1].state.code = "Ok"
    BY <1>1, <2>1 DEF Budget, Stack
  <2> QED
    BY <1>1, <1>2, <1>3, <2>2 DEF Operation, Code
<1>5. s = Merge(out, in)
  BY <1>1, <1>2, <1>3
<1>6. /\ s \in ReadState /\ s.code = Code(q)
      /\ s.requests = Least(Max32, out.requests + in.requests)
      /\ s.requested = Least(Max64, out.requested + in.requested)
  BY <1>4, <1>5, MergedState
<1>7. /\ Stack(r) /\ Len(r) = n - 1 /\ Code(r) = s.code
      /\ RequestLimits(r) = Callers(n, RequestLimits(q))
      /\ ByteLimits(r) = Callers(n, ByteLimits(q))
      /\ r[n - 1].state = s
      /\ \A i \in 1..(n - 1) : i < n - 1 => r[i].state = q[i].state
  <2>1. Stack(q)
    BY DEF Budget
  <2> QED
    BY <1>1, <1>6, <2>1, CallerBecomes, SMTT(40)
<1>8. Requests(r) = Merged(n, Requests(q), Max32) /\ Bytes(r) = Merged(n, Bytes(q), Max64)
  <2>1. /\ Requests(q)[n - 1] = out.requests /\ Requests(q)[n] = in.requests
        /\ Bytes(q)[n - 1] = out.requested /\ Bytes(q)[n] = in.requested
    BY <1>1, <1>2, <1>3 DEF Requests, Bytes
  <2>2. \A i \in 1..(n - 1) :
          /\ r[i].state.requests = IF i = n - 1 THEN Least(Max32, Requests(q)[n - 1] + Requests(q)[n])
                                   ELSE Requests(q)[i]
          /\ r[i].state.requested = IF i = n - 1 THEN Least(Max64, Bytes(q)[n - 1] + Bytes(q)[n])
                                    ELSE Bytes(q)[i]
    <3> SUFFICES ASSUME NEW i \in 1..(n - 1)
                 PROVE  /\ r[i].state.requests
                             = IF i = n - 1 THEN Least(Max32, Requests(q)[n - 1] + Requests(q)[n])
                               ELSE Requests(q)[i]
                        /\ r[i].state.requested
                             = IF i = n - 1 THEN Least(Max64, Bytes(q)[n - 1] + Bytes(q)[n])
                               ELSE Bytes(q)[i]
      OBVIOUS
    <3>1. CASE i = n - 1
      BY <1>6, <1>7, <2>1, <3>1
    <3>2. CASE i # n - 1
      <4>1. r[i].state = q[i].state /\ i \in 1..n
        BY <1>1, <1>7, <3>2
      <4> QED
        BY <1>1, <3>2, <4>1 DEF Requests, Bytes
    <3> QED
      BY <3>1, <3>2
  <2> QED
    BY <1>7, <2>2 DEF Requests, Bytes, Merged
<1>9. /\ Account(n - 1, Callers(n, RequestLimits(q)), Merged(n, Requests(q), Max32), Max32,
                 a.requests, s.code, k)
      /\ Account(n - 1, Callers(n, ByteLimits(q)), Merged(n, Bytes(q), Max64), Max64,
                 a.bytes, s.code, k)
  <2>1. /\ Account(n, RequestLimits(q), Requests(q), Max32, a.requests, s.code, k)
        /\ Account(n, ByteLimits(q), Bytes(q), Max64, a.bytes, s.code, k)
    BY <1>1, <1>6 DEF Budget
  <2> QED
    BY <1>1, <2>1, AccountReturns
<1>10. Reported(Code(r), g)
  BY <1>6, <1>7
<1> QED
  BY <1>1, <1>6, <1>7, <1>8, <1>9, <1>10 DEF Budget

\* Its accounting does not fit its caller's, which breaks off.
Breaks(q, s) == s = [q[Len(q) - 1].state EXCEPT !.code = "ContractViolation"]

LEMMA BudgetViolated ==
    ASSUME NEW q, NEW a, NEW f, NEW g, NEW k, Budget(q, a, f, k), Len(q) >= 2,
           NEW s, Breaks(q, s),
           NEW r, Returns(q, r, s)
    PROVE  Budget(r, a, g, k) /\ Len(r) = Len(q) - 1 /\ s.code = "ContractViolation"
<1>1. PICK n \in Nat : n = Len(q) /\ n >= 2
  BY DEF Budget, Stack
<1>2. PICK out : out = q[n - 1].state
  OBVIOUS
<1>3. out \in ReadState
  <2>1. n - 1 \in 1..n
    BY <1>1
  <2>2. q[n - 1] \in Operation
    BY <1>1, <2>1 DEF Budget, Stack
  <2> QED
    BY <1>2, <2>2 DEF Operation
<1>4. /\ s \in ReadState /\ s.code = "ContractViolation"
      /\ s.requests = out.requests /\ s.requested = out.requested
  <2>1. s = [out EXCEPT !.code = "ContractViolation"]
    BY <1>1, <1>2 DEF Breaks
  <2>2. "ContractViolation" \in Codes
    BY DEF Codes, Failures
  <2> QED
    BY <1>3, <2>1, <2>2 DEF ReadState
<1>5. /\ Stack(r) /\ Len(r) = n - 1 /\ Code(r) = s.code
      /\ RequestLimits(r) = Callers(n, RequestLimits(q))
      /\ ByteLimits(r) = Callers(n, ByteLimits(q))
      /\ r[n - 1].state = s
      /\ \A i \in 1..(n - 1) : i < n - 1 => r[i].state = q[i].state
  <2>1. Stack(q)
    BY DEF Budget
  <2> QED
    BY <1>1, <1>4, <2>1, CallerBecomes, SMTT(40)
<1>6. \A i \in 1..(n - 1) : /\ r[i].state.requests = q[i].state.requests
                            /\ r[i].state.requested = q[i].state.requested
  <2> SUFFICES ASSUME NEW i \in 1..(n - 1)
               PROVE  /\ r[i].state.requests = q[i].state.requests
                      /\ r[i].state.requested = q[i].state.requested
    OBVIOUS
  <2>1. CASE i = n - 1
    BY <1>2, <1>4, <1>5, <2>1
  <2>2. CASE i # n - 1
    BY <1>1, <1>5, <2>2
  <2> QED
    BY <2>1, <2>2
<1>7. Requests(r) = Callers(n, Requests(q)) /\ Bytes(r) = Callers(n, Bytes(q))
  BY <1>1, <1>5, <1>6 DEF Requests, Bytes, Callers
<1>8. /\ Account(n - 1, Callers(n, RequestLimits(q)), Callers(n, Requests(q)), Max32,
                 a.requests, "ContractViolation", k)
      /\ Account(n - 1, Callers(n, ByteLimits(q)), Callers(n, Bytes(q)), Max64,
                 a.bytes, "ContractViolation", k)
  BY <1>1, AccountViolated DEF Budget
<1>9. Reported(Code(r), g)
  BY <1>4, <1>5 DEF Reported
<1> QED
  BY <1>1, <1>4, <1>5, <1>7, <1>8, <1>9 DEF Budget

-----------------------------------------------------------------------------
(* The steps of a snapshot.                                                  *)

\* How many operations are under way in a phase, and what a phase has behind it.
PhaseFits(p, q, f) ==
    /\ p \in {"start", "blocks", "complete", "failed"} => Len(q) = 1
    /\ p \in {"native", "scan"} => Len(q) >= 2
    /\ p = "payload" => Len(q) = 2
    /\ p = "start" => q[1].state = FreshState
    /\ p = "complete" => f = "Ok"

Inv == /\ Budget(ops, asked, fault, kind)
       /\ PhaseFits(phase, ops, fault)
       /\ asked \in [requests : Nat, bytes : Nat]

LEMMA FirstAccount ==
    ASSUME NEW max \in Nat, NEW limit, NEW used, NEW k, limit \in [1..1 -> 0..max],
           used = [i \in 1..1 |-> 0]
    PROVE  Account(1, limit, used, max, 0, "Ok", k)
<1>1. PICK mark : mark = [i \in 1..(1 + 1) |-> 0]
  OBVIOUS
<1>2. mark \in [1..(1 + 1) -> Nat] /\ mark[1] = 0 /\ mark[1 + 1] = 0
  BY <1>1
<1>3. used \in [1..1 -> 0..max] /\ used[1] = 0 /\ Least(max, 0 - 0) = 0
  BY DEF Least
<1>4. Marked(1, used, max, 0, mark)
  BY <1>2, <1>3 DEF Marked
<1>5. Sums(1, used, max, 0)
  BY <1>4 DEF Sums
<1>6. Within(1, limit, used, 0, "Ok")
  BY <1>3 DEF Within
<1> QED
  BY <1>3, <1>5, <1>6 DEF Account

LEMMA InitInv == Init => Inv
<1> SUFFICES ASSUME Init PROVE Inv
  OBVIOUS
<1>1. PICK l \in Limits : ops = <<[limits |-> l, state |-> FreshState]>>
  BY DEF Init
<1>2. PICK op : op = [limits |-> l, state |-> FreshState]
  OBVIOUS
<1>3. FreshState \in ReadState /\ FreshState.code = "Ok"
      /\ FreshState.requests = 0 /\ FreshState.requested = 0
  BY MaximaAssumption DEF FreshState, ReadState, Codes
<1>4. /\ l \in [requests : 0..Max32, total : 0..Max64, single : 0..Max64]
      /\ op \in Operation /\ op.limits = l /\ op.state = FreshState
  BY <1>2, <1>3, LimitsAssumption DEF Operation
<1>5. ops = <<op>> /\ ops \in Seq(Operation) /\ Len(ops) = 1 /\ ops[1] = op
  BY <1>1, <1>2, <1>4
<1>6. Stack(ops) /\ Code(ops) = "Ok"
  BY <1>3, <1>4, <1>5 DEF Stack, Code
<1>7. RequestLimits(ops) \in [1..1 -> 0..Max32] /\ ByteLimits(ops) \in [1..1 -> 0..Max64]
  BY <1>4, <1>5 DEF RequestLimits, ByteLimits
<1>8. Requests(ops) = [i \in 1..1 |-> 0] /\ Bytes(ops) = [i \in 1..1 |-> 0]
  BY <1>3, <1>4, <1>5 DEF Requests, Bytes
<1>9. /\ Account(1, RequestLimits(ops), Requests(ops), Max32, 0, "Ok", kind)
      /\ Account(1, ByteLimits(ops), Bytes(ops), Max64, 0, "Ok", kind)
  BY <1>7, <1>8, FirstAccount, MaximaAssumption
<1>10. asked.requests = 0 /\ asked.bytes = 0 /\ asked \in [requests : Nat, bytes : Nat]
       /\ fault = "Ok" /\ phase = "start"
  BY DEF Init
<1> QED
  BY <1>4, <1>5, <1>6, <1>9, <1>10 DEF Inv, Budget, Reported, PhaseFits

\* What a read makes of the state of the operation that asked for it.
LEMMA SettledState ==
    ASSUME NEW o \in ReadState, NEW l, o.code = "Ok", NEW n \in Nat \ {0},
           LimitRefusal(o, l, n) = "Ok", NEW io \in {"Ok", "IoError"}, NEW read \in {0, n}
    PROVE  /\ Settle(Count(o, n), n, io, read) \in ReadState
           /\ Settle(Count(o, n), n, io, read).requests = o.requests + 1
           /\ Settle(Count(o, n), n, io, read).requested = o.requested + n
<1>1. /\ o.requests \in 0..Max32 /\ o.requested \in 0..Max64 /\ o.completed \in 0..Max64
      /\ Max32 \in Nat /\ Max64 \in Nat
  BY MaximaAssumption DEF ReadState
<1>2. o.requests # Max32 /\ ~(n > Max64 - o.requested)
  BY DEF LimitRefusal
<1>3. /\ o.requests + 1 \in 0..Max32 /\ o.requested + n \in 0..Max64
      /\ (o.requests + 1) % (Max32 + 1) = o.requests + 1
      /\ (o.requested + n) % (Max64 + 1) = o.requested + n
  BY <1>1, <1>2
<1>4. PICK c : c = (o.completed + read) % (Max64 + 1)
  OBVIOUS
<1>5. c \in 0..Max64
  BY <1>1, <1>4
<1>6. PICK s : s = Count(o, n)
  OBVIOUS
<1>7. s = [code |-> "Ok", completed |-> o.completed, requests |-> o.requests + 1,
           requested |-> o.requested + n]
  BY <1>3, <1>6 DEF Count
<1>8. PICK t : t = [s EXCEPT !.completed = c]
  OBVIOUS
<1>9. t = [code |-> "Ok", completed |-> c, requests |-> o.requests + 1,
           requested |-> o.requested + n]
  BY <1>7, <1>8
<1>10. PICK u : u = Settle(s, n, io, read)
  OBVIOUS
<1>11. ~(read > n) /\ io # "Unknown"
  OBVIOUS
<1>12. u = IF io # "Ok" THEN Fail(t, io)
           ELSE IF read # n THEN Fail(t, "ShortRead") ELSE t
  <2>1. t = [s EXCEPT !.completed = (@ + read) % (Max64 + 1)]
    BY <1>4, <1>7, <1>8
  <2> QED
    BY <1>10, <1>11, <2>1 DEF Settle
<1>13. PICK code : code = IF io # "Ok" THEN io ELSE IF read # n THEN "ShortRead" ELSE "Ok"
  OBVIOUS
<1>14. u = [code |-> code, completed |-> c, requests |-> o.requests + 1,
            requested |-> o.requested + n]
  BY <1>9, <1>12, <1>13 DEF Fail
<1>15. code \in Codes
  BY <1>13 DEF Codes, Failures
<1>16. u \in ReadState
  BY <1>3, <1>5, <1>14, <1>15 DEF ReadState
<1>17. u.requests = o.requests + 1 /\ u.requested = o.requested + n
  BY <1>14
<1> QED
  BY <1>6, <1>10, <1>16, <1>17

\* What a refusal makes of it.
LEMMA FailedState ==
    ASSUME NEW o \in ReadState, o.code = "Ok", NEW code \in Codes
    PROVE  /\ Fail(o, code) \in ReadState /\ Fail(o, code).code = code
           /\ Fail(o, code).requests = o.requests /\ Fail(o, code).requested = o.requested
  BY DEF Fail, ReadState

\* The current operation's state, in the terms of the specification.
LEMMA CurrentIsLast ==
    ASSUME Inv
    PROVE  /\ Len(ops) \in Nat /\ Len(ops) >= 1 /\ ops \in Seq(Operation)
           /\ Current = ops[Len(ops)] /\ Current \in Operation
           /\ Current.state \in ReadState /\ Current.state.code = Code(ops)
           /\ Code(ops) = "Ok" => fault = "Ok"
<1>1. /\ ops \in Seq(Operation) /\ Len(ops) >= 1
      /\ Code(ops) = "Ok" => fault = "Ok"
  BY DEF Inv, Budget, Stack, Reported
<1>2. Current = ops[Len(ops)]
  BY DEF Current, Last
<1>3. Len(ops) \in Nat /\ Current \in Operation
  BY <1>1, <1>2
<1>4. Current.state \in ReadState /\ Current.state.code = Code(ops)
  BY <1>2, <1>3 DEF Operation, Code
<1> QED
  BY <1>1, <1>2, <1>3, <1>4

\* A phase goes on with its operations, of which there are as many.
LEMMA SamePhase ==
    ASSUME NEW p, NEW q, NEW r, NEW f, NEW g, PhaseFits(p, q, f), Len(r) = Len(q),
           p # "start", p # "complete"
    PROVE  PhaseFits(p, r, g)
  BY DEF PhaseFits

LEMMA ReadKeepsInv ==
    ASSUME Inv, NEW n \in Nat \ {0}, Read(n)
    PROVE  Inv'
<1>1. /\ Len(ops) \in Nat /\ Len(ops) >= 1 /\ ops \in Seq(Operation)
      /\ Current = ops[Len(ops)] /\ Current.state \in ReadState
      /\ Current.state.code = "Ok" /\ Code(ops) = "Ok" /\ fault = "Ok"
      /\ kind' = kind /\ phase' = phase /\ phase # "start" /\ phase # "complete"
  BY CurrentIsLast DEF Read
<1>2. PICK o : o = ops[Len(ops)].state
  OBVIOUS
<1>3. PICK l : l = ops[Len(ops)].limits
  OBVIOUS
<1>4. o = Current.state /\ o \in ReadState /\ o.code = "Ok" /\ l = Current.limits
  BY <1>1, <1>2, <1>3
<1>5. CASE LimitRefusal(o, l, n) # "Ok"
  <2>1. PICK code : code = LimitRefusal(o, l, n)
    OBVIOUS
  <2>2. code \in Codes
    BY <2>1 DEF LimitRefusal, Codes, Failures, Refusals
  <2>3. PICK s : s = Fail(o, code)
    OBVIOUS
  <2>4. Becomes(ops, ops', s) /\ fault' = code /\ asked' = asked
    BY <1>1, <1>4, <1>5, <2>1, <2>3 DEF Read, Note, Becomes
  <2>5. s \in ReadState /\ s.code = code /\ s.requests = o.requests /\ s.requested = o.requested
    BY <1>4, <2>2, <2>3, FailedState
  <2>6. Reported(s.code, fault')
    BY <1>5, <2>1, <2>4, <2>5 DEF Reported
  <2>7. Budget(ops, asked, fault, kind)
    BY DEF Inv
  <2>8. PICK r : r = ops'
    OBVIOUS
  <2>9. PICK g : g = fault'
    OBVIOUS
  <2>10. Budget(r, asked, g, kind) /\ Len(r) = Len(ops)
    BY <1>1, <1>2, <2>4, <2>5, <2>6, <2>7, <2>8, <2>9, BudgetFails
  <2>11. PhaseFits(phase, r, g)
    BY <1>1, <2>10, SamePhase DEF Inv
  <2> QED
    BY <1>1, <2>4, <2>8, <2>9, <2>10, <2>11 DEF Inv
<1>6. CASE LimitRefusal(o, l, n) = "Ok"
  <2>1. PICK io \in {"Ok", "IoError"}, read \in {0, n} :
          ops' = [ops EXCEPT ![Len(ops)].state = Settle(Count(o, n), n, io, read)]
    BY <1>4, <1>6 DEF Read
  <2>2. /\ fault' = ops'[Len(ops)].state.code
        /\ asked' = [requests |-> asked.requests + 1, bytes |-> asked.bytes + n]
    BY <1>1, <1>4, <1>6 DEF Read, Note
  <2>3. PICK s : s = Settle(Count(o, n), n, io, read)
    OBVIOUS
  <2>4. s \in ReadState /\ s.requests = o.requests + 1 /\ s.requested = o.requested + n
    BY <1>4, <1>6, <2>3, SettledState
  <2>5. PICK r : r = ops'
    OBVIOUS
  <2>6. PICK g : g = fault'
    OBVIOUS
  <2>7. Becomes(ops, r, s)
    BY <2>1, <2>3, <2>5 DEF Becomes
  <2>8. Stack(ops) /\ Budget(ops, asked, fault, kind)
    BY DEF Inv, Budget
  <2>9. r[Len(r)].state = s /\ Len(r) = Len(ops)
    BY <2>4, <2>7, <2>8, CurrentBecomes
  <2>10. g = s.code
    BY <2>2, <2>5, <2>6, <2>9
  <2>11. Reported(s.code, g)
    BY <2>10 DEF Reported
  <2>12. PICK b : b = asked'
    OBVIOUS
  <2>13. b.requests = asked.requests + 1 /\ b.bytes = asked.bytes + n
    BY <2>2, <2>12
  <2>14. Budget(r, b, g, kind) /\ Len(r) = Len(ops)
    BY <1>1, <1>2, <1>3, <1>6, <2>4, <2>7, <2>8, <2>11, <2>13, BudgetReads
  <2>15. PhaseFits(phase, r, g)
    BY <1>1, <2>14, SamePhase DEF Inv
  <2>16. asked' \in [requests : Nat, bytes : Nat]
    BY <2>2 DEF Inv
  <2> QED
    BY <1>1, <2>5, <2>6, <2>12, <2>14, <2>15, <2>16 DEF Inv
<1> QED
  BY <1>5, <1>6

LEMMA FinishedReturns ==
    ASSUME Inv, Len(ops) >= 2, NEW s, NEW r, r = Finished(s)
    PROVE  Returns(ops, r, s)
<1>1. ops \in Seq(Operation)
  BY DEF Inv, Budget, Stack
<1>2. Len(Front(ops)) = Len(ops) - 1
  BY <1>1 DEF Front
<1> QED
  BY <1>2 DEF Finished, Returns

\* An operation starts within the current one, of which something is left.
LEMMA StartKeepsBudget ==
    ASSUME Inv, Code(ops) = "Ok", kind = "embedded" \/ Left(Current), Start(Current)
    PROVE  Budget(ops', asked, fault, kind) /\ Len(ops') = Len(ops) + 1
<1>1. Current = ops[Len(ops)]
  BY CurrentIsLast
<1>2. PICK r : r = ops'
  OBVIOUS
<1>3. Starts(ops, r)
  BY <1>1, <1>2 DEF Start, Starts
<1>4. Budget(ops, asked, fault, kind)
  BY DEF Inv
<1>5. Budget(r, asked, fault, kind) /\ Len(r) = Len(ops) + 1
  BY <1>1, <1>3, <1>4, BudgetStarts
<1> QED
  BY <1>2, <1>5

\* The current operation is refused an operation within.
LEMMA RefusalKeepsBudget ==
    ASSUME Inv, Code(ops) = "Ok", NEW code \in Codes \ {"Ok"}, Note(code),
           NEW s, s = Fail(Current.state, code), Becomes(ops, ops', s)
    PROVE  Budget(ops', asked, fault', kind) /\ Len(ops') = Len(ops)
<1>1. /\ Current = ops[Len(ops)] /\ Current.state \in ReadState
      /\ Current.state.code = "Ok" /\ fault = "Ok"
  BY CurrentIsLast
<1>2. PICK r : r = ops'
  OBVIOUS
<1>3. PICK g : g = fault'
  OBVIOUS
<1>4. g = code
  BY <1>1, <1>3 DEF Note
<1>5. /\ s \in ReadState /\ s.code = code
      /\ s.requests = ops[Len(ops)].state.requests
      /\ s.requested = ops[Len(ops)].state.requested
  BY <1>1, FailedState
<1>6. Reported(s.code, g) /\ Becomes(ops, r, s) /\ Budget(ops, asked, fault, kind)
  BY <1>2, <1>4, <1>5 DEF Reported, Inv
<1>7. Budget(r, asked, g, kind) /\ Len(r) = Len(ops)
  BY <1>5, <1>6, BudgetFails
<1> QED
  BY <1>2, <1>3, <1>7

LEMMA RefusalIsCode ==
    ASSUME NEW op, NEW minimum
    PROVE  BudgetRefusal(op, minimum) \in Codes
  BY DEF BudgetRefusal, Codes, Failures, Refusals

LEMMA NestKeepsInv ==
    ASSUME Inv, Nest
    PROVE  Inv'
<1>1. /\ Current = ops[Len(ops)] /\ Current \in Operation
      /\ Len(ops) \in Nat /\ Len(ops) >= 2
      /\ Code(ops) = "Ok" /\ phase' = phase /\ phase \in {"native", "scan"}
      /\ kind' = kind /\ asked' = asked
  BY CurrentIsLast DEF Nest
<1>2. CASE BudgetRefusal(Current, 1) = "Ok"
  <2>1. Start(Current) /\ fault' = fault
    BY <1>2 DEF Nest
  <2>2. Left(Current)
    BY <1>1, <1>2, CheckedIsLeft
  <2>3. Budget(ops', asked, fault, kind) /\ Len(ops') = Len(ops) + 1
    BY <1>1, <2>1, <2>2, StartKeepsBudget
  <2>4. PhaseFits(phase, ops', fault)
    BY <1>1, <2>3 DEF PhaseFits
  <2> QED
    BY <1>1, <2>1, <2>3, <2>4 DEF Inv
<1>3. CASE BudgetRefusal(Current, 1) # "Ok"
  <2>1. PICK code : code = BudgetRefusal(Current, 1)
    OBVIOUS
  <2>2. code \in Codes \ {"Ok"}
    BY <1>3, <2>1, RefusalIsCode
  <2>3. PICK s : s = Fail(Current.state, code)
    OBVIOUS
  <2>4. Becomes(ops, ops', s) /\ Note(code)
    BY <1>1, <1>3, <2>1, <2>3 DEF Nest, Becomes
  <2>5. Budget(ops', asked, fault', kind) /\ Len(ops') = Len(ops)
    BY <1>1, <2>2, <2>3, <2>4, RefusalKeepsBudget
  <2>6. PhaseFits(phase, ops', fault')
    BY <1>1, <2>5 DEF PhaseFits
  <2> QED
    BY <1>1, <2>5, <2>6 DEF Inv
<1> QED
  BY <1>2, <1>3

LEMMA EndNestedKeepsInv ==
    ASSUME Inv, EndNested
    PROVE  Inv'
<1>1. PICK n \in Nat : n = Len(ops)
  BY CurrentIsLast
<1>2. /\ Current = ops[n] /\ n > 2 /\ phase' = phase /\ phase \in {"native", "scan"}
      /\ kind' = kind /\ asked' = asked /\ Current.state.code = Code(ops)
      /\ Code(ops) = "Ok" => fault = "Ok"
  BY <1>1, CurrentIsLast DEF EndNested
<1>3. PICK out : out = ops[n - 1].state
  OBVIOUS
<1>4. PICK s : s = IF phase = "scan" THEN Merge(out, Current.state)
                   ELSE MergeStrict(out, Current.state)
  OBVIOUS
<1>5. ops' = Finished(s) /\ Note(s.code)
  BY <1>1, <1>3, <1>4 DEF EndNested
<1>6. PICK r : r = ops'
  OBVIOUS
<1>7. PICK g : g = fault'
  OBVIOUS
<1>8. Returns(ops, r, s) /\ Budget(ops, asked, fault, kind) /\ Len(ops) >= 2
  <2>1. Len(ops) >= 2
    BY <1>1, <1>2
  <2>2. r = Finished(s)
    BY <1>5, <1>6
  <2>3. Returns(ops, r, s)
    BY <2>1, <2>2, FinishedReturns
  <2> QED
    BY <2>1, <2>3 DEF Inv
<1>9. CASE s = Merge(out, Current.state)
  <2>1. s = Merge(ops[Len(ops) - 1].state, ops[Len(ops)].state)
    BY <1>1, <1>2, <1>3, <1>9
  <2>2. s.code = Code(ops) /\ Reported(Code(ops), fault)
    <3>1. out \in ReadState /\ out.code = "Ok"
      <4>1. n - 1 \in 1..n /\ n - 1 < n
        BY <1>2
      <4>2. ops[n - 1] \in Operation /\ ops[n - 1].state.code = "Ok"
        BY <1>1, <4>1 DEF Inv, Budget, Stack
      <4> QED
        BY <1>3, <4>2 DEF Operation
    <3>2. Current.state \in ReadState
      BY CurrentIsLast
    <3>3. s.code = Current.state.code
      BY <1>9, <3>1, <3>2, MergedState
    <3> QED
      BY <1>2, <3>3 DEF Inv, Budget
  <2>3. Reported(Code(ops), g)
    BY <1>5, <1>7, <2>2 DEF Note, Reported
  <2>4. Budget(r, asked, g, kind) /\ Len(r) = n - 1
    BY <1>1, <1>8, <2>1, <2>3, BudgetReturns
  <2>5. PhaseFits(phase, r, g)
    BY <1>2, <2>4 DEF PhaseFits
  <2> QED
    BY <1>2, <1>6, <1>7, <2>4, <2>5 DEF Inv
<1>10. CASE s # Merge(out, Current.state)
  <2>1. s = [out EXCEPT !.code = "ContractViolation"]
    BY <1>4, <1>10 DEF MergeStrict
  <2>2. Breaks(ops, s)
    BY <1>1, <1>3, <2>1 DEF Breaks
  <2>3. Budget(r, asked, g, kind) /\ Len(r) = n - 1
    BY <1>1, <1>8, <2>2, BudgetViolated
  <2>4. PhaseFits(phase, r, g)
    BY <1>2, <2>3 DEF PhaseFits
  <2> QED
    BY <1>2, <1>6, <1>7, <2>3, <2>4 DEF Inv
<1> QED
  BY <1>9, <1>10

\* A phase's operation is merged into the snapshot's own.
LEMMA PhaseReturns ==
    ASSUME Inv, Len(ops) = 2, NEW s, s = Merge(ops[1].state, ops[2].state),
           NEW r, r = Finished(s)
    PROVE  /\ Budget(r, asked, fault, kind) /\ Len(r) = 1
           /\ s.code = Code(r) /\ (s.code = "Ok" => fault = "Ok")
<1>0. Len(ops) >= 2 /\ Len(ops) - 1 = 1
  OBVIOUS
<1>1. Returns(ops, r, s)
  BY <1>0, FinishedReturns
<1>2. s = Merge(ops[Len(ops) - 1].state, ops[Len(ops)].state)
  BY <1>0
<1>3. Budget(ops, asked, fault, kind) /\ Reported(Code(ops), fault)
  BY DEF Inv, Budget
<1>4. /\ Budget(r, asked, fault, kind) /\ Len(r) = Len(ops) - 1
      /\ s.code = Code(ops) /\ Code(r) = s.code
  <2>1. PICK q : q = ops
    OBVIOUS
  <2>2. /\ Budget(q, asked, fault, kind) /\ Reported(Code(q), fault) /\ Len(q) >= 2
        /\ s = Merge(q[Len(q) - 1].state, q[Len(q)].state) /\ Returns(q, r, s)
    BY <1>0, <1>1, <1>2, <1>3, <2>1
  <2>3. /\ Budget(r, asked, fault, kind) /\ Len(r) = Len(q) - 1
        /\ s.code = Code(q) /\ Code(r) = s.code
    BY <2>2, BudgetReturns, SMTT(40)
  <2> QED
    BY <2>1, <2>3
<1>5. s.code = "Ok" => fault = "Ok"
  BY <1>3, <1>4 DEF Reported
<1> QED
  BY <1>0, <1>4, <1>5

LEMMA EndPhaseKeepsInv ==
    ASSUME Inv, NEW p, NEW next \in {"blocks", "complete"}, EndPhase(p, next)
    PROVE  Inv'
<1>1. PICK s : s = Merge(ops[1].state, ops[2].state)
  OBVIOUS
<1>2. PICK r : r = Finished(s)
  OBVIOUS
<1>3. /\ Len(ops) = 2 /\ ops' = r /\ kind' = kind /\ asked' = asked /\ fault' = fault
      /\ phase' = "failed" \/ (s.code = "Ok" /\ phase' = next)
  BY <1>1, <1>2 DEF EndPhase
<1>4. /\ Budget(r, asked, fault, kind) /\ Len(r) = 1
      /\ s.code = "Ok" => fault = "Ok"
  BY <1>1, <1>2, <1>3, PhaseReturns
<1>5. PhaseFits(phase', r, fault)
  BY <1>3, <1>4 DEF PhaseFits
<1> QED
  BY <1>3, <1>4, <1>5 DEF Inv

LEMMA BeginKeepsInv ==
    ASSUME Inv, Begin
    PROVE  Inv'
<1>1. Len(ops) = 1 /\ ops[1].state = FreshState
  BY DEF Inv, PhaseFits, Begin
<1>2. Current = ops[1] /\ Current \in Operation /\ Code(ops) = "Ok"
  BY <1>1, CurrentIsLast DEF FreshState
<1>3. Left(Current) /\ Start(Current)
  BY <1>1, <1>2, FreshIsLeft DEF Begin
<1>4. Budget(ops', asked, fault, kind) /\ Len(ops') = 2
  BY <1>1, <1>2, <1>3, StartKeepsBudget
<1>5. /\ phase' \in {"scan", "native"} /\ kind' = kind /\ asked' = asked /\ fault' = fault
  BY DEF Begin
<1>6. PhaseFits(phase', ops', fault)
  BY <1>4, <1>5 DEF PhaseFits
<1> QED
  BY <1>4, <1>5, <1>6 DEF Inv

LEMMA EndNativeAndScanKeepsInv ==
    ASSUME Inv, EndNativeAndScan
    PROVE  Inv'
<1>1. /\ Len(ops) = 2 /\ kind = "embedded"
      /\ kind' = kind /\ asked' = asked /\ fault' = fault
  BY DEF EndNativeAndScan
<1>2. PICK s : s = Merge(ops[1].state, ops[2].state)
  OBVIOUS
<1>3. PICK own : own = [ops[1] EXCEPT !.state = s]
  OBVIOUS
<1>4. PICK r : r = Finished(s)
  OBVIOUS
<1>5. /\ Budget(r, asked, fault, kind) /\ Len(r) = 1 /\ s.code = Code(r)
  BY <1>1, <1>2, <1>4, PhaseReturns
<1>6. r = <<own>> /\ own.state = s
  <2>1. ops \in Seq(Operation) /\ ops[1] \in Operation
    <3>1. ops \in Seq(Operation)
      BY CurrentIsLast
    <3> QED
      BY <1>1, <3>1
  <2>2. Front(ops) = <<ops[1]>>
    <3>1. PICK p : p = Front(ops)
      OBVIOUS
    <3>2. p \in Seq(Operation) /\ Len(p) = 1 /\ p[1] = ops[1]
      BY <1>1, <2>1, <3>1 DEF Front
    <3> QED
      BY <3>1, <3>2
  <2>3. r = [<<ops[1]>> EXCEPT ![1].state = s]
    BY <1>4, <2>2 DEF Finished
  <2> QED
    BY <1>3, <2>1, <2>3 DEF Operation
<1>7. CASE phase' = "failed" /\ ops' = <<own>>
  <2>1. PhaseFits("failed", r, fault)
    BY <1>5 DEF PhaseFits
  <2> QED
    BY <1>1, <1>5, <1>6, <1>7, <2>1 DEF Inv
<1>8. CASE /\ s.code = "Ok" /\ phase' = "scan"
           /\ ops' = <<own, [limits |-> Remaining(own.limits, s), state |-> FreshState]>>
  <2>1. PICK t : t = ops'
    OBVIOUS
  <2>2. r[Len(r)] = own
    BY <1>5, <1>6
  <2>3. PICK op : op = [limits |-> Remaining(own.limits, s), state |-> FreshState]
    OBVIOUS
  <2>4. t = Append(r, op)
    BY <1>6, <1>8, <2>1, <2>3
  <2>5. Starts(r, t)
    BY <1>6, <2>2, <2>3, <2>4 DEF Starts
  <2>6. Code(r) = "Ok"
    BY <1>5, <1>8
  <2>7. Budget(t, asked, fault, kind) /\ Len(t) = 2
    <3>1. Budget(t, asked, fault, kind) /\ Len(t) = Len(r) + 1
      BY <1>1, <1>5, <2>5, <2>6, BudgetStarts
    <3> QED
      BY <1>5, <3>1
  <2>8. PhaseFits("scan", t, fault)
    BY <2>7 DEF PhaseFits
  <2> QED
    BY <1>1, <1>8, <2>1, <2>7, <2>8 DEF Inv
<1> QED
  BY <1>2, <1>3, <1>7, <1>8 DEF EndNativeAndScan

LEMMA BlockKeepsInv ==
    ASSUME Inv, NEW minimum \in Nat \ {0}, Block(minimum)
    PROVE  Inv'
<1>1. /\ Len(ops) = 1 /\ ops[1].state.code = "Ok"
      /\ kind' = kind /\ asked' = asked
  BY DEF Inv, PhaseFits, Block
<1>2. Current = ops[1] /\ Current \in Operation /\ Code(ops) = "Ok" /\ ops \in Seq(Operation)
  BY <1>1, CurrentIsLast
<1>3. CASE BudgetRefusal(ops[1], minimum) = "Ok"
  <2>1. Start(Current) /\ fault' = fault /\ phase' = "payload"
    BY <1>2, <1>3 DEF Block
  <2>2. Left(Current)
    BY <1>2, <1>3, CheckedIsLeft
  <2>3. Budget(ops', asked, fault, kind) /\ Len(ops') = 2
    BY <1>1, <1>2, <2>1, <2>2, StartKeepsBudget
  <2>4. PhaseFits("payload", ops', fault)
    BY <2>3 DEF PhaseFits
  <2> QED
    BY <1>1, <2>1, <2>3, <2>4 DEF Inv
<1>4. CASE BudgetRefusal(ops[1], minimum) # "Ok"
  <2>1. PICK code : code = BudgetRefusal(ops[1], minimum)
    OBVIOUS
  <2>2. code \in Codes \ {"Ok"}
    BY <1>4, <2>1, RefusalIsCode
  <2>3. PICK s : s = Fail(Current.state, code)
    OBVIOUS
  <2>4. phase' = "failed" /\ Note(code) /\ ops' = <<[ops[1] EXCEPT !.state = s]>>
    <3>1. s = Fail(ops[1].state, code)
      BY <1>2, <2>3
    <3>2. /\ phase' = "failed" /\ Note(code)
          /\ ops' = <<[ops[1] EXCEPT !.state = Fail(@, code)]>>
      BY <1>4, <2>1 DEF Block
    <3> QED
      BY <1>2, <3>1, <3>2 DEF Operation
  <2>5. Becomes(ops, ops', s)
    <3>1. ops = <<ops[1]>>
      BY <1>1, <1>2
    <3>2. PICK op : op = [ops[1] EXCEPT !.state = s]
      OBVIOUS
    <3>3. [ops EXCEPT ![1] = op] = <<op>>
      BY <1>1, <1>2, <3>1
    <3> QED
      BY <1>1, <2>4, <3>2, <3>3 DEF Becomes
  <2>6. Budget(ops', asked, fault', kind) /\ Len(ops') = 1
    BY <1>1, <1>2, <2>2, <2>3, <2>4, <2>5, RefusalKeepsBudget
  <2>7. PhaseFits("failed", ops', fault')
    BY <2>6 DEF PhaseFits
  <2> QED
    BY <1>1, <2>4, <2>6, <2>7 DEF Inv
<1> QED
  BY <1>3, <1>4

LEMMA CompleteKeepsInv ==
    ASSUME Inv, Complete
    PROVE  Inv'
<1>1. /\ Len(ops) = 1 /\ kind' = kind /\ asked' = asked /\ fault' = fault /\ ops' = ops
      /\ phase' = "failed" \/ (ops[1].state.code = "Ok" /\ phase' = "complete")
  BY DEF Inv, PhaseFits, Complete
<1>2. ops[1].state.code = "Ok" => fault = "Ok"
  BY <1>1, CurrentIsLast
<1>3. PhaseFits(phase', ops, fault)
  BY <1>1, <1>2 DEF PhaseFits
<1> QED
  BY <1>1, <1>3 DEF Inv

LEMMA NextInv == Inv /\ [Next]_vars => Inv'
<1> SUFFICES ASSUME Inv, [Next]_vars PROVE Inv'
  OBVIOUS
<1>1. CASE Begin
  BY <1>1, BeginKeepsInv
<1>2. CASE Nest
  BY <1>2, NestKeepsInv
<1>3. CASE EndNested
  BY <1>3, EndNestedKeepsInv
<1>4. CASE EndNative
  BY <1>4, EndPhaseKeepsInv DEF EndNative
<1>5. CASE EndNativeAndScan
  BY <1>5, EndNativeAndScanKeepsInv
<1>6. CASE EndScan
  BY <1>6, EndPhaseKeepsInv DEF EndScan
<1>7. CASE EndPayload
  BY <1>7, EndPhaseKeepsInv DEF EndPayload
<1>8. CASE Complete
  BY <1>8, CompleteKeepsInv
<1>9. ASSUME NEW n \in 1..MaxSize, Read(n) \/ Block(n)
      PROVE  Inv'
  <2>1. n \in Nat \ {0}
    BY BoundsAssumption
  <2> QED
    BY <1>9, <2>1, ReadKeepsInv, BlockKeepsInv
<1>10. CASE UNCHANGED vars
  BY <1>10 DEF vars, Inv
<1> QED
  BY <1>1, <1>2, <1>3, <1>4, <1>5, <1>6, <1>7, <1>8, <1>9, <1>10 DEF Next

-----------------------------------------------------------------------------
\* For every width of the counters, all ceilings and sizes, and any depth of
\* nesting, no snapshot but of RAF and X3F asks the source for more than its
\* ceilings allow, in all its phases and payloads together.
THEOREM CeilingsAreAlwaysCumulative == Spec => []CeilingsAreCumulativeElsewhere
<1>1. Inv => CeilingsAreCumulativeElsewhere
  <2> SUFFICES ASSUME Inv, kind # "embedded" PROVE WithinCeilings
    BY DEF CeilingsAreCumulativeElsewhere
  <2>1. /\ Within(Len(ops), RequestLimits(ops), Requests(ops), asked.requests, Code(ops))
        /\ Within(Len(ops), ByteLimits(ops), Bytes(ops), asked.bytes, Code(ops))
    BY DEF Inv, Budget, Account
  <2>2. RequestLimits(ops)[1] = ops[1].limits.requests /\ ByteLimits(ops)[1] = ops[1].limits.total
    BY CurrentIsLast DEF RequestLimits, ByteLimits
  <2> QED
    BY <2>1, <2>2 DEF Within, WithinCeilings
<1> QED
  BY InitInv, NextInv, <1>1, PTL DEF Spec

\* A snapshot that completes had no failure in any operation, however deeply
\* nested, and one that fails answers the first failure or a broken contract.
THEOREM FailuresAreAlwaysReported == Spec => []FailuresAreReported
<1>1. Inv => FailuresAreReported
  <2> SUFFICES ASSUME Inv PROVE FailuresAreReported
    OBVIOUS
  <2>1. phase = "complete" => fault = "Ok"
    BY DEF Inv, PhaseFits
  <2>2. ASSUME ops[1].state.code # "Ok"
        PROVE  ops[1].state.code \in {fault, "ContractViolation"}
    <3>1. Len(ops) = 1
      <4>1. PICK n \in Nat : n = Len(ops) /\ n >= 1
        BY CurrentIsLast
      <4>2. 1 < n => ops[1].state.code = "Ok"
        BY <4>1 DEF Inv, Budget, Stack
      <4> QED
        BY <2>2, <4>1, <4>2
    <3> QED
      BY <2>2, <3>1 DEF Inv, Budget, Reported, Code
  <2> QED
    BY <2>1, <2>2 DEF FailuresAreReported
<1> QED
  BY InitInv, NextInv, <1>1, PTL DEF Spec

\* The accounting of a snapshot that has ended is of all that any of its
\* operations asked the source for, up to the width of the counters.
THEOREM NothingEverGoesUncounted == Spec => []NothingGoesUncounted
<1>1. Inv => NothingGoesUncounted
  <2> SUFFICES ASSUME Inv, phase \in {"complete", "failed"},
                      ops[1].state.code # "ContractViolation"
               PROVE  /\ ops[1].state.requests = Least(Max32, asked.requests)
                      /\ ops[1].state.requested = Least(Max64, asked.bytes)
    BY DEF NothingGoesUncounted
  <2>1. Len(ops) = 1 /\ Code(ops) # "ContractViolation"
    BY DEF Inv, PhaseFits, Code
  <2>2. /\ Sums(1, Requests(ops), Max32, asked.requests)
        /\ Sums(1, Bytes(ops), Max64, asked.bytes)
    BY <2>1 DEF Inv, Budget, Account
  <2>3. asked.requests \in Nat /\ asked.bytes \in Nat
    BY DEF Inv
  <2>4. /\ Requests(ops)[1] = Least(Max32, asked.requests)
        /\ Bytes(ops)[1] = Least(Max64, asked.bytes)
    BY <2>2, <2>3, SumsOfOne
  <2> QED
    BY <2>1, <2>4 DEF Requests, Bytes
<1> QED
  BY InitInv, NextInv, <1>1, PTL DEF Spec
=============================================================================
