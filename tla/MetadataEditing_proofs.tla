------------------------ MODULE MetadataEditing_proofs ------------------------
(***************************************************************************)
(* The editing and authoring calls do what EditedLists promises, for every *)
(* store, every request and every limit: the calls by field, by exact key  *)
(* and by scope carry out their operations one after the other or change   *)
(* nothing, refuse for a target only where there is none, and blame the    *)
(* operation that it is.                                                   *)
(*                                                                         *)
(* First the operations by scope and the list that their call keeps, then  *)
(* what each call knows between two steps (CallIs), its steps, and the     *)
(* invariant (HostInv).                                                    *)
(***************************************************************************)
EXTENDS EditedLists_proofs

-----------------------------------------------------------------------------
(* Operations by exact key that lead from one list to one other.            *)

IsRun(ops, h) ==
    \A i \in 1..Len(ops) : Lists!ByKey(h[i - 1], ops[i], "FailIfPresent") = {h[i]}
Leads(ops, l, m) == \E h : h[0] = l /\ h[Len(ops)] = m /\ IsRun(ops, h)

LEMMA LeadsNone == ASSUME NEW l PROVE Leads(<<>>, l, l)
<1>1. PICK h : h = [i \in {0} |-> l]
  OBVIOUS
<1>2. h[0] = l /\ Len(<<>>) = 0
  BY <1>1
<1>3. IsRun(<<>>, h)
  BY DEF IsRun
<1> QED BY <1>2, <1>3 DEF Leads

LEMMA LeadsJoin ==
    ASSUME NEW a, IsSequence(a), NEW b, IsSequence(b), NEW l, NEW m, NEW k,
           Leads(a, l, m), Leads(b, m, k)
    PROVE  Leads(a \o b, l, k)
<1>1. PICK x \in Nat, y \in Nat : x = Len(a) /\ y = Len(b)
  BY DEF IsSequence
<1>2. PICK f : f[0] = l /\ f[x] = m /\ IsRun(a, f)
  BY <1>1 DEF Leads
<1>3. PICK g : g[0] = m /\ g[y] = k /\ IsRun(b, g)
  BY <1>1 DEF Leads
<1>4. PICK h : h = [i \in 0..x + y |-> IF i <= x THEN f[i] ELSE g[i - x]]
  OBVIOUS
<1>5. PICK c : c = a \o b
  OBVIOUS
<1>6. /\ Len(c) = x + y /\ (\A i \in 1..x : c[i] = a[i]) /\ \A i \in 1..y : c[x + i] = b[i]
  BY <1>1, <1>5, SequenceJoin
<1>7. h[0] = l /\ h[x + y] = k
  <2>1. h[0] = l
    BY <1>2, <1>4
  <2>2. CASE y = 0
    <3>1. x + y = x /\ x \in 0..x + y /\ x <= x
      BY <2>2
    <3>2. h[x + y] = f[x]
      BY <1>4, <3>1
    <3> QED BY <1>2, <1>3, <2>1, <2>2, <3>2
  <2>3. CASE y # 0
    <3>1. x + y \in 0..x + y /\ ~(x + y <= x) /\ x + y - x = y
      BY <2>3
    <3>2. h[x + y] = g[x + y - x]
      BY <1>4, <3>1
    <3> QED BY <1>3, <2>1, <3>1, <3>2
  <2> QED BY <2>1, <2>2, <2>3
<1>8. ASSUME NEW i \in 1..x + y
      PROVE  Lists!ByKey(h[i - 1], c[i], "FailIfPresent") = {h[i]}
  <2>1. CASE i <= x
    <3>1. i \in 1..x /\ h[i] = f[i] /\ h[i - 1] = f[i - 1] /\ c[i] = a[i]
      BY <1>4, <1>6, <2>1
    <3> QED BY <1>1, <1>2, <3>1 DEF IsRun
  <2>2. CASE ~(i <= x)
    <3>1. PICK j \in 1..y : i = x + j
      <4>1. i - x \in 1..y /\ i = x + (i - x)
        BY <2>2
      <4> QED BY <4>1
    <3>2. h[i] = g[j] /\ c[i] = b[j]
      BY <1>4, <1>6, <2>2, <3>1
    <3>3. h[i - 1] = g[j - 1]
      <4>1. CASE j = 1
        BY <1>2, <1>3, <1>4, <3>1, <4>1
      <4>2. CASE j # 1
        BY <1>4, <3>1, <4>2
      <4> QED BY <4>1, <4>2
    <3> QED BY <1>1, <1>3, <3>2, <3>3 DEF IsRun
  <2> QED BY <2>1, <2>2
<1>9. IsRun(c, h)
  BY <1>6, <1>8 DEF IsRun
<1> QED BY <1>5, <1>6, <1>7, <1>9 DEF Leads

\* The place that the only entry with a key has.
LEMMA OnlyPlace ==
    ASSUME NEW P, NEW k, P = {k}, k \in Nat
    PROVE  Cardinality(P) = 1 /\ Nth(P, 1) = k
<1>1. Cardinality(P) = 1
  BY FS_Singleton
<1>2. {q \in P : q < k} = {}
  OBVIOUS
<1>3. Cardinality({q \in P : q < k}) = 0
  BY <1>2, FS_EmptySet
<1> QED BY <1>1, <1>3 DEF Nth

LEMMA SetsOnly ==
    ASSUME NEW l, NEW k, NEW e, KeyLive(l, e.key) = {k}, k \in Nat
    PROVE  Lists!ByKey(l, Exact("Set", e), "FailIfPresent") =
               {Put(l, k, Lists!Rewritten(l[k], e.value, e.wire))}
<1>1. PICK op : op = Exact("Set", e)
  OBVIOUS
<1>2. /\ op.kind = "Set" /\ op.key = e.key /\ op.value = e.value /\ op.wire = e.wire
      /\ op.occurrence = Unique
  BY <1>1 DEF Exact
<1>3. KeyLive(l, op.key) = {k}
  BY <1>2
<1>4. Cardinality(KeyLive(l, op.key)) = 1 /\ Nth(KeyLive(l, op.key), 1) = k
  BY <1>3, OnlyPlace
<1>5. KeySets(l, op)
  BY <1>2, <1>4, EditingAssumption DEF KeySets, KeyNamed
<1>6. k = Nth(KeyLive(l, op.key), Position(op))
  BY <1>2, <1>4 DEF Position
<1>7. Lists!ByKey(l, op, "FailIfPresent") = {Put(l, k, Lists!Rewritten(l[k], op.value, op.wire))}
  BY <1>5, <1>6, ByKeySets
<1> QED BY <1>1, <1>2, <1>7

LEMMA RemovesOnly ==
    ASSUME NEW l, NEW k, NEW key, KeyLive(l, key) = {k}, k \in Nat
    PROVE  Lists!ByKey(l, Removal(key), "FailIfPresent") = {Lists!Mark(l, {k})}
<1>1. PICK op : op = Removal(key)
  OBVIOUS
<1>2. op.kind = "Remove" /\ op.key = key /\ op.occurrence = Unique
  BY <1>1 DEF Exact, Removal
<1>3. KeyLive(l, op.key) = {k}
  BY <1>2
<1>4. Cardinality(KeyLive(l, op.key)) = 1 /\ Nth(KeyLive(l, op.key), 1) = k
  BY <1>3, OnlyPlace
<1>5. KeyDrops(l, op)
  BY <1>2, <1>4, EditingAssumption DEF KeyDrops, KeyNamed
<1>6. k = Nth(KeyLive(l, op.key), Position(op))
  BY <1>2, <1>4 DEF Position
<1>7. Lists!ByKey(l, op, "FailIfPresent") = {Lists!Mark(l, {k})}
  BY <1>5, <1>6, ByKeyDrops
<1> QED BY <1>1, <1>7

LEMMA AddsFirst ==
    ASSUME NEW l, NEW e, KeyLive(l, e.key) = {}
    PROVE  Lists!ByKey(l, Exact("Add", e), "FailIfPresent") =
               {Append(l, Lists!Entry(e.key, e.value, e.wire))}
<1>1. PICK op : op = Exact("Add", e)
  OBVIOUS
<1>2. /\ op.kind = "Add" /\ op.key = e.key /\ op.value = e.value /\ op.wire = e.wire
      /\ op.occurrence = Unique
  BY <1>1 DEF Exact
<1>3. KeyAdds(l, op, "FailIfPresent")
  BY <1>2, FS_EmptySet DEF KeyAdds
<1>4. Lists!ByKey(l, op, "FailIfPresent") =
         {Append(l, Lists!Entry(op.key, op.value, op.wire))}
  BY <1>3, ByKeyAdds
<1> QED BY <1>1, <1>2, <1>4

-----------------------------------------------------------------------------
(* One operation by scope, place by place.                                  *)

LEMMA RewrittenIs ==
    ASSUME NEW x, IsView(x), NEW v, NEW w, NEW y, y = Lists!Rewritten(x, v, w)
    PROVE  /\ IsView(y) /\ y.key = x.key /\ y.value = v /\ y.wire = w
           /\ y.flags = (x.flags \cup {"Dirty"}) \ {"BigEndian"}
           /\ Deleted(y) <=> Deleted(x)
<1>1. PICK key, value, wire, flags :
          key = x.key /\ value = x.value /\ wire = x.wire /\ flags = x.flags
  OBVIOUS
<1>2. x = [key |-> key, value |-> value, wire |-> wire, flags |-> flags]
  BY <1>1 DEF IsView
<1>3. PICK f : f = (flags \cup {"Dirty"}) \ {"BigEndian"}
  OBVIOUS
<1>4. y = [key |-> key, value |-> v, wire |-> w, flags |-> f]
  BY <1>2, <1>3 DEF Lists!Rewritten
<1>5. y.key = key /\ y.value = v /\ y.wire = w /\ y.flags = f
  BY <1>4
<1>6. IsView(y)
  BY <1>4, <1>5 DEF IsView
<1> QED BY <1>1, <1>3, <1>5, <1>6 DEF Deleted

\* What becomes of an entry in the scope.
Kept(op, e) ==
    IF Proposed(op, e.key) = {} THEN Lists!Marked(e)
    ELSE Lists!Rewritten(e, op.entries[Min(Proposed(op, e.key))].value,
                         IF op.scope.root \in Customs
                         THEN op.entries[Min(Proposed(op, e.key))].wire ELSE e.wire)

LEMMA KeptIs ==
    ASSUME NEW op, NEW e, IsView(e), NEW d, d = Kept(op, e)
    PROVE  /\ IsView(d) /\ d.key = e.key
           /\ Proposed(op, e.key) = {} => Deleted(d)
           /\ Proposed(op, e.key) # {} =>
                 /\ Deleted(d) <=> Deleted(e)
                 /\ d.value = op.entries[Min(Proposed(op, e.key))].value
                 /\ d.wire = IF op.scope.root \in Customs
                             THEN op.entries[Min(Proposed(op, e.key))].wire ELSE e.wire
                 /\ d.flags = (e.flags \cup {"Dirty"}) \ {"BigEndian"}
<1>1. CASE Proposed(op, e.key) = {}
  <2>1. d = Lists!Marked(e)
    BY <1>1 DEF Kept
  <2> QED BY <1>1, <2>1, ViewsAre
<1>2. CASE Proposed(op, e.key) # {}
  <2>1. PICK v, w : /\ v = op.entries[Min(Proposed(op, e.key))].value
                    /\ w = IF op.scope.root \in Customs
                           THEN op.entries[Min(Proposed(op, e.key))].wire ELSE e.wire
    OBVIOUS
  <2>2. d = Lists!Rewritten(e, v, w)
    BY <1>2, <2>1 DEF Kept
  <2> QED BY <1>2, <2>1, <2>2, RewrittenIs
<1> QED BY <1>1, <1>2

\* The list with that done at some places.
KeptList(l, op, T) == [n \in 1..Len(l) |-> IF n \in T THEN Kept(op, l[n]) ELSE l[n]]

LEMMA KeptListIs ==
    ASSUME NEW l, IsSequence(l), NEW op, NEW T, NEW g, g = KeptList(l, op, T)
    PROVE  /\ IsSequence(g) /\ Len(g) = Len(l) /\ Len(l) \in Nat
           /\ \A n \in 1..Len(l) : g[n] = IF n \in T THEN Kept(op, l[n]) ELSE l[n]
<1>1. PICK m \in Nat : m = Len(l)
  BY DEF IsSequence
<1>2. g = [n \in 1..m |-> IF n \in T THEN Kept(op, l[n]) ELSE l[n]]
  BY <1>1 DEF KeptList
<1>3. g = [n \in 1..m |-> g[n]]
  BY <1>2
<1>4. IsSequence(g) /\ Len(g) = m
  BY <1>3, SequenceMade
<1> QED BY <1>1, <1>2, <1>4

LEMMA KeptListNone ==
    ASSUME NEW l, IsSequence(l), NEW op PROVE KeptList(l, op, {}) = l
<1>1. PICK g : g = KeptList(l, op, {})
  OBVIOUS
<1>2. IsSequence(g) /\ Len(g) = Len(l) /\ \A n \in 1..Len(l) : g[n] = l[n]
  BY <1>1, KeptListIs
<1> QED BY <1>1, <1>2, SequenceEqual

LEMMA KeptListMore ==
    ASSUME NEW l, IsSequence(l), NEW op, NEW T, NEW k \in 1..Len(l), k \notin T,
           NEW U, U = T \cup {k}, NEW g, g = KeptList(l, op, T)
    PROVE  KeptList(l, op, U) = Put(g, k, Kept(op, g[k])) /\ g[k] = l[k]
<1>1. PICK u : u = KeptList(l, op, U)
  OBVIOUS
<1>2. PICK m \in Nat : m = Len(l)
  BY DEF IsSequence
<1>3. /\ IsSequence(g) /\ Len(g) = m
      /\ \A n \in 1..m : g[n] = IF n \in T THEN Kept(op, l[n]) ELSE l[n]
  BY <1>2, KeptListIs
<1>4. /\ IsSequence(u) /\ Len(u) = m
      /\ \A n \in 1..m : u[n] = IF n \in U THEN Kept(op, l[n]) ELSE l[n]
  BY <1>1, <1>2, KeptListIs
<1>5. k \in 1..Len(g) /\ k \in 1..m
  BY <1>2, <1>3
<1>6. g[k] = l[k]
  BY <1>3, <1>5
<1>7. PICK p : p = Put(g, k, Kept(op, g[k]))
  OBVIOUS
<1>8. /\ IsSequence(p) /\ Len(p) = m /\ p[k] = Kept(op, g[k])
      /\ \A n \in 1..m : n # k => p[n] = g[n]
  <2>1. IsSequence(g)
    BY <1>3
  <2>2. /\ IsSequence(p) /\ Len(p) = Len(g) /\ p[k] = Kept(op, g[k])
        /\ \A n \in 1..Len(g) : n # k => p[n] = g[n]
    BY <1>5, <1>7, <2>1, PutIs
  <2> QED BY <1>3, <2>2
<1>9. ASSUME NEW n \in 1..m PROVE u[n] = p[n]
  <2>1. CASE n = k
    BY <1>4, <1>5, <1>6, <1>8, <2>1
  <2>2. CASE n # k
    <3>1. n \in U <=> n \in T
      BY <2>2
    <3> QED BY <1>3, <1>4, <1>8, <2>2, <3>1
  <2> QED BY <2>1, <2>2
<1>10. u = p
  <2>1. IsSequence(u) /\ IsSequence(p) /\ Len(u) = Len(p) /\ \A n \in 1..Len(u) : u[n] = p[n]
    BY <1>4, <1>8, <1>9
  <2> QED BY <2>1, SequenceEqual
<1> QED BY <1>1, <1>6, <1>7, <1>10

\* The only entry with a key is still there while others are changed.
LEMMA KeptListOnly ==
    ASSUME NEW l, IsSequence(l), \A n \in 1..Len(l) : IsView(l[n]), NEW op, NEW T,
           \A n \in T : n \in 1..Len(l) /\ ~Deleted(l[n]), NEW key, NEW k,
           KeyLive(l, key) = {k}, k \notin T, NEW g, g = KeptList(l, op, T)
    PROVE  KeyLive(g, key) = {k}
<1>1. PICK m \in Nat : m = Len(l)
  BY DEF IsSequence
<1>2. /\ Len(g) = m
      /\ \A n \in 1..m : g[n] = IF n \in T THEN Kept(op, l[n]) ELSE l[n]
  BY <1>1, KeptListIs
<1>3. k \in 1..m /\ ~Deleted(l[k]) /\ l[k].key = key
  BY <1>1, KeyLiveIn
<1>4. \A n \in 1..m : n # k /\ l[n].key = key => Deleted(l[n])
  BY <1>1 DEF KeyLive, LivePlaces, KeyAt
<1>5. ASSUME NEW n \in 1..m, n # k PROVE Deleted(g[n]) \/ g[n].key # key
  <2>1. CASE n \in T
    <3>1. g[n] = Kept(op, l[n]) /\ IsView(l[n]) /\ ~Deleted(l[n])
      BY <1>1, <1>2, <2>1
    <3>2. g[n].key = l[n].key
      BY <3>1, KeptIs
    <3>3. l[n].key # key
      BY <1>4, <1>5, <3>1
    <3> QED BY <3>2, <3>3
  <2>2. CASE n \notin T
    BY <1>2, <1>4, <1>5, <2>2
  <2> QED BY <2>1, <2>2
<1>6. g[k] = l[k]
  BY <1>2, <1>3
<1>7. \A n : n \in KeyLive(g, key) <=> n = k
  <2>1. \A n : n \in KeyLive(g, key) <=> n \in 1..m /\ ~Deleted(g[n]) /\ g[n].key = key
    BY <1>2 DEF KeyLive, LivePlaces, KeyAt
  <2> QED BY <1>3, <1>5, <1>6, <2>1
<1> QED BY <1>7

Proposals(op) == IsSequence(op.entries) /\ \A n \in 1..Len(op.entries) : IsProposal(op.entries[n])

LEMMA ProposedFirst ==
    ASSUME NEW op, Proposals(op), NEW key, Proposed(op, key) # {}, NEW m, m = Min(Proposed(op, key))
    PROVE  m \in 1..Len(op.entries) /\ op.entries[m].key = key /\ IsProposal(op.entries[m])
<1>1. PICK P : P = Proposed(op, key)
  OBVIOUS
<1>2. P \subseteq Nat /\ P # {}
  BY <1>1 DEF Proposed
<1>3. Min(P) \in P
  BY <1>2, MinIs
<1> QED BY <1>1, <1>3 DEF Proposed, Proposals

\* The wire type that an entry replaced gets.
WireOf(op, m, w) == IF op.scope.root \in Customs THEN op.entries[m].wire ELSE w

LEMMA ReplacementIs ==
    ASSUME NEW op, Proposals(op), NEW o, Proposed(op, o.key) # {}, NEW r, r = Replacement(op, o),
           NEW m, m = Min(Proposed(op, o.key))
    PROVE  /\ r.key = o.key /\ r.value = op.entries[m].value
           /\ r.wire = WireOf(op, m, o.wire)
<1>1. PICK e : e = op.entries[m]
  OBVIOUS
<1>2. e.key = o.key /\ IsProposal(e)
  BY <1>1, ProposedFirst
<1>3. r = IF op.scope.root \in Customs THEN e ELSE [e EXCEPT !.wire = o.wire]
  BY <1>1 DEF Replacement
<1>4. CASE op.scope.root \in Customs
  BY <1>1, <1>2, <1>3, <1>4 DEF WireOf
<1>5. CASE op.scope.root \notin Customs
  <2>1. r = [e EXCEPT !.wire = o.wire]
    BY <1>3, <1>5
  <2>2. PICK k, v, w : k = e.key /\ v = e.value /\ w = e.wire
    OBVIOUS
  <2>3. e = [key |-> k, value |-> v, wire |-> w]
    BY <1>2, <2>2 DEF IsProposal
  <2>4. r = [key |-> k, value |-> v, wire |-> o.wire]
    BY <2>1, <2>3
  <2> QED BY <1>1, <1>2, <1>5, <2>2, <2>4 DEF WireOf
<1> QED BY <1>4, <1>5

\* A list of the entries that an operation by scope is about.
Touches(old, l, live) ==
    /\ IsSequence(old)
    /\ \A i, j \in 1..Len(old) : i # j => old[i].key # old[j].key
    /\ \A i \in 1..Len(old) :
          \E n \in live : KeyLive(l, old[i].key) = {n} /\ l[n].wire = old[i].wire
    /\ \A n \in live : \E i \in 1..Len(old) : l[n].key = old[i].key

\* What one of them is replaced by.
Change(op, o) ==
    IF op.kind = "Replace" /\ Proposed(op, o.key) # {}
    THEN Exact("Set", Replacement(op, o)) ELSE Removal(o.key)

LEMMA ChangeSets ==
    ASSUME NEW op, Proposals(op), NEW o, Proposed(op, o.key) # {}, op.kind = "Replace",
           NEW m, m = Min(Proposed(op, o.key))
    PROVE  \E r : /\ Change(op, o) = Exact("Set", r) /\ r.key = o.key
                  /\ r.value = op.entries[m].value /\ r.wire = WireOf(op, m, o.wire)
<1>1. PICK r : r = Replacement(op, o)
  OBVIOUS
<1>2. r.key = o.key /\ r.value = op.entries[m].value /\ r.wire = WireOf(op, m, o.wire)
  BY <1>1, ReplacementIs
<1>3. Change(op, o) = Exact("Set", r)
  BY <1>1 DEF Change
<1> QED BY <1>2, <1>3

LEMMA ChangeIs ==
    ASSUME NEW op, Proposals(op), NEW o, Proposed(op, o.key) # {} => op.kind = "Replace",
           NEW g, IsSequence(g), NEW k \in 1..Len(g), KeyLive(g, o.key) = {k},
           IsView(g[k]), g[k].wire = o.wire
    PROVE  Lists!ByKey(g, Change(op, o), "FailIfPresent") = {Put(g, k, Kept(op, g[k]))}
<1>1. g[k].key = o.key /\ k \in Nat
  <2>1. k \in KeyLive(g, o.key)
    OBVIOUS
  <2> QED BY <2>1, KeyLiveIn DEF IsSequence
<1>2. CASE Proposed(op, o.key) # {}
  <2>1. PICK m : m = Min(Proposed(op, o.key))
    OBVIOUS
  <2>2. PICK r : /\ Change(op, o) = Exact("Set", r) /\ r.key = o.key
                 /\ r.value = op.entries[m].value /\ r.wire = WireOf(op, m, o.wire)
    BY <1>2, <2>1, ChangeSets
  <2>3. Change(op, o) = Exact("Set", r)
    BY <2>2
  <2>4. KeyLive(g, r.key) = {k}
    BY <2>2
  <2>5. Lists!ByKey(g, Exact("Set", r), "FailIfPresent") =
            {Put(g, k, Lists!Rewritten(g[k], r.value, r.wire))}
    BY <1>1, <2>4, SetsOnly
  <2>6. Kept(op, g[k]) = Lists!Rewritten(g[k], r.value, r.wire)
    BY <1>1, <1>2, <2>1, <2>2 DEF Kept, WireOf
  <2> QED BY <2>3, <2>5, <2>6
<1>3. CASE Proposed(op, o.key) = {}
  <2>1. Change(op, o) = Removal(o.key)
    BY <1>3 DEF Change
  <2>2. Lists!ByKey(g, Removal(o.key), "FailIfPresent") = {Lists!Mark(g, {k})}
    BY <1>1, RemovesOnly
  <2>3. Lists!Mark(g, {k}) = Put(g, k, Lists!Marked(g[k]))
    <3>0. PICK P : P = {}
      OBVIOUS
    <3>1. PICK t, Q : t = Lists!Mark(g, P) /\ P = {} /\ Q = P \cup {k}
      BY <3>0
    <3>2. t = g
      BY <3>1, MarkNone
    <3>3. k \notin P
      BY <3>1
    <3>4. Lists!Mark(g, Q) = Put(t, k, Lists!Marked(t[k]))
      BY <3>1, <3>3, MarkMore
    <3>5. Q = {k}
      BY <3>1
    <3> QED BY <3>2, <3>4, <3>5
  <2>4. Kept(op, g[k]) = Lists!Marked(g[k])
    BY <1>1, <1>3 DEF Kept
  <2> QED BY <2>1, <2>2, <2>3, <2>4
<1> QED BY <1>2, <1>3

\* The places that the first of them have.
Reach(l, live, old, i) == {n \in live : \E j \in 1..i : l[n].key = old[j].key}

\* Operations by exact key, one for each entry of the scope, redo them in their places.
LEMMA KeptRun ==
    ASSUME NEW l, IsSequence(l), \A n \in 1..Len(l) : IsView(l[n]), NEW op, Proposals(op),
           NEW live, \A n \in live : n \in 1..Len(l) /\ ~Deleted(l[n]),
           NEW old, Touches(old, l, live),
           \A i \in 1..Len(old) : Proposed(op, old[i].key) # {} => op.kind = "Replace",
           NEW a, a = [n \in 1..Len(old) |-> Change(op, old[n])]
    PROVE  Leads(a, l, KeptList(l, op, live))
<1>1. PICK m \in Nat : m = Len(old)
  BY DEF Touches, IsSequence
<1>2. IsSequence(a) /\ Len(a) = m /\ \A n \in 1..m : a[n] = Change(op, old[n])
  <2>1. a = [n \in 1..m |-> a[n]]
    BY <1>1
  <2>2. IsSequence(a) /\ Len(a) = m
    BY <2>1, SequenceMade
  <2> QED BY <1>1, <2>2
<1>3. PICK h : h = [i \in 0..m |-> KeptList(l, op, Reach(l, live, old, i))]
  OBVIOUS
<1>4. h[0] = l
  <2>1. Reach(l, live, old, 0) = {}
    BY DEF Reach
  <2>2. 0 \in 0..m
    OBVIOUS
  <2>3. h[0] = KeptList(l, op, {})
    BY <1>3, <2>1, <2>2
  <2> QED BY <2>3, KeptListNone
<1>5. h[m] = KeptList(l, op, live)
  <2>1. Reach(l, live, old, m) = live
    BY <1>1 DEF Reach, Touches
  <2> QED BY <1>3, <2>1
<1>6. ASSUME NEW i \in 1..m
      PROVE  Lists!ByKey(h[i - 1], a[i], "FailIfPresent") = {h[i]}
  <2>1. PICK o : o = old[i]
    OBVIOUS
  <2>2. PICK k \in live : KeyLive(l, o.key) = {k} /\ l[k].wire = o.wire
    BY <1>1, <2>1 DEF Touches
  <2>3. k \in 1..Len(l) /\ l[k].key = o.key
    <3>1. k \in KeyLive(l, o.key)
      BY <2>2
    <3> QED BY <3>1, KeyLiveIn
  <2>4. PICK T, U : T = Reach(l, live, old, i - 1) /\ U = Reach(l, live, old, i)
    OBVIOUS
  <2>5. k \notin T
    <3>1. \A j \in 1..i - 1 : old[j].key # o.key
      BY <1>1, <2>1 DEF Touches
    <3> QED BY <2>3, <2>4, <3>1 DEF Reach
  <2>6. U = T \cup {k}
    <3>1. \A n \in live : l[n].key = o.key => n = k
      <4>1. ASSUME NEW n \in live, l[n].key = o.key PROVE n = k
        <5>1. n \in 1..Len(l) /\ ~Deleted(l[n])
          OBVIOUS
        <5>2. n \in KeyLive(l, o.key)
          BY <4>1, <5>1 DEF KeyLive, LivePlaces, KeyAt
        <5> QED BY <2>2, <5>2
      <4> QED BY <4>1
    <3>2. \A j : j \in 1..i <=> j \in 1..i - 1 \/ j = i
      OBVIOUS
    <3>3. \A n \in live : n \in U <=> n \in T \/ l[n].key = o.key
      BY <2>1, <2>4, <3>2 DEF Reach
    <3>4. \A n : n \in U <=> n \in T \/ n = k
      BY <2>2, <2>3, <2>4, <3>1, <3>3 DEF Reach
    <3> QED BY <3>4
  <2>7. PICK g : g = KeptList(l, op, T)
    OBVIOUS
  <2>8. KeptList(l, op, U) = Put(g, k, Kept(op, g[k])) /\ g[k] = l[k]
    <3>1. k \in 1..Len(l)
      BY <2>3
    <3> QED BY <2>5, <2>6, <2>7, <3>1, KeptListMore
  <2>9. IsSequence(g) /\ Len(g) = Len(l)
    BY <2>7, KeptListIs
  <2>10. KeyLive(g, o.key) = {k}
    <3>1. \A n \in T : n \in 1..Len(l) /\ ~Deleted(l[n])
      BY <2>4 DEF Reach
    <3> QED BY <2>2, <2>5, <2>7, <3>1, KeptListOnly
  <2>11. Lists!ByKey(g, Change(op, o), "FailIfPresent") = {Put(g, k, Kept(op, g[k]))}
    <3>1. k \in 1..Len(g) /\ IsView(g[k]) /\ g[k].wire = o.wire
      BY <2>2, <2>3, <2>8, <2>9
    <3>2. Proposed(op, o.key) # {} => op.kind = "Replace"
      BY <1>1, <2>1
    <3> QED BY <2>9, <2>10, <3>1, <3>2, ChangeIs
  <2>12. h[i - 1] = g /\ h[i] = KeptList(l, op, U) /\ a[i] = Change(op, o)
    BY <1>2, <1>3, <2>1, <2>4, <2>7
  <2> QED BY <2>8, <2>11, <2>12
<1>7. IsRun(a, h)
  BY <1>2, <1>6 DEF IsRun
<1> QED BY <1>2, <1>4, <1>5, <1>7 DEF Leads

\* Where the elements of two sequences are.
Joined(g, v, t) ==
    /\ IsSequence(t) /\ Len(t) = Len(g) + Len(v)
    /\ \A n \in 1..Len(g) : n \in 1..Len(t) /\ t[n] = g[n]
    /\ \A j \in 1..Len(v) : Len(g) + j \in 1..Len(t) /\ t[Len(g) + j] = v[j]
    /\ \A n \in 1..Len(t) : n \in 1..Len(g) \/ \E j \in 1..Len(v) : n = Len(g) + j

\* Two sequences, one after the other.
LEMMA JoinedIs ==
    ASSUME NEW g, IsSequence(g), NEW v, IsSequence(v), NEW t, t = g \o v
    PROVE  Joined(g, v, t)
<1>1. PICK x \in Nat, y \in Nat : x = Len(g) /\ y = Len(v)
  BY DEF IsSequence
<1>2. /\ IsSequence(t) /\ Len(t) = x + y
      /\ (\A n \in 1..x : t[n] = g[n]) /\ \A j \in 1..y : t[x + j] = v[j]
  BY <1>1, SequenceJoin
<1>3. ASSUME NEW n \in 1..x + y PROVE n \in 1..x \/ \E j \in 1..y : n = x + j
  <2>1. CASE n > x
    <3>1. n - x \in 1..y /\ n = x + (n - x)
      BY <2>1
    <3> QED BY <3>1
  <2> QED BY <2>1
<1> QED BY <1>1, <1>2, <1>3 DEF Joined

\* Entries that a request brings, as a host sees them.
NewView(e) == Lists!Entry(e.key, e.value, e.wire)
FirstViews(es, i) == [j \in 1..i |-> NewView(es[j])]

\* The views of the first entries brought.
LEMMA FirstViewsIs ==
    ASSUME NEW es, NEW i \in Nat, NEW v, v = FirstViews(es, i)
    PROVE  IsSequence(v) /\ Len(v) = i /\ \A j \in 1..i : v[j] = NewView(es[j])
<1>1. v = [j \in 1..i |-> NewView(es[j])]
  BY DEF FirstViews
<1>2. v = [j \in 1..i |-> v[j]]
  BY <1>1
<1>3. IsSequence(v) /\ Len(v) = i
  BY <1>2, SequenceMade
<1> QED BY <1>1, <1>3

LEMMA NewViewIs ==
    ASSUME NEW e
    PROVE  /\ IsView(NewView(e)) /\ NewView(e).key = e.key /\ NewView(e).value = e.value
           /\ NewView(e).wire = e.wire /\ NewView(e).flags = {"Dirty"} /\ ~Deleted(NewView(e))
<1>1. PICK d : d = NewView(e)
  OBVIOUS
<1>2. d = [key |-> e.key, value |-> e.value, wire |-> e.wire, flags |-> {"Dirty"}]
  BY <1>1 DEF NewView, Lists!Entry
<1>3. d.key = e.key /\ d.value = e.value /\ d.wire = e.wire /\ d.flags = {"Dirty"}
  BY <1>2
<1> QED BY <1>1, <1>2, <1>3 DEF IsView, Deleted

\* Entries added one by one.
LEMMA FreshRun ==
    ASSUME NEW g, IsSequence(g), NEW fresh, IsSequence(fresh),
           \A i \in 1..Len(fresh) : KeyLive(g, fresh[i].key) = {},
           \A i, j \in 1..Len(fresh) : i # j => fresh[i].key # fresh[j].key
    PROVE  Leads(Additions(fresh), g, g \o FirstViews(fresh, Len(fresh)))
<1>1. PICK m \in Nat : m = Len(fresh)
  BY DEF IsSequence
<1>2. PICK a : a = Additions(fresh)
  OBVIOUS
<1>3. IsSequence(a) /\ Len(a) = m /\ \A n \in 1..m : a[n] = Exact("Add", fresh[n])
  <2>1. a = [n \in 1..m |-> Exact("Add", fresh[n])]
    BY <1>1, <1>2 DEF Additions
  <2>2. a = [n \in 1..m |-> a[n]]
    BY <2>1
  <2>3. IsSequence(a) /\ Len(a) = m
    BY <2>2, SequenceMade
  <2> QED BY <2>1, <2>3
<1>4. PICK h : h = [i \in 0..m |-> g \o FirstViews(fresh, i)]
  OBVIOUS
<1>5. PICK x \in Nat : x = Len(g)
  BY DEF IsSequence
<1>6. ASSUME NEW i \in 0..m
      PROVE  /\ IsSequence(h[i]) /\ Len(h[i]) = x + i
             /\ \A n \in 1..x : h[i][n] = g[n]
             /\ \A j \in 1..i : h[i][x + j] = NewView(fresh[j])
  <2>1. PICK v : v = FirstViews(fresh, i)
    OBVIOUS
  <2>2. IsSequence(v) /\ Len(v) = i /\ \A j \in 1..i : v[j] = NewView(fresh[j])
    BY <2>1, FirstViewsIs
  <2>3. PICK t : t = g \o v
    OBVIOUS
  <2>4. h[i] = t
    BY <1>4, <2>1, <2>3
  <2>5. IsSequence(v) /\ x = Len(g) /\ i = Len(v) /\ x \in Nat /\ i \in Nat
    BY <1>5, <2>2
  <2>6. /\ IsSequence(t) /\ Len(t) = x + i /\ (\A n \in 1..x : t[n] = g[n])
        /\ \A j \in 1..i : t[x + j] = v[j]
    BY <2>3, <2>5, SequenceJoin
  <2>7. \A j \in 1..i : t[x + j] = NewView(fresh[j])
    BY <2>2, <2>6
  <2> QED BY <2>4, <2>6, <2>7
<1>7. h[0] = g
  <2>1. 0 \in 0..m
    OBVIOUS
  <2>2. IsSequence(h[0]) /\ Len(h[0]) = x /\ \A n \in 1..x : h[0][n] = g[n]
    BY <1>6, <2>1
  <2> QED BY <1>5, <2>2, SequenceEqual
<1>8. ASSUME NEW i \in 1..m
      PROVE  Lists!ByKey(h[i - 1], a[i], "FailIfPresent") = {h[i]}
  <2>1. i - 1 \in 0..m /\ i \in 0..m /\ x + i = x + (i - 1) + 1
    OBVIOUS
  <2>2. PICK e, p : e = fresh[i] /\ p = h[i - 1]
    OBVIOUS
  <2>3. /\ IsSequence(p) /\ Len(p) = x + (i - 1)
        /\ (\A n \in 1..x : p[n] = g[n])
        /\ \A j \in 1..i - 1 : p[x + j] = NewView(fresh[j])
    BY <1>6, <2>1, <2>2
  <2>4. KeyLive(p, e.key) = {}
    <3>1. ASSUME NEW n \in KeyLive(p, e.key) PROVE FALSE
      <4>1. n \in 1..Len(p) /\ ~Deleted(p[n]) /\ p[n].key = e.key
        BY KeyLiveIn
      <4>2. CASE n \in 1..x
        <5>1. n \in KeyLive(g, e.key)
          BY <1>5, <2>3, <4>1, <4>2 DEF KeyLive, LivePlaces, KeyAt
        <5> QED BY <1>1, <2>2, <5>1
      <4>3. CASE n \notin 1..x
        <5>1. PICK j \in 1..i - 1 : n = x + j
          <6>1. n - x \in 1..i - 1 /\ n = x + (n - x)
            BY <2>3, <4>1, <4>3
          <6> QED BY <6>1
        <5>2. p[n].key = fresh[j].key
          BY <2>3, <5>1, NewViewIs
        <5>3. j \in 1..Len(fresh) /\ i \in 1..Len(fresh) /\ j # i
          BY <1>1, <5>1
        <5>4. fresh[j].key # fresh[i].key
          BY <5>3
        <5> QED BY <2>2, <4>1, <5>2, <5>4
      <4> QED BY <4>2, <4>3
    <3> QED BY <3>1
  <2>5. Lists!ByKey(p, Exact("Add", e), "FailIfPresent") =
            {Append(p, Lists!Entry(e.key, e.value, e.wire))}
    BY <2>4, AddsFirst
  <2>6. PICK v, q : v = NewView(e) /\ q = Append(p, v)
    OBVIOUS
  <2>7. /\ IsSequence(q) /\ Len(q) = Len(p) + 1 /\ (\A n \in 1..Len(p) : q[n] = p[n])
        /\ q[Len(p) + 1] = v
    BY <2>3, <2>6, SequenceAppend
  <2>8. /\ IsSequence(h[i]) /\ Len(h[i]) = x + i
        /\ (\A n \in 1..x : h[i][n] = g[n])
        /\ \A j \in 1..i : h[i][x + j] = NewView(fresh[j])
    BY <1>6, <2>1
  <2>9. ASSUME NEW n \in 1..x + i PROVE q[n] = h[i][n]
    <3>1. CASE n \in 1..x
      <4>1. n \in 1..Len(p)
        BY <2>3, <3>1
      <4> QED BY <2>3, <2>7, <2>8, <3>1, <4>1
    <3>2. CASE n \in x + 1..x + (i - 1)
      <4>1. PICK j \in 1..i - 1 : n = x + j
        <5>1. n - x \in 1..i - 1 /\ n = x + (n - x)
          BY <3>2
        <5> QED BY <5>1
      <4>2. q[n] = p[n] /\ j \in 1..i
        BY <2>3, <2>7, <3>2
      <4> QED BY <2>3, <2>8, <4>1, <4>2
    <3>3. CASE n = x + i
      BY <2>1, <2>2, <2>3, <2>6, <2>7, <2>8, <3>3
    <3>4. n \in 1..x \/ n \in x + 1..x + (i - 1) \/ n = x + i
      OBVIOUS
    <3> QED BY <3>1, <3>2, <3>3, <3>4
  <2>10. q = h[i]
    <3>1. IsSequence(q) /\ IsSequence(h[i]) /\ Len(q) = x + i /\ Len(h[i]) = x + i
      BY <2>1, <2>3, <2>7, <2>8
    <3> QED BY <2>9, <3>1, SequenceEqual
  <2>11. a[i] = Exact("Add", e)
    BY <1>3, <2>2
  <2> QED BY <2>2, <2>5, <2>6, <2>10, <2>11 DEF NewView
<1>9. IsRun(a, h)
  BY <1>3, <1>8 DEF IsRun
<1>10. h[m] = g \o FirstViews(fresh, m)
  BY <1>4
<1> QED BY <1>1, <1>2, <1>3, <1>7, <1>9, <1>10 DEF Leads

-----------------------------------------------------------------------------
(* What an operation by scope promises.                                     *)

FreshPlaces(l, op) ==
    {i \in 1..Len(op.entries) :
        \A n \in ScopeLive(l, op.scope) : l[n].key # op.entries[i].key}

\* The list after an operation by scope.
ScopeDone(l, op) ==
    LET fresh == Picked(op.entries, FreshPlaces(l, op))
    IN  KeptList(l, op, ScopeLive(l, op.scope)) \o FirstViews(fresh, Len(fresh))

\* That is the only list promised, when the operation suits what is there.
LEMMA ByScopeDone ==
    ASSUME NEW l, NEW op, (op.kind = "Add") <=> (ScopeLive(l, op.scope) = {})
    PROVE  Lists!ByScope(l, op) = {ScopeDone(l, op)}
<1>1. \A key : /\ Lists!For(op, key) = Proposed(op, key)
               /\ Lists!Min(Proposed(op, key)) = Min(Proposed(op, key))
  BY MinSame DEF Lists!For, Proposed
<1>2. PICK live : live = ScopeLive(l, op.scope)
  OBVIOUS
<1>3. Lists!Replaced(l, op, live) = KeptList(l, op, live)
  BY <1>1 DEF Lists!Replaced, KeptList, Kept
<1>4. PICK fresh : fresh = Picked(op.entries, FreshPlaces(l, op))
  OBVIOUS
<1>5. fresh = Lists!Picked(op.entries, {i \in 1..Len(op.entries) :
                                        \A n \in live : l[n].key # op.entries[i].key})
  BY <1>2, <1>4, PickedSame DEF FreshPlaces
<1>6. Lists!Brought(l, op, live) = FirstViews(fresh, Len(fresh))
  BY <1>5 DEF Lists!Brought, FirstViews, NewView
<1>7. Lists!ByScope(l, op) = {Lists!Replaced(l, op, live) \o Lists!Brought(l, op, live)}
  BY <1>2, ScopeLiveIs DEF Lists!ByScope
<1> QED BY <1>2, <1>3, <1>4, <1>6, <1>7 DEF ScopeDone

LEMMA ByScopeNone ==
    ASSUME NEW l, NEW op, ~((op.kind = "Add") <=> (ScopeLive(l, op.scope) = {}))
    PROVE  Lists!ByScope(l, op) = {}
BY ScopeLiveIs DEF Lists!ByScope

-----------------------------------------------------------------------------
(* The roots that a request names, in a list.                               *)

\* What is picked, in the terms of the sequence that it is picked from.
PickedOf(s, P, f) ==
    /\ IsSequence(f) /\ Len(f) \in Nat
    /\ \A j \in 1..Len(f) : \E p \in P : f[j] = s[p]
    /\ \A p \in P : \E j \in 1..Len(f) : f[j] = s[p]

LEMMA PickedFrom ==
    ASSUME NEW s, NEW n, NEW P, Within(P, n), NEW f, f = Picked(s, P)
    PROVE  PickedOf(s, P, f)
<1>1. Picks(s, P, f)
  BY PickedIs
<1>2. PICK q : /\ Enumerates(q, P) /\ IsSequence(f) /\ Len(f) = Len(q) /\ Len(q) \in Nat
               /\ \A i \in 1..Len(q) : f[i] = s[q[i]]
  BY <1>1 DEF Picks
<1>3. P = {q[i] : i \in 1..Len(q)}
  BY <1>2 DEF Enumerates
<1>4. ASSUME NEW j \in 1..Len(f) PROVE \E p \in P : f[j] = s[p]
  BY <1>2, <1>3
<1>5. ASSUME NEW p \in P PROVE \E j \in 1..Len(f) : f[j] = s[p]
  BY <1>2, <1>3
<1> QED BY <1>2, <1>4, <1>5 DEF PickedOf

\* Members with keys of their own are picked with keys of their own.
Apart(s, P) == \A p, r \in P : p # r => s[p].key # s[r].key

LEMMA PickedApart ==
    ASSUME NEW s, NEW n, NEW P, Within(P, n), Apart(s, P), NEW f, f = Picked(s, P)
    PROVE  Apart(f, 1..Len(f))
<1>1. Picks(s, P, f)
  BY PickedIs
<1>2. PICK q : /\ Enumerates(q, P) /\ IsSequence(f) /\ Len(f) = Len(q) /\ Len(q) \in Nat
               /\ \A i \in 1..Len(q) : f[i] = s[q[i]]
  BY <1>1 DEF Picks
<1>3. /\ P = {q[i] : i \in 1..Len(q)} /\ \A i, j \in 1..Len(q) : i < j => q[i] < q[j]
      /\ \A i \in 1..Len(q) : q[i] \in Nat
  <2>1. q \in Seq(Nat)
    BY <1>2 DEF Enumerates
  <2>2. P = {q[i] : i \in 1..Len(q)}
    BY <1>2 DEF Enumerates
  <2>3. \A i, j \in 1..Len(q) : i < j => q[i] < q[j]
    BY <1>2 DEF Enumerates
  <2>4. \A i \in 1..Len(q) : q[i] \in Nat
    BY <2>1
  <2> QED BY <2>2, <2>3, <2>4
<1>4. ASSUME NEW i \in 1..Len(q), NEW j \in 1..Len(q), i # j PROVE f[i].key # f[j].key
  <2>1. q[i] \in P /\ q[j] \in P /\ q[i] \in Nat /\ q[j] \in Nat
    BY <1>3
  <2>4. i \in Nat /\ j \in Nat
    BY <1>2
  <2>2. q[i] # q[j]
    <3>1. CASE i < j
      <4>1. q[i] < q[j]
        BY <1>3, <3>1
      <4> QED BY <2>1, <4>1
    <3>2. CASE j < i
      <4>1. q[j] < q[i]
        BY <1>3, <3>2
      <4> QED BY <2>1, <4>1
    <3> QED BY <1>4, <2>4, <3>1, <3>2
  <2>3. s[q[i]].key # s[q[j]].key
    BY <2>1, <2>2 DEF Apart
  <2> QED BY <1>2, <2>3
<1> QED BY <1>2, <1>4 DEF Apart

\* Keys that may stand beside each other.
Fit(j, k) == j # k /\ ~Collide(j, k)

LEMMA FitIs ==
    ASSUME NEW a, NEW b
    PROVE  /\ (PairStatus(a, b) = "Ok") <=> Fit(a.key, b.key)
           /\ Fit(a.key, b.key) <=> Fit(b.key, a.key)
           /\ PairStatus(a, b) \in {"Ok", "DuplicateEntry", "ShapeCollision"}
<1>1. {a.key.leaf, b.key.leaf} = {b.key.leaf, a.key.leaf}
  OBVIOUS
<1> QED BY <1>1 DEF PairStatus, Fit, Collide

\* The living under some roots, one shape and every key once.
RootLive(l, R) == {n \in 1..Len(l) : ~Deleted(l[n]) /\ l[n].key.root \in R}
WellFormed(l, R) ==
    /\ \A n \in RootLive(l, R) : Trackable(l[n])
    /\ \A m, n \in RootLive(l, R) : m # n => Fit(l[m].key, l[n].key)

\* The list that the call keeps of them.
StateIs(st, l, R) ==
    /\ IsSequence(st) /\ Apart(st, 1..Len(st))
    /\ \A i \in 1..Len(st) : st[i] = [key |-> st[i].key, wire |-> st[i].wire]
    /\ \A i \in 1..Len(st) :
          \E n \in RootLive(l, R) : l[n].key = st[i].key /\ l[n].wire = st[i].wire
    /\ \A n \in RootLive(l, R) : \E i \in 1..Len(st) : l[n].key = st[i].key

\* The only entry with a key.
LEMMA RootOnly ==
    ASSUME NEW l, NEW R, WellFormed(l, R), NEW n \in RootLive(l, R)
    PROVE  KeyLive(l, l[n].key) = {n}
<1>1. ASSUME NEW m \in KeyLive(l, l[n].key) PROVE m = n
  <2>1. m \in 1..Len(l) /\ ~Deleted(l[m]) /\ l[m].key = l[n].key
    BY KeyLiveIn
  <2>2. m \in RootLive(l, R)
    BY <2>1 DEF RootLive
  <2> QED BY <2>1, <2>2 DEF WellFormed, Fit
<1>2. n \in KeyLive(l, l[n].key)
  BY DEF RootLive, KeyLive, LivePlaces, KeyAt
<1> QED BY <1>1, <1>2

\* What a scope holds is under its root.
LEMMA ScopeInRoot ==
    ASSUME NEW l, NEW R, NEW scope, scope.root \in R
    PROVE  /\ \A n \in ScopeLive(l, scope) :
                 n \in RootLive(l, R) /\ InScope(scope, l[n].key) /\ n \in 1..Len(l)
                 /\ ~Deleted(l[n])
           /\ \A n \in RootLive(l, R) : InScope(scope, l[n].key) => n \in ScopeLive(l, scope)
BY DEF ScopeLive, LivePlaces, ScopeAt, RootLive, InScope

-----------------------------------------------------------------------------
(* The places of the list after an operation by scope.                      *)

FreshOf(l, op) == Picked(op.entries, FreshPlaces(l, op))

\* What is brought is new, each under a key of its own.
LEMMA FreshOfIs ==
    ASSUME NEW l, NEW op, Proposals(op), NEW f, f = FreshOf(l, op)
    PROVE  /\ IsSequence(f) /\ Len(f) \in Nat
           /\ \A j \in 1..Len(f) : \E p \in FreshPlaces(l, op) : f[j] = op.entries[p]
           /\ \A p \in FreshPlaces(l, op) : \E j \in 1..Len(f) : f[j] = op.entries[p]
           /\ Apart(op.entries, 1..Len(op.entries)) => Apart(f, 1..Len(f))
<1>1. PICK m \in Nat : m = Len(op.entries)
  BY DEF Proposals, IsSequence
<1>2. PICK P : P = FreshPlaces(l, op)
  OBVIOUS
<1>3. Within(P, m) /\ P \subseteq 1..m
  BY <1>1, <1>2 DEF FreshPlaces, Within
<1>4. f = Picked(op.entries, P)
  BY <1>2 DEF FreshOf
<1>5. Apart(op.entries, 1..Len(op.entries)) => Apart(op.entries, P)
  BY <1>1, <1>3 DEF Apart
<1>6. /\ IsSequence(f) /\ Len(f) \in Nat
      /\ (\A j \in 1..Len(f) : \E p \in P : f[j] = op.entries[p])
      /\ \A p \in P : \E j \in 1..Len(f) : f[j] = op.entries[p]
  <2>1. PickedOf(op.entries, P, f)
    BY <1>3, <1>4, PickedFrom
  <2> QED BY <2>1 DEF PickedOf
<1>7. Apart(op.entries, P) => Apart(f, 1..Len(f))
  BY <1>3, <1>4, PickedApart
<1> QED BY <1>2, <1>5, <1>6, <1>7

\* Where they are in it.
DonePlaces(l, op, g) ==
    LET f == FreshOf(l, op)
    IN  /\ IsSequence(g) /\ Len(l) \in Nat /\ Len(f) \in Nat /\ Len(g) = Len(l) + Len(f)
        /\ \A n \in 1..Len(l) : n \in 1..Len(g) /\
              g[n] = IF n \in ScopeLive(l, op.scope) THEN Kept(op, l[n]) ELSE l[n]
        /\ \A j \in 1..Len(f) : Len(l) + j \in 1..Len(g) /\ g[Len(l) + j] = NewView(f[j])
        /\ \A n \in 1..Len(g) : n \in 1..Len(l) \/ \E j \in 1..Len(f) : n = Len(l) + j

\* The list after the operation, place by place.
LEMMA DoneAt ==
    ASSUME NEW l, IsSequence(l), NEW op, Proposals(op), NEW g, g = ScopeDone(l, op)
    PROVE  DonePlaces(l, op, g)
<1>0. PICK f : f = FreshOf(l, op)
  OBVIOUS
<1>1. PICK k, v : k = KeptList(l, op, ScopeLive(l, op.scope)) /\ v = FirstViews(f, Len(f))
  OBVIOUS
<1>2. g = k \o v
  BY <1>0, <1>1 DEF ScopeDone, FreshOf
<1>3. IsSequence(k) /\ Len(k) = Len(l) /\ Len(l) \in Nat /\
      \A n \in 1..Len(l) : k[n] = IF n \in ScopeLive(l, op.scope) THEN Kept(op, l[n]) ELSE l[n]
  BY <1>1, KeptListIs
<1>4. Len(f) \in Nat
  BY <1>0, FreshOfIs
<1>5. IsSequence(v) /\ Len(v) = Len(f) /\ \A j \in 1..Len(f) : v[j] = NewView(f[j])
  BY <1>1, <1>4, FirstViewsIs
<1>6. IsSequence(k) /\ IsSequence(v)
  BY <1>3, <1>5
<1>7. Joined(k, v, g)
  BY <1>2, <1>6, JoinedIs
<1> QED BY <1>0, <1>3, <1>4, <1>5, <1>7 DEF Joined, DonePlaces

-----------------------------------------------------------------------------
(* An operation by scope on a list that is well formed.                     *)

\* What the checks on an operation establish.
EntryGood(op, e) ==
    /\ Canonical(e.key) /\ InScope(op.scope, e.key) /\ e.value \notin BadValues
    /\ (e.value = Void) <=> (e.wire = Form)
    /\ op.scope.root \notin Customs => e.wire = "none"

\* The operation goes with the list that the call keeps.
OpFits(st, op) ==
    /\ Proposals(op)
    /\ \A n \in 1..Len(op.entries) : EntryGood(op, op.entries[n])
    /\ \A m, n \in 1..Len(op.entries) : m # n => Fit(op.entries[m].key, op.entries[n].key)
    /\ \A m \in 1..Len(st) : ~InScope(op.scope, st[m].key) =>
          \A n \in 1..Len(op.entries) : Fit(st[m].key, op.entries[n].key)
    /\ (op.kind = "Add") <=> (\A m \in 1..Len(st) : ~InScope(op.scope, st[m].key))
    /\ op.kind \in {"Add", "Replace", "Remove"} /\ (op.kind = "Remove" => Len(op.entries) = 0)

\* An entry that is given new content.
Redone(op, e, d) ==
    /\ IsView(d) /\ d.key = e.key /\ (Deleted(d) <=> Deleted(e))
    /\ d.flags = (e.flags \cup {"Dirty"}) \ {"BigEndian"}
    /\ \E m \in 1..Len(op.entries) :
          /\ op.entries[m].key = e.key /\ d.value = op.entries[m].value
          /\ d.wire = WireOf(op, m, e.wire) /\ m = Min(Proposed(op, e.key))

LEMMA KeptRedone ==
    ASSUME NEW op, Proposals(op), NEW e, IsView(e), NEW d, d = Kept(op, e),
           Proposed(op, e.key) # {}
    PROVE  Redone(op, e, d)
<1>1. PICK m : m = Min(Proposed(op, e.key))
  OBVIOUS
<1>2. m \in 1..Len(op.entries) /\ op.entries[m].key = e.key
  BY <1>1, ProposedFirst
<1>3. /\ IsView(d) /\ d.key = e.key /\ (Deleted(d) <=> Deleted(e))
      /\ d.value = op.entries[m].value
      /\ d.wire = (IF op.scope.root \in Customs THEN op.entries[m].wire ELSE e.wire)
      /\ d.flags = (e.flags \cup {"Dirty"}) \ {"BigEndian"}
  BY <1>1, KeptIs
<1> QED BY <1>1, <1>2, <1>3 DEF Redone, WireOf

LEMMA KeptGoes ==
    ASSUME NEW op, NEW e, IsView(e), NEW d, d = Kept(op, e), Proposed(op, e.key) # {}
    PROVE  d.key = e.key /\ (Deleted(d) <=> Deleted(e))
BY KeptIs

\* The places that an operation leaves alone, and those that it gives new content.
Stay(l, op, R) == {n \in RootLive(l, R) : ~InScope(op.scope, l[n].key)}
Redo(l, op) == {n \in ScopeLive(l, op.scope) : Proposed(op, l[n].key) # {}}

\* Of what the roots hold afterwards: what stays, what is redone and what is new.
DoneLive(l, op, R, g) ==
    LET f == FreshOf(l, op)
    IN  /\ \A n \in Stay(l, op, R) : n \in RootLive(g, R) /\ g[n] = l[n]
        /\ \A n \in Redo(l, op) : n \in RootLive(g, R) /\ g[n] = Kept(op, l[n])
        /\ \A j \in 1..Len(f) : Len(l) + j \in RootLive(g, R) /\ g[Len(l) + j] = NewView(f[j])
        /\ \A n \in RootLive(g, R) :
              n \in Stay(l, op, R) \/ n \in Redo(l, op) \/ \E j \in 1..Len(f) : n = Len(l) + j

\* What is alive under the roots after the operation.
LEMMA LiveDone ==
    ASSUME NEW l, IsSequence(l), \A n \in 1..Len(l) : IsView(l[n]), NEW op, Proposals(op),
           NEW R, op.scope.root \in R,
           \A n \in 1..Len(op.entries) : InScope(op.scope, op.entries[n].key),
           NEW g, g = ScopeDone(l, op)
    PROVE  DoneLive(l, op, R, g)
<1>1. PICK f : f = FreshOf(l, op)
  OBVIOUS
<1>2. PICK T : T = ScopeLive(l, op.scope)
  OBVIOUS
<1>3. DonePlaces(l, op, g)
  BY DoneAt
<1>4. /\ Len(l) \in Nat /\ Len(f) \in Nat /\ Len(g) = Len(l) + Len(f)
      /\ \A n \in 1..Len(l) : n \in 1..Len(g) /\ g[n] = IF n \in T THEN Kept(op, l[n]) ELSE l[n]
      /\ \A j \in 1..Len(f) : Len(l) + j \in 1..Len(g) /\ g[Len(l) + j] = NewView(f[j])
      /\ \A n \in 1..Len(g) : n \in 1..Len(l) \/ \E j \in 1..Len(f) : n = Len(l) + j
  BY <1>1, <1>2, <1>3 DEF DonePlaces
<1>5. \A n : n \in T <=> n \in RootLive(l, R) /\ InScope(op.scope, l[n].key)
  BY <1>2, ScopeInRoot
<1>6. \A n : n \in RootLive(l, R) => n \in 1..Len(l) /\ ~Deleted(l[n]) /\ l[n].key.root \in R
  BY DEF RootLive
<1>7. ASSUME NEW n \in Stay(l, op, R) PROVE n \in RootLive(g, R) /\ g[n] = l[n]
  <2>1. n \in RootLive(l, R) /\ n \notin T
    BY <1>5 DEF Stay
  <2>2. n \in 1..Len(l) /\ ~Deleted(l[n]) /\ l[n].key.root \in R
    BY <1>6, <2>1
  <2>3. n \in 1..Len(g) /\ g[n] = l[n]
    BY <1>4, <2>1, <2>2
  <2> QED BY <2>2, <2>3 DEF RootLive
<1>8. ASSUME NEW n \in Redo(l, op) PROVE n \in RootLive(g, R) /\ g[n] = Kept(op, l[n])
  <2>1. n \in T /\ Proposed(op, l[n].key) # {}
    BY <1>2 DEF Redo
  <2>2. n \in 1..Len(l) /\ ~Deleted(l[n]) /\ l[n].key.root \in R
    BY <1>5, <1>6, <2>1
  <2>3. n \in 1..Len(g) /\ g[n] = Kept(op, l[n])
    BY <1>4, <2>1, <2>2
  <2>4. IsView(l[n])
    BY <2>2
  <2>5. g[n].key = l[n].key /\ ~Deleted(g[n])
    <3>1. g[n].key = l[n].key /\ (Deleted(g[n]) <=> Deleted(l[n]))
      BY <2>1, <2>3, <2>4, KeptGoes
    <3> QED BY <2>2, <3>1
  <2> QED BY <2>2, <2>3, <2>5 DEF RootLive
<1>9. ASSUME NEW j \in 1..Len(f) PROVE Len(l) + j \in RootLive(g, R)
  <2>1. PICK k : k = Len(l) + j
    OBVIOUS
  <2>2. k \in 1..Len(g) /\ g[k] = NewView(f[j])
    BY <1>4, <2>1
  <2>3. g[k].key = f[j].key /\ ~Deleted(g[k])
    BY <2>2, NewViewIs
  <2>4. PICK p \in FreshPlaces(l, op) : f[j] = op.entries[p]
    BY <1>1, FreshOfIs
  <2>5. p \in 1..Len(op.entries)
    BY DEF FreshPlaces
  <2>6. InScope(op.scope, f[j].key)
    BY <2>4, <2>5
  <2>7. g[k].key.root \in R
    BY <2>3, <2>6 DEF InScope
  <2>8. k \in RootLive(g, R)
    BY <2>2, <2>3, <2>7 DEF RootLive
  <2> QED BY <2>1, <2>8
<1>10. ASSUME NEW n \in RootLive(g, R)
       PROVE  n \in Stay(l, op, R) \/ n \in Redo(l, op) \/ \E j \in 1..Len(f) : n = Len(l) + j
  <2>1. n \in 1..Len(g) /\ ~Deleted(g[n]) /\ g[n].key.root \in R
    BY DEF RootLive
  <2>2. CASE n \in 1..Len(l) /\ n \in T
    <3>1. g[n] = Kept(op, l[n]) /\ IsView(l[n])
      BY <1>4, <2>2
    <3>2. Proposed(op, l[n].key) # {}
      BY <2>1, <3>1, KeptIs
    <3> QED BY <1>2, <2>2, <3>2 DEF Redo
  <2>3. CASE n \in 1..Len(l) /\ n \notin T
    <3>1. g[n] = l[n]
      BY <1>4, <2>3
    <3>2. n \in RootLive(l, R)
      BY <2>1, <2>3, <3>1 DEF RootLive
    <3> QED BY <1>5, <2>3, <3>2 DEF Stay
  <2> QED BY <1>4, <2>1, <2>2, <2>3
<1> QED BY <1>1, <1>4, <1>7, <1>8, <1>9, <1>10 DEF DoneLive

\* Views stay views.
LEMMA DoneViews ==
    ASSUME NEW l, IsSequence(l), \A n \in 1..Len(l) : IsView(l[n]), NEW op, Proposals(op),
           NEW g, g = ScopeDone(l, op)
    PROVE  IsSequence(g) /\ \A n \in 1..Len(g) : IsView(g[n])
<1>1. PICK f : f = FreshOf(l, op)
  OBVIOUS
<1>2. PICK T : T = ScopeLive(l, op.scope)
  OBVIOUS
<1>3. DonePlaces(l, op, g)
  BY DoneAt
<1>4. /\ IsSequence(g)
      /\ \A n \in 1..Len(l) : n \in 1..Len(g) /\ g[n] = IF n \in T THEN Kept(op, l[n]) ELSE l[n]
      /\ \A j \in 1..Len(f) : Len(l) + j \in 1..Len(g) /\ g[Len(l) + j] = NewView(f[j])
      /\ \A n \in 1..Len(g) : n \in 1..Len(l) \/ \E j \in 1..Len(f) : n = Len(l) + j
  BY <1>1, <1>2, <1>3 DEF DonePlaces
<1>5. ASSUME NEW n \in 1..Len(g) PROVE IsView(g[n])
  <2>1. CASE n \in 1..Len(l)
    <3>1. IsView(l[n]) /\ (g[n] = Kept(op, l[n]) \/ g[n] = l[n])
      BY <1>4, <2>1
    <3> QED BY <3>1, KeptIs
  <2>2. CASE \E j \in 1..Len(f) : n = Len(l) + j
    <3>1. PICK j \in 1..Len(f) : n = Len(l) + j
      BY <2>2
    <3>2. g[n] = NewView(f[j])
      BY <1>4, <3>1
    <3> QED BY <3>2, NewViewIs
  <2> QED BY <1>4, <2>1, <2>2
<1> QED BY <1>4, <1>5

\* Whatever the list holds in the scope after an operation was proposed.
Proposal(op, d) ==
    \E p \in 1..Len(op.entries) : d.key = op.entries[p].key /\ InScope(op.scope, d.key)

LEMMA DoneFrom ==
    ASSUME NEW l, IsSequence(l), \A n \in 1..Len(l) : IsView(l[n]), NEW st, NEW op, OpFits(st, op),
           NEW R, op.scope.root \in R, WellFormed(l, R),
           NEW g, g = ScopeDone(l, op), NEW n \in RootLive(g, R)
    PROVE  /\ Trackable(g[n])
           /\ (n \in Stay(l, op, R) /\ g[n] = l[n]) \/ Proposal(op, g[n])
<1>1. PICK f : f = FreshOf(l, op)
  OBVIOUS
<1>2. /\ Proposals(op) /\ \A k \in 1..Len(op.entries) : EntryGood(op, op.entries[k])
  BY DEF OpFits
<1>3. DoneLive(l, op, R, g)
  <2>1. \A k \in 1..Len(op.entries) : InScope(op.scope, op.entries[k].key)
    BY <1>2 DEF EntryGood
  <2> QED BY <1>2, <2>1, LiveDone
<1>4. CASE n \in Stay(l, op, R)
  <2>1. g[n] = l[n] /\ n \in RootLive(l, R)
    BY <1>3, <1>4 DEF DoneLive, Stay
  <2> QED BY <1>4, <2>1 DEF WellFormed
<1>5. CASE n \in Redo(l, op)
  <2>1. g[n] = Kept(op, l[n]) /\ n \in ScopeLive(l, op.scope) /\ Proposed(op, l[n].key) # {}
    BY <1>3, <1>5 DEF DoneLive, Redo
  <2>2. n \in RootLive(l, R) /\ InScope(op.scope, l[n].key) /\ n \in 1..Len(l)
    BY <2>1, ScopeInRoot
  <2>3. PICK e, d : e = l[n] /\ d = g[n]
    OBVIOUS
  <2>4. IsView(e) /\ Trackable(e)
    BY <2>2, <2>3 DEF WellFormed
  <2>5. Redone(op, e, d)
    BY <1>2, <2>1, <2>3, <2>4, KeptRedone
  <2>6. PICK m \in 1..Len(op.entries) :
          /\ op.entries[m].key = e.key /\ d.value = op.entries[m].value
          /\ d.wire = WireOf(op, m, e.wire)
    BY <2>5 DEF Redone
  <2>7. d.key = e.key /\ d.flags = (e.flags \cup {"Dirty"}) \ {"BigEndian"}
    BY <2>5 DEF Redone
  <2>8. EntryGood(op, op.entries[m])
    BY <1>2
  <2>9. d.key.root = op.scope.root
    BY <2>2, <2>3, <2>7 DEF InScope
  <2>10. Canonical(d.key) /\ d.value \notin BadValues
    BY <2>6, <2>7, <2>8 DEF EntryGood
  <2>11. "Truncated" \notin d.flags
    BY <2>4, <2>7 DEF Trackable
  <2>12. (d.value = Void <=> d.wire = Form) /\ (d.wire = Form => d.key.root \in Customs)
    <3>1. CASE op.scope.root \in Customs
      BY <2>6, <2>8, <2>9, <3>1 DEF WireOf, EntryGood
    <3>2. CASE op.scope.root \notin Customs
      <4>1. d.wire = e.wire /\ e.wire # Form
        BY <2>4, <2>6, <2>7, <2>9, <3>2 DEF WireOf, Trackable
      <4>2. op.entries[m].wire # Form
        BY <2>8, <3>2 DEF EntryGood, Form
      <4> QED BY <2>6, <2>8, <4>1, <4>2 DEF EntryGood
    <3> QED BY <3>1, <3>2
  <2>13. Trackable(d)
    BY <2>10, <2>11, <2>12 DEF Trackable
  <2>14. Proposal(op, d)
    BY <2>2, <2>3, <2>6, <2>7 DEF Proposal
  <2> QED BY <2>3, <2>13, <2>14
<1>6. CASE \E j \in 1..Len(f) : n = Len(l) + j
  <2>1. PICK j \in 1..Len(f) : n = Len(l) + j
    BY <1>6
  <2>2. g[n] = NewView(f[j])
    BY <1>1, <1>3, <2>1 DEF DoneLive
  <2>3. PICK p \in FreshPlaces(l, op) : f[j] = op.entries[p]
    BY <1>1, <1>2, FreshOfIs
  <2>4. p \in 1..Len(op.entries)
    BY DEF FreshPlaces
  <2>5. PICK e, d : e = op.entries[p] /\ d = g[n]
    OBVIOUS
  <2>6. d.key = e.key /\ d.value = e.value /\ d.wire = e.wire /\ d.flags = {"Dirty"}
    BY <2>2, <2>3, <2>5, NewViewIs
  <2>7. EntryGood(op, e)
    BY <1>2, <2>4, <2>5
  <2>8. d.wire = Form => d.key.root \in Customs
    BY <2>6, <2>7 DEF EntryGood, InScope, Form
  <2>9. Trackable(d)
    BY <2>6, <2>7, <2>8 DEF Trackable, EntryGood
  <2>10. Proposal(op, d)
    BY <2>4, <2>5, <2>6, <2>7 DEF Proposal, EntryGood
  <2> QED BY <2>5, <2>9, <2>10
<1> QED BY <1>1, <1>3, <1>4, <1>5, <1>6 DEF DoneLive

\* Keys in the scope after an operation.
LEMMA DoneApart ==
    ASSUME NEW l, IsSequence(l), \A n \in 1..Len(l) : IsView(l[n]), NEW st, NEW op, OpFits(st, op),
           NEW R, op.scope.root \in R, WellFormed(l, R),
           NEW g, g = ScopeDone(l, op), NEW m \in RootLive(g, R), NEW n \in RootLive(g, R), m # n
    PROVE  g[m].key # g[n].key
<1>1. PICK f : f = FreshOf(l, op)
  OBVIOUS
<1>2. /\ Proposals(op) /\ (\A k \in 1..Len(op.entries) : InScope(op.scope, op.entries[k].key))
      /\ Apart(op.entries, 1..Len(op.entries))
  BY DEF OpFits, EntryGood, Apart, Fit
<1>3. DoneLive(l, op, R, g)
  BY <1>2, LiveDone
<1>4. /\ Len(f) \in Nat /\ Apart(f, 1..Len(f))
      /\ \A j \in 1..Len(f) : \E p \in FreshPlaces(l, op) : f[j] = op.entries[p]
  BY <1>1, <1>2, FreshOfIs
<1> DEFINE Old(k) == k \in RootLive(l, R) /\ g[k].key = l[k].key
           New(k, j) == j \in 1..Len(f) /\ k = Len(l) + j /\ g[k].key = f[j].key
<1>5. ASSUME NEW k \in RootLive(g, R) PROVE Old(k) \/ \E j : New(k, j)
  <2>1. CASE k \in Stay(l, op, R)
    BY <1>3, <2>1 DEF DoneLive, Stay
  <2>2. CASE k \in Redo(l, op)
    <3>1. g[k] = Kept(op, l[k]) /\ k \in ScopeLive(l, op.scope) /\ Proposed(op, l[k].key) # {}
      BY <1>3, <2>2 DEF DoneLive, Redo
    <3>2. k \in RootLive(l, R) /\ k \in 1..Len(l)
      BY <3>1, ScopeInRoot
    <3>3. IsView(l[k])
      BY <3>2
    <3>4. g[k].key = l[k].key
      BY <3>1, <3>3, KeptGoes
    <3> QED BY <3>2, <3>4
  <2>3. CASE \E j \in 1..Len(f) : k = Len(l) + j
    <3>1. PICK j \in 1..Len(f) : k = Len(l) + j
      BY <2>3
    <3>2. g[k] = NewView(f[j])
      BY <1>1, <1>3, <3>1 DEF DoneLive
    <3>3. g[k].key = f[j].key
      BY <3>2, NewViewIs
    <3> QED BY <3>1, <3>3
  <2> QED BY <1>1, <1>3, <2>1, <2>2, <2>3 DEF DoneLive
<1>6. ASSUME NEW j, NEW a, NEW b, Old(a), New(b, j) PROVE g[a].key # g[b].key
  <2>1. PICK p \in FreshPlaces(l, op) : f[j] = op.entries[p]
    BY <1>4, <1>6
  <2>2. p \in 1..Len(op.entries) /\ \A k \in ScopeLive(l, op.scope) : l[k].key # op.entries[p].key
    BY DEF FreshPlaces
  <2>3. InScope(op.scope, op.entries[p].key)
    BY <1>2, <2>2
  <2>4. CASE InScope(op.scope, l[a].key)
    <3>1. a \in ScopeLive(l, op.scope)
      BY <1>6, <2>4, ScopeInRoot
    <3> QED BY <1>6, <2>1, <2>2, <3>1
  <2>5. CASE ~InScope(op.scope, l[a].key)
    BY <1>6, <2>1, <2>3, <2>5
  <2> QED BY <2>4, <2>5
<1>7. ASSUME Old(m), Old(n) PROVE g[m].key # g[n].key
  BY <1>7 DEF WellFormed, Fit
<1>8. ASSUME NEW i, NEW j, New(m, i), New(n, j) PROVE g[m].key # g[n].key
  <2>1. i # j
    BY <1>8
  <2> QED BY <1>4, <1>8, <2>1 DEF Apart
<1> HIDE DEF Old, New
<1> QED BY <1>5, <1>6, <1>7, <1>8

\* One shape and every key once, again.
LEMMA DoneWell ==
    ASSUME NEW l, IsSequence(l), \A n \in 1..Len(l) : IsView(l[n]), NEW st, NEW op, OpFits(st, op),
           NEW R, op.scope.root \in R, WellFormed(l, R), StateIs(st, l, R),
           NEW g, g = ScopeDone(l, op)
    PROVE  WellFormed(g, R)
<1>1. \A n \in RootLive(g, R) :
          Trackable(g[n]) /\ ((n \in Stay(l, op, R) /\ g[n] = l[n]) \/ Proposal(op, g[n]))
  BY DoneFrom
<1>2. \A m, n \in RootLive(g, R) : m # n => g[m].key # g[n].key
  BY DoneApart
<1>3. ASSUME NEW m \in RootLive(g, R), NEW n \in RootLive(g, R), m # n,
             m \in Stay(l, op, R), g[m] = l[m], Proposal(op, g[n])
      PROVE  Fit(g[m].key, g[n].key)
  <2>1. PICK p \in 1..Len(op.entries) : g[n].key = op.entries[p].key
    BY <1>3 DEF Proposal
  <2>2. m \in RootLive(l, R) /\ ~InScope(op.scope, l[m].key)
    BY <1>3 DEF Stay
  <2>3. PICK i \in 1..Len(st) : l[m].key = st[i].key
    BY <2>2 DEF StateIs
  <2>4. Fit(st[i].key, op.entries[p].key)
    BY <2>2, <2>3 DEF OpFits
  <2> QED BY <1>3, <2>1, <2>3, <2>4
<1>4. ASSUME NEW m \in RootLive(g, R), NEW n \in RootLive(g, R), m # n,
             Proposal(op, g[m]), Proposal(op, g[n])
      PROVE  Fit(g[m].key, g[n].key)
  <2>1. PICK p \in 1..Len(op.entries) : g[m].key = op.entries[p].key
    BY <1>4 DEF Proposal
  <2>2. PICK r \in 1..Len(op.entries) : g[n].key = op.entries[r].key
    BY <1>4 DEF Proposal
  <2>3. p # r
    BY <1>2, <1>4, <2>1, <2>2
  <2>4. Fit(op.entries[p].key, op.entries[r].key)
    BY <2>3 DEF OpFits
  <2> QED BY <2>1, <2>2, <2>4
<1>5. ASSUME NEW m \in RootLive(g, R), NEW n \in RootLive(g, R), m # n,
             m \in Stay(l, op, R), g[m] = l[m], n \in Stay(l, op, R), g[n] = l[n]
      PROVE  Fit(g[m].key, g[n].key)
  BY <1>5 DEF Stay, WellFormed
<1>6. ASSUME NEW m \in RootLive(g, R), NEW n \in RootLive(g, R), m # n
      PROVE  Fit(g[m].key, g[n].key)
  <2>1. CASE m \in Stay(l, op, R) /\ g[m] = l[m] /\ Proposal(op, g[n])
    BY <1>3, <1>6, <2>1
  <2>2. CASE n \in Stay(l, op, R) /\ g[n] = l[n] /\ Proposal(op, g[m])
    <3>1. Fit(g[n].key, g[m].key)
      BY <1>3, <1>6, <2>2
    <3> QED BY <3>1, FitIs
  <2> QED BY <1>1, <1>4, <1>5, <1>6, <2>1, <2>2
<1> QED BY <1>1, <1>6 DEF WellFormed

Unknown(st, l, op) ==
    \A p \in FreshPlaces(l, op) : \A n \in 1..Len(st) : st[n].key # op.entries[p].key

\* What is new to the roots is new to the list that is kept of them.
LEMMA FreshSame ==
    ASSUME NEW l, NEW R, NEW c, StateIs(c.state, l, R), NEW op, op.scope.root \in R,
           \A n \in 1..Len(op.entries) : InScope(op.scope, op.entries[n].key)
    PROVE  Fresh(c, op) = FreshOf(l, op) /\ Unknown(c.state, l, op)
<1>1. PICK st : st = c.state
  OBVIOUS
<1>2. ASSUME NEW i \in 1..Len(op.entries)
      PROVE  (\A n \in 1..Len(st) : st[n].key # op.entries[i].key)
             <=> \A n \in ScopeLive(l, op.scope) : l[n].key # op.entries[i].key
  <2>1. ASSUME NEW k \in 1..Len(st), st[k].key = op.entries[i].key
        PROVE  \E n \in ScopeLive(l, op.scope) : l[n].key = op.entries[i].key
    <3>1. PICK n \in RootLive(l, R) : l[n].key = st[k].key
      BY <1>1 DEF StateIs
    <3>2. InScope(op.scope, l[n].key)
      BY <2>1, <3>1
    <3>3. n \in ScopeLive(l, op.scope)
      BY <3>2, ScopeInRoot
    <3> QED BY <2>1, <3>1, <3>3
  <2>2. ASSUME NEW n \in ScopeLive(l, op.scope), l[n].key = op.entries[i].key
        PROVE  \E k \in 1..Len(st) : st[k].key = op.entries[i].key
    <3>1. n \in RootLive(l, R)
      BY ScopeInRoot
    <3>2. PICK k \in 1..Len(st) : l[n].key = st[k].key
      BY <1>1, <3>1 DEF StateIs
    <3> QED BY <2>2, <3>2
  <2> QED BY <2>1, <2>2
<1>3. {i \in 1..Len(op.entries) : \A n \in 1..Len(c.state) : c.state[n].key # op.entries[i].key}
      = FreshPlaces(l, op)
  BY <1>1, <1>2 DEF FreshPlaces
<1>4. Unknown(st, l, op)
  BY <1>2 DEF Unknown, FreshPlaces
<1> QED BY <1>1, <1>3, <1>4 DEF Fresh, FreshOf

-----------------------------------------------------------------------------
(* compact_state() and what is added to it.                                 *)

\* The places in the list that the call keeps on.
KeptPlaces(st, op) ==
    {n \in 1..Len(st) : ~InScope(op.scope, st[n].key) \/ Proposed(op, st[n].key) # {}}
Carried(op, o) ==
    IF InScope(op.scope, o.key) THEN [key |-> o.key, wire |-> Replacement(op, o).wire] ELSE o

\* The list after an operation: what was kept, and then what is new.
AfterParts(st, op, f, t) ==
    \E q, km, fm :
        /\ PickedOf(st, KeptPlaces(st, op), q) /\ Apart(q, 1..Len(q))
        /\ IsSequence(km) /\ Len(km) = Len(q) /\ \A i \in 1..Len(q) : km[i] = Carried(op, q[i])
        /\ IsSequence(fm) /\ Len(fm) = Len(f)
        /\ \A j \in 1..Len(f) : fm[j] = [key |-> f[j].key, wire |-> f[j].wire]
        /\ Joined(km, fm, t)

\* The list that the call keeps, in its parts.
LEMMA StateAfterParts ==
    ASSUME NEW c, NEW op, IsSequence(c.state), Apart(c.state, 1..Len(c.state)),
           NEW f, f = Fresh(c, op), Len(f) \in Nat
    PROVE  AfterParts(c.state, op, f, StateAfter(c, op))
<1>1. PICK st, P : st = c.state /\ P = KeptPlaces(st, op)
  OBVIOUS
<1>2. PICK m \in Nat : m = Len(st)
  BY <1>1 DEF IsSequence
<1>3. Within(P, m) /\ Apart(st, P)
  BY <1>1, <1>2 DEF Within, KeptPlaces, Apart
<1>4. PICK q : q = Picked(st, P)
  OBVIOUS
<1>5. PickedOf(st, P, q) /\ Apart(q, 1..Len(q))
  BY <1>3, <1>4, PickedFrom, PickedApart
<1>6. PICK km : km = [n \in 1..Len(q) |-> Carried(op, q[n])]
  OBVIOUS
<1>7. Len(q) \in Nat
  BY <1>5 DEF PickedOf
<1>8. IsSequence(km) /\ Len(km) = Len(q) /\ \A i \in 1..Len(q) : km[i] = Carried(op, q[i])
  <2>1. km = [n \in 1..Len(q) |-> km[n]]
    BY <1>6
  <2>2. IsSequence(km) /\ Len(km) = Len(q)
    BY <1>7, <2>1, SequenceMade
  <2> QED BY <1>6, <2>2
<1>9. PICK fm : fm = [n \in 1..Len(f) |-> [key |-> f[n].key, wire |-> f[n].wire]]
  OBVIOUS
<1>10. /\ IsSequence(fm) /\ Len(fm) = Len(f)
       /\ \A j \in 1..Len(f) : fm[j] = [key |-> f[j].key, wire |-> f[j].wire]
  <2>1. fm = [n \in 1..Len(f) |-> fm[n]]
    BY <1>9
  <2>2. IsSequence(fm) /\ Len(fm) = Len(f)
    BY <2>1, SequenceMade
  <2> QED BY <1>9, <2>2
<1>11. PICK t : t = km \o fm
  OBVIOUS
<1>12. StateAfter(c, op) = t
  <2>1. q = Picked(c.state, {n \in 1..Len(c.state) :
                                    \/ ~InScope(op.scope, c.state[n].key)
                                    \/ Proposed(op, c.state[n].key) # {}})
    BY <1>1, <1>4 DEF KeptPlaces
  <2>2. km = [n \in 1..Len(q) |->
                 IF InScope(op.scope, q[n].key)
                 THEN [key |-> q[n].key, wire |-> Replacement(op, q[n]).wire] ELSE q[n]]
    BY <1>6 DEF Carried
  <2> QED BY <1>9, <1>11, <2>1, <2>2 DEF StateAfter
<1>13. Joined(km, fm, t)
  BY <1>8, <1>10, <1>11, JoinedIs
<1> QED BY <1>1, <1>5, <1>8, <1>10, <1>12, <1>13 DEF AfterParts

\* What is kept of one entry.
LEMMA CarriedIs ==
    ASSUME NEW op, NEW o, o = [key |-> o.key, wire |-> o.wire], NEW d, d = Carried(op, o)
    PROVE  /\ d = [key |-> d.key, wire |-> d.wire] /\ d.key = o.key
           /\ InScope(op.scope, o.key) => d.wire = Replacement(op, o).wire
           /\ ~InScope(op.scope, o.key) => d = o
<1>1. CASE InScope(op.scope, o.key)
  <2>1. d = [key |-> o.key, wire |-> Replacement(op, o).wire]
    BY <1>1 DEF Carried
  <2> QED BY <1>1, <2>1
<1>2. CASE ~InScope(op.scope, o.key)
  BY <1>2 DEF Carried
<1> QED BY <1>1, <1>2

\* A standard root keeps the wire type, a custom one takes the new one.
LEMMA ReplacementWire ==
    ASSUME NEW op, Proposals(op), NEW o, Proposed(op, o.key) # {}
    PROVE  Replacement(op, o).wire = WireOf(op, Min(Proposed(op, o.key)), o.wire)
<1>1. PICK r, m : r = Replacement(op, o) /\ m = Min(Proposed(op, o.key))
  OBVIOUS
<1>2. r.wire = WireOf(op, m, o.wire)
  BY <1>1, ReplacementIs
<1> QED BY <1>1, <1>2

\* The list that the call keeps follows the operation.
LEMMA StateDone ==
    ASSUME NEW l, IsSequence(l), \A n \in 1..Len(l) : IsView(l[n]), NEW c, NEW op,
           OpFits(c.state, op), NEW R, op.scope.root \in R, StateIs(c.state, l, R),
           NEW g, g = ScopeDone(l, op)
    PROVE  StateIs(StateAfter(c, op), g, R)
<1>1. PICK st, f : st = c.state /\ f = FreshOf(l, op)
  OBVIOUS
<1>2. /\ Proposals(op) /\ (\A k \in 1..Len(op.entries) : InScope(op.scope, op.entries[k].key))
      /\ Apart(op.entries, 1..Len(op.entries))
  BY DEF OpFits, EntryGood, Apart, Fit
<1>3. /\ f = Fresh(c, op)
      /\ \A p \in FreshPlaces(l, op) : \A n \in 1..Len(st) : st[n].key # op.entries[p].key
  <2>1. Fresh(c, op) = FreshOf(l, op) /\ Unknown(c.state, l, op)
    BY <1>2, FreshSame
  <2> QED BY <1>1, <2>1 DEF Unknown
<1>4. /\ Len(f) \in Nat /\ Apart(f, 1..Len(f))
      /\ \A j \in 1..Len(f) : \E p \in FreshPlaces(l, op) : f[j] = op.entries[p]
  BY <1>1, <1>2, FreshOfIs
<1>5. DoneLive(l, op, R, g)
  BY <1>2, LiveDone
<1>6. /\ IsSequence(st) /\ Apart(st, 1..Len(st))
      /\ (\A i \in 1..Len(st) : st[i] = [key |-> st[i].key, wire |-> st[i].wire])
      /\ (\A i \in 1..Len(st) :
             \E n \in RootLive(l, R) : l[n].key = st[i].key /\ l[n].wire = st[i].wire)
      /\ \A n \in RootLive(l, R) : \E i \in 1..Len(st) : l[n].key = st[i].key
  BY <1>1 DEF StateIs
<1>7. PICK t : t = StateAfter(c, op)
  OBVIOUS
<1>8. AfterParts(st, op, f, t)
  BY <1>1, <1>3, <1>4, <1>6, <1>7, StateAfterParts
<1>9. PICK q, km, fm :
        /\ PickedOf(st, KeptPlaces(st, op), q) /\ Apart(q, 1..Len(q))
        /\ IsSequence(km) /\ Len(km) = Len(q) /\ \A i \in 1..Len(q) : km[i] = Carried(op, q[i])
        /\ IsSequence(fm) /\ Len(fm) = Len(f)
        /\ \A j \in 1..Len(f) : fm[j] = [key |-> f[j].key, wire |-> f[j].wire]
        /\ Joined(km, fm, t)
  BY <1>8 DEF AfterParts
<1>10. PICK x \in Nat, y \in Nat : x = Len(q) /\ y = Len(f)
  BY <1>4, <1>9 DEF PickedOf
<1>11. /\ IsSequence(t) /\ Len(t) = x + y
       /\ (\A n \in 1..x : n \in 1..Len(t) /\ t[n] = Carried(op, q[n]))
       /\ (\A j \in 1..y : x + j \in 1..Len(t) /\ t[x + j] = [key |-> f[j].key, wire |-> f[j].wire])
       /\ \A n \in 1..Len(t) : n \in 1..x \/ \E j \in 1..y : n = x + j
  BY <1>9, <1>10 DEF Joined
<1>12. /\ \A i \in 1..x : \E k \in KeptPlaces(st, op) : q[i] = st[k]
       /\ \A k \in KeptPlaces(st, op) : \E i \in 1..x : q[i] = st[k]
  BY <1>9, <1>10 DEF PickedOf
<1>13. ASSUME NEW i \in 1..x
       PROVE  /\ q[i] = [key |-> q[i].key, wire |-> q[i].wire]
              /\ t[i] = [key |-> t[i].key, wire |-> t[i].wire] /\ t[i].key = q[i].key
              /\ InScope(op.scope, q[i].key) => t[i].wire = Replacement(op, q[i]).wire
              /\ ~InScope(op.scope, q[i].key) => t[i] = q[i]
  <2>1. PICK k \in KeptPlaces(st, op) : q[i] = st[k]
    BY <1>12
  <2>2. k \in 1..Len(st)
    BY DEF KeptPlaces
  <2>3. PICK o, d : o = q[i] /\ d = t[i]
    OBVIOUS
  <2>4. o = [key |-> o.key, wire |-> o.wire] /\ d = Carried(op, o)
    BY <1>6, <1>11, <2>1, <2>2, <2>3
  <2> QED BY <2>3, <2>4, CarriedIs
<1>14. ASSUME NEW j \in 1..y
       PROVE  /\ t[x + j] = [key |-> t[x + j].key, wire |-> t[x + j].wire]
              /\ t[x + j].key = f[j].key /\ t[x + j].wire = f[j].wire
              /\ x + j \in 1..Len(t)
  <2>1. PICK d : d = t[x + j]
    OBVIOUS
  <2>2. d = [key |-> f[j].key, wire |-> f[j].wire] /\ x + j \in 1..Len(t)
    BY <1>11, <2>1
  <2>3. d.key = f[j].key /\ d.wire = f[j].wire
    BY <2>2
  <2> QED BY <2>1, <2>2, <2>3
<1>15. ASSUME NEW i \in 1..Len(t) PROVE t[i] = [key |-> t[i].key, wire |-> t[i].wire]
  <2>1. CASE i \in 1..x
    BY <1>13, <2>1
  <2>2. CASE \E j \in 1..y : i = x + j
    <3>1. PICK j \in 1..y : i = x + j
      BY <2>2
    <3>2. t[x + j] = [key |-> t[x + j].key, wire |-> t[x + j].wire]
      BY <1>14
    <3> QED BY <3>1, <3>2
  <2> QED BY <1>11, <2>1, <2>2
<1>16. ASSUME NEW i \in 1..x, NEW j \in 1..y PROVE t[i].key # t[x + j].key
  <2>1. PICK k \in KeptPlaces(st, op) : q[i] = st[k]
    BY <1>12
  <2>2. k \in 1..Len(st)
    BY DEF KeptPlaces
  <2>3. PICK p \in FreshPlaces(l, op) : f[j] = op.entries[p]
    BY <1>4, <1>10
  <2>4. st[k].key # op.entries[p].key
    BY <1>3, <2>2
  <2> QED BY <1>13, <1>14, <2>1, <2>3, <2>4
<1>17. Apart(t, 1..Len(t))
  <2>1. ASSUME NEW a \in 1..Len(t), NEW b \in 1..Len(t), a # b PROVE t[a].key # t[b].key
    <3>1. CASE a \in 1..x /\ b \in 1..x
      <4>1. q[a].key # q[b].key
        BY <1>9, <1>10, <2>1, <3>1 DEF Apart
      <4>2. t[a].key = q[a].key /\ t[b].key = q[b].key
        BY <1>13, <3>1
      <4> QED BY <4>1, <4>2
    <3>2. CASE a \in 1..x /\ \E j \in 1..y : b = x + j
      BY <1>16, <3>2
    <3>3. CASE b \in 1..x /\ \E j \in 1..y : a = x + j
      BY <1>16, <3>3
    <3>4. CASE (\E j \in 1..y : a = x + j) /\ \E j \in 1..y : b = x + j
      <4>1. PICK i \in 1..y, j \in 1..y : a = x + i /\ b = x + j
        BY <3>4
      <4>2. i # j
        BY <2>1, <4>1
      <4>3. f[i].key # f[j].key
        BY <1>4, <1>10, <4>2 DEF Apart
      <4> QED BY <1>14, <4>1, <4>3
    <3> QED BY <1>11, <3>1, <3>2, <3>3, <3>4
  <2> QED BY <2>1 DEF Apart
<1>18. ASSUME NEW i \in 1..Len(t)
       PROVE  \E n \in RootLive(g, R) : g[n].key = t[i].key /\ g[n].wire = t[i].wire
  <2>1. CASE i \in 1..x
    <3>1. PICK k \in KeptPlaces(st, op) : q[i] = st[k]
      BY <1>12, <2>1
    <3>2. k \in 1..Len(st) /\ (~InScope(op.scope, st[k].key) \/ Proposed(op, st[k].key) # {})
      BY DEF KeptPlaces
    <3>3. PICK n \in RootLive(l, R) : l[n].key = st[k].key /\ l[n].wire = st[k].wire
      BY <1>6, <3>2
    <3>4. CASE ~InScope(op.scope, st[k].key)
      <4>1. n \in Stay(l, op, R)
        BY <3>3, <3>4 DEF Stay
      <4>2. n \in RootLive(g, R) /\ g[n] = l[n]
        BY <1>5, <4>1 DEF DoneLive
      <4>3. t[i] = q[i]
        BY <1>13, <2>1, <3>1, <3>4
      <4> QED BY <3>1, <3>3, <4>2, <4>3
    <3>5. CASE InScope(op.scope, st[k].key)
      <4>1. n \in ScopeLive(l, op.scope) /\ n \in 1..Len(l)
        BY <3>3, <3>5, ScopeInRoot
      <4>2. n \in Redo(l, op)
        BY <3>2, <3>3, <3>5, <4>1 DEF Redo
      <4>3. PICK e, d : e = l[n] /\ d = g[n]
        OBVIOUS
      <4>4. n \in RootLive(g, R) /\ d = Kept(op, e)
        BY <1>5, <4>2, <4>3 DEF DoneLive
      <4>5. IsView(e) /\ Proposed(op, e.key) # {}
        BY <3>2, <3>3, <3>5, <4>1, <4>3
      <4>6. Redone(op, e, d)
        BY <1>2, <4>4, <4>5, KeptRedone
      <4>7. PICK m : m = Min(Proposed(op, e.key))
        OBVIOUS
      <4>8. d.key = e.key /\ d.wire = WireOf(op, m, e.wire)
        BY <4>6, <4>7 DEF Redone
      <4>9. PICK o : o = q[i]
        OBVIOUS
      <4>10. o.key = e.key /\ o.wire = e.wire
        BY <3>1, <3>3, <4>3, <4>9
      <4>11. PICK r : r = Replacement(op, o)
        OBVIOUS
      <4>12. r.wire = WireOf(op, m, o.wire)
        <5>1. Proposals(op)
          BY <1>2
        <5>2. Proposed(op, o.key) # {}
          BY <4>5, <4>10
        <5>3. m = Min(Proposed(op, o.key))
          BY <4>7, <4>10
        <5>4. Replacement(op, o).wire = WireOf(op, Min(Proposed(op, o.key)), o.wire)
          BY <5>1, <5>2, ReplacementWire
        <5> QED BY <4>11, <5>3, <5>4
      <4>13. t[i].key = o.key /\ t[i].wire = r.wire
        BY <1>13, <2>1, <3>1, <3>5, <4>9, <4>11
      <4> QED BY <4>3, <4>4, <4>8, <4>10, <4>12, <4>13
    <3> QED BY <3>4, <3>5
  <2>2. CASE \E j \in 1..y : i = x + j
    <3>1. PICK j \in 1..y : i = x + j
      BY <2>2
    <3>2. Len(l) + j \in RootLive(g, R) /\ g[Len(l) + j] = NewView(f[j])
      BY <1>1, <1>5, <1>10 DEF DoneLive
    <3>3. t[i].key = f[j].key /\ t[i].wire = f[j].wire
      BY <1>14, <3>1
    <3>4. PICK k : k = Len(l) + j
      OBVIOUS
    <3>5. g[k].key = f[j].key /\ g[k].wire = f[j].wire
      BY <3>2, <3>4, NewViewIs
    <3> QED BY <3>2, <3>3, <3>4, <3>5
  <2> QED BY <1>11, <2>1, <2>2
<1>19. ASSUME NEW n \in RootLive(g, R) PROVE \E i \in 1..Len(t) : g[n].key = t[i].key
  <2>1. ASSUME NEW k \in KeptPlaces(st, op), g[n].key = st[k].key
        PROVE  \E i \in 1..Len(t) : g[n].key = t[i].key
    <3>1. PICK i \in 1..x : q[i] = st[k]
      BY <1>12
    <3>2. t[i].key = q[i].key /\ i \in 1..Len(t)
      BY <1>11, <1>13
    <3> QED BY <2>1, <3>1, <3>2
  <2>2. CASE n \in Stay(l, op, R)
    <3>1. n \in RootLive(l, R) /\ ~InScope(op.scope, l[n].key) /\ g[n] = l[n]
      BY <1>5, <2>2 DEF Stay, DoneLive
    <3>2. PICK k \in 1..Len(st) : l[n].key = st[k].key
      BY <1>6, <3>1
    <3>3. k \in KeptPlaces(st, op)
      BY <3>1, <3>2 DEF KeptPlaces
    <3> QED BY <2>1, <3>1, <3>2, <3>3
  <2>3. CASE n \in Redo(l, op)
    <3>1. n \in ScopeLive(l, op.scope) /\ Proposed(op, l[n].key) # {} /\ g[n] = Kept(op, l[n])
      BY <1>5, <2>3 DEF Redo, DoneLive
    <3>2. n \in RootLive(l, R) /\ n \in 1..Len(l)
      BY <3>1, ScopeInRoot
    <3>3. PICK k \in 1..Len(st) : l[n].key = st[k].key
      BY <1>6, <3>2
    <3>4. k \in KeptPlaces(st, op)
      BY <3>1, <3>3 DEF KeptPlaces
    <3>5. IsView(l[n])
      BY <3>2
    <3>6. g[n].key = l[n].key
      BY <3>1, <3>5, KeptGoes
    <3> QED BY <2>1, <3>3, <3>4, <3>6
  <2>4. CASE \E j \in 1..Len(f) : n = Len(l) + j
    <3>1. PICK j \in 1..y : n = Len(l) + j
      BY <1>10, <2>4
    <3>2. g[n] = NewView(f[j])
      BY <1>1, <1>5, <1>10, <3>1 DEF DoneLive
    <3>3. g[n].key = f[j].key
      BY <3>2, NewViewIs
    <3>4. t[x + j].key = f[j].key /\ x + j \in 1..Len(t)
      BY <1>14
    <3> QED BY <3>3, <3>4
  <2> QED BY <1>1, <1>5, <2>2, <2>3, <2>4 DEF DoneLive
<1> QED BY <1>7, <1>11, <1>15, <1>17, <1>18, <1>19 DEF StateIs

-----------------------------------------------------------------------------
(* The operations by exact key that stand for one operation by scope.       *)

\* The call touches what the scope holds.
LEMMA TouchedIs ==
    ASSUME NEW l, NEW c, NEW op, NEW R, op.scope.root \in R, StateIs(c.state, l, R),
           WellFormed(l, R), NEW old, old = Touched(c, op)
    PROVE  /\ Touches(old, l, ScopeLive(l, op.scope))
           /\ \A i \in 1..Len(old) : \E k \in 1..Len(c.state) :
                 old[i] = c.state[k] /\ InScope(op.scope, c.state[k].key)
<1>1. PICK st, P : st = c.state /\ P = {n \in 1..Len(st) : InScope(op.scope, st[n].key)}
  OBVIOUS
<1>2. /\ IsSequence(st) /\ Apart(st, 1..Len(st))
      /\ (\A i \in 1..Len(st) :
             \E n \in RootLive(l, R) : l[n].key = st[i].key /\ l[n].wire = st[i].wire)
      /\ \A n \in RootLive(l, R) : \E i \in 1..Len(st) : l[n].key = st[i].key
  BY <1>1 DEF StateIs
<1>3. PICK m \in Nat : m = Len(st)
  BY <1>2 DEF IsSequence
<1>4. Within(P, m) /\ Apart(st, P)
  BY <1>1, <1>2, <1>3 DEF Within, Apart
<1>5. old = Picked(st, P)
  BY <1>1 DEF Touched
<1>6. PickedOf(st, P, old) /\ Apart(old, 1..Len(old))
  BY <1>4, <1>5, PickedFrom, PickedApart
<1>7. /\ IsSequence(old) /\ (\A i \in 1..Len(old) : \E k \in P : old[i] = st[k])
      /\ \A k \in P : \E i \in 1..Len(old) : old[i] = st[k]
  BY <1>6 DEF PickedOf
<1>8. ASSUME NEW i \in 1..Len(old)
      PROVE  \E n \in ScopeLive(l, op.scope) :
                KeyLive(l, old[i].key) = {n} /\ l[n].wire = old[i].wire
  <2>1. PICK k \in P : old[i] = st[k]
    BY <1>7
  <2>2. k \in 1..Len(st) /\ InScope(op.scope, st[k].key)
    BY <1>1
  <2>3. PICK n \in RootLive(l, R) : l[n].key = st[k].key /\ l[n].wire = st[k].wire
    BY <1>2, <2>2
  <2>4. KeyLive(l, l[n].key) = {n}
    BY RootOnly
  <2>5. n \in ScopeLive(l, op.scope)
    BY <2>2, <2>3, ScopeInRoot
  <2> QED BY <2>1, <2>3, <2>4, <2>5
<1>9. ASSUME NEW n \in ScopeLive(l, op.scope)
      PROVE  \E i \in 1..Len(old) : l[n].key = old[i].key
  <2>1. n \in RootLive(l, R) /\ InScope(op.scope, l[n].key)
    BY ScopeInRoot
  <2>2. PICK k \in 1..Len(st) : l[n].key = st[k].key
    BY <1>2, <2>1
  <2>3. k \in P
    BY <1>1, <2>1, <2>2
  <2> QED BY <1>7, <2>2, <2>3
<1>10. ASSUME NEW i \in 1..Len(old)
       PROVE  \E k \in 1..Len(st) : old[i] = st[k] /\ InScope(op.scope, st[k].key)
  BY <1>1, <1>7
<1> QED BY <1>1, <1>6, <1>7, <1>8, <1>9, <1>10 DEF Touches, Apart

\* Nothing under the keys that are new.
LEMMA FreshNowhere ==
    ASSUME NEW l, IsSequence(l), \A n \in 1..Len(l) : IsView(l[n]), NEW op,
           NEW p \in FreshPlaces(l, op), InScope(op.scope, op.entries[p].key),
           NEW g, g = KeptList(l, op, ScopeLive(l, op.scope))
    PROVE  KeyLive(g, op.entries[p].key) = {}
<1>1. PICK T, key : T = ScopeLive(l, op.scope) /\ key = op.entries[p].key
  OBVIOUS
<1>2. /\ Len(g) = Len(l)
      /\ \A n \in 1..Len(l) : g[n] = IF n \in T THEN Kept(op, l[n]) ELSE l[n]
  BY <1>1, KeptListIs
<1>3. ASSUME NEW n \in KeyLive(g, key) PROVE FALSE
  <2>1. n \in 1..Len(g) /\ ~Deleted(g[n]) /\ g[n].key = key
    BY KeyLiveIn
  <2>2. n \in 1..Len(l) /\ IsView(l[n])
    BY <1>2, <2>1
  <2>3. CASE n \in T
    <3>1. g[n] = Kept(op, l[n])
      BY <1>2, <2>2, <2>3
    <3>2. g[n].key = l[n].key
      BY <2>2, <3>1, KeptIs
    <3>3. l[n].key # key
      BY <1>1, <2>3 DEF FreshPlaces
    <3> QED BY <2>1, <3>2, <3>3
  <2>4. CASE n \notin T
    <3>1. g[n] = l[n]
      BY <1>2, <2>2, <2>4
    <3>2. InScope(op.scope, l[n].key) /\ ~Deleted(l[n])
      BY <1>1, <2>1, <3>1
    <3>3. n \in T
      BY <1>1, <2>2, <3>2 DEF ScopeLive, LivePlaces, ScopeAt
    <3> QED BY <2>4, <3>3
  <2> QED BY <2>3, <2>4
<1> QED BY <1>1, <1>3

ExpansionParts(op, old, f, x) ==
    \E a, b : /\ a = [n \in 1..Len(old) |-> Change(op, old[n])] /\ b = Additions(f)
              /\ IsSequence(a) /\ Len(a) = Len(old)
              /\ (\A i \in 1..Len(old) : a[i] = Change(op, old[i]))
              /\ IsSequence(b) /\ Len(b) = Len(f)
              /\ (\A j \in 1..Len(f) : b[j] = Exact("Add", f[j]))
              /\ x = a \o b

\* The operations by exact key, in their parts.
LEMMA ExpansionIs ==
    ASSUME NEW c, NEW op, NEW old, old = Touched(c, op), Len(old) \in Nat,
           NEW f, f = Fresh(c, op), Len(f) \in Nat, NEW x, x = Expansion(c, op)
    PROVE  ExpansionParts(op, old, f, x)
<1>1. PICK a, b : a = [n \in 1..Len(old) |-> Change(op, old[n])] /\ b = Additions(f)
  OBVIOUS
<1>2. IsSequence(a) /\ Len(a) = Len(old) /\ \A i \in 1..Len(old) : a[i] = Change(op, old[i])
  <2>1. a = [n \in 1..Len(old) |-> a[n]]
    BY <1>1
  <2>2. IsSequence(a) /\ Len(a) = Len(old)
    BY <2>1, SequenceMade
  <2> QED BY <1>1, <2>2
<1>3. IsSequence(b) /\ Len(b) = Len(f) /\ \A j \in 1..Len(f) : b[j] = Exact("Add", f[j])
  <2>1. b = [n \in 1..Len(f) |-> Exact("Add", f[n])]
    BY <1>1 DEF Additions
  <2>2. b = [n \in 1..Len(f) |-> b[n]]
    BY <2>1
  <2>3. IsSequence(b) /\ Len(b) = Len(f)
    BY <2>2, SequenceMade
  <2> QED BY <2>1, <2>3
<1>4. x = a \o b
  BY <1>1 DEF Expansion, Change
<1> QED BY <1>1, <1>2, <1>3, <1>4 DEF ExpansionParts

\* The operations lead to the list that was promised.
LEMMA ExpansionLeads ==
    ASSUME NEW l, IsSequence(l), \A n \in 1..Len(l) : IsView(l[n]), NEW c, NEW op,
           OpFits(c.state, op), NEW R, op.scope.root \in R, StateIs(c.state, l, R),
           WellFormed(l, R), NEW x, x = Expansion(c, op)
    PROVE  IsSequence(x) /\ Leads(x, l, ScopeDone(l, op))
<1>1. PICK st, f, old, live :
        st = c.state /\ f = FreshOf(l, op) /\ old = Touched(c, op) /\ live = ScopeLive(l, op.scope)
  OBVIOUS
<1>2. /\ Proposals(op) /\ (\A k \in 1..Len(op.entries) : InScope(op.scope, op.entries[k].key))
      /\ Apart(op.entries, 1..Len(op.entries))
  BY DEF OpFits, EntryGood, Apart, Fit
<1>3. f = Fresh(c, op)
  BY <1>1, <1>2, FreshSame
<1>4. /\ IsSequence(f) /\ Len(f) \in Nat /\ Apart(f, 1..Len(f))
      /\ \A j \in 1..Len(f) : \E p \in FreshPlaces(l, op) : f[j] = op.entries[p]
  BY <1>1, <1>2, FreshOfIs
<1>5. /\ Touches(old, l, live)
      /\ \A i \in 1..Len(old) : \E k \in 1..Len(st) :
            old[i] = st[k] /\ InScope(op.scope, st[k].key)
  BY <1>1, TouchedIs
<1>6. Len(old) \in Nat
  BY <1>5 DEF Touches, IsSequence
<1>7. PICK a, b : /\ a = [n \in 1..Len(old) |-> Change(op, old[n])] /\ b = Additions(f)
                  /\ IsSequence(a) /\ IsSequence(b) /\ x = a \o b
  <2>1. ExpansionParts(op, old, f, x)
    BY <1>1, <1>3, <1>4, <1>6, ExpansionIs
  <2> QED BY <2>1 DEF ExpansionParts
<1>8. ASSUME NEW i \in 1..Len(old), Proposed(op, old[i].key) # {} PROVE op.kind = "Replace"
  <2>1. Len(op.entries) # 0
    BY <1>8 DEF Proposed
  <2>2. \E k \in 1..Len(st) : InScope(op.scope, st[k].key)
    BY <1>5
  <2> QED BY <1>1, <2>1, <2>2 DEF OpFits
<1>9. PICK g : g = KeptList(l, op, live)
  OBVIOUS
<1>10. \A n \in live : n \in 1..Len(l) /\ ~Deleted(l[n])
  BY <1>1, ScopeInRoot
<1>11. Leads(a, l, g)
  BY <1>2, <1>5, <1>7, <1>8, <1>9, <1>10, KeptRun
<1>12. IsSequence(g)
  BY <1>9, KeptListIs
<1>13. \A i \in 1..Len(f) : KeyLive(g, f[i].key) = {}
  <2>1. ASSUME NEW i \in 1..Len(f) PROVE KeyLive(g, f[i].key) = {}
    <3>1. PICK p \in FreshPlaces(l, op) : f[i] = op.entries[p]
      BY <1>4
    <3>2. InScope(op.scope, op.entries[p].key)
      BY <1>2 DEF FreshPlaces
    <3>3. KeyLive(g, op.entries[p].key) = {}
      BY <1>1, <1>9, <3>2, FreshNowhere
    <3> QED BY <3>1, <3>3
  <2> QED BY <2>1
<1>14. \A i, j \in 1..Len(f) : i # j => f[i].key # f[j].key
  BY <1>4 DEF Apart
<1>15. Leads(b, g, g \o FirstViews(f, Len(f)))
  BY <1>4, <1>7, <1>12, <1>13, <1>14, FreshRun
<1>16. ScopeDone(l, op) = g \o FirstViews(f, Len(f))
  BY <1>1, <1>9 DEF ScopeDone, FreshOf
<1>17. Leads(x, l, ScopeDone(l, op))
  BY <1>7, <1>11, <1>15, <1>16, LeadsJoin
<1>18. IsSequence(x)
  BY <1>7, JoinedIs DEF Joined
<1> QED BY <1>17, <1>18

\* Each of them is one that edit_metadata_typed() takes, about an entry of the scope.
Expanded(op, x) == KeyOp(x) /\ ~InvalidOp(x) /\ InScope(op.scope, x.key)

\* One of them.
LEMMA ExactIs ==
    ASSUME NEW kind, NEW e, NEW x, x = Exact(kind, e)
    PROVE  /\ x.kind = kind /\ x.key = e.key /\ x.value = e.value /\ x.wire = e.wire
           /\ x.occurrence = Unique
BY DEF Exact

LEMMA ReplacementMade ==
    ASSUME NEW op, Proposals(op), NEW o, Proposed(op, o.key) # {}
    PROVE  /\ Replacement(op, o).key = o.key
           /\ Replacement(op, o).value = op.entries[Min(Proposed(op, o.key))].value
           /\ Replacement(op, o).wire = WireOf(op, Min(Proposed(op, o.key)), o.wire)
<1>1. PICK r, m : r = Replacement(op, o) /\ m = Min(Proposed(op, o.key))
  OBVIOUS
<1>2. r.key = o.key /\ r.value = op.entries[m].value /\ r.wire = WireOf(op, m, o.wire)
  BY <1>1, ReplacementIs
<1> QED BY <1>1, <1>2

LEMMA ExpansionFits ==
    ASSUME NEW l, IsSequence(l), \A n \in 1..Len(l) : IsView(l[n]), NEW c, NEW op,
           OpFits(c.state, op), NEW R, op.scope.root \in R, StateIs(c.state, l, R),
           WellFormed(l, R), NEW x, x = Expansion(c, op)
    PROVE  IsSequence(x) /\ \A i \in 1..Len(x) : Expanded(op, x[i])
<1>1. PICK st, f, old :
        st = c.state /\ f = FreshOf(l, op) /\ old = Touched(c, op)
  OBVIOUS
<1>2. /\ Proposals(op) /\ (\A k \in 1..Len(op.entries) : EntryGood(op, op.entries[k]))
      /\ (\A k \in 1..Len(op.entries) : InScope(op.scope, op.entries[k].key))
  BY DEF OpFits, EntryGood
<1>3. f = Fresh(c, op)
  BY <1>1, <1>2, FreshSame
<1>4. /\ IsSequence(f) /\ Len(f) \in Nat
      /\ \A j \in 1..Len(f) : \E p \in FreshPlaces(l, op) : f[j] = op.entries[p]
  BY <1>1, <1>2, FreshOfIs
<1>5. /\ Touches(old, l, ScopeLive(l, op.scope))
      /\ \A i \in 1..Len(old) : \E k \in 1..Len(st) :
            old[i] = st[k] /\ InScope(op.scope, st[k].key)
  BY <1>1, TouchedIs
<1>6. Len(old) \in Nat
  BY <1>5 DEF Touches, IsSequence
<1>7. PICK a, b : /\ IsSequence(a) /\ Len(a) = Len(old)
                  /\ (\A i \in 1..Len(old) : a[i] = Change(op, old[i]))
                  /\ IsSequence(b) /\ Len(b) = Len(f)
                  /\ (\A j \in 1..Len(f) : b[j] = Exact("Add", f[j]))
                  /\ x = a \o b
  <2>1. ExpansionParts(op, old, f, x)
    BY <1>1, <1>3, <1>4, <1>6, ExpansionIs
  <2> QED BY <2>1 DEF ExpansionParts
<1>8. Joined(a, b, x)
  BY <1>7, JoinedIs
<1>9. Unique \in Nat
  BY EditingAssumption
<1>10. ASSUME NEW i \in 1..Len(old), NEW y, y = Change(op, old[i]) PROVE Expanded(op, y)
  <2>1. PICK k \in 1..Len(st) : old[i] = st[k] /\ InScope(op.scope, st[k].key)
    BY <1>5
  <2>2. PICK o : o = old[i]
    OBVIOUS
  <2>3. CASE op.kind = "Replace" /\ Proposed(op, o.key) # {}
    <3>1. PICK r, m : r = Replacement(op, o) /\ m = Min(Proposed(op, o.key))
      OBVIOUS
    <3>2. r.key = o.key /\ r.value = op.entries[m].value /\ r.wire = WireOf(op, m, o.wire)
      BY <1>2, <2>3, <3>1, ReplacementMade
    <3>3. m \in 1..Len(op.entries)
      BY <1>2, <2>3, <3>1, ProposedFirst
    <3>4. EntryGood(op, op.entries[m])
      BY <1>2, <3>3
    <3>5. y = Exact("Set", r)
      BY <1>10, <2>2, <2>3, <3>1 DEF Change
    <3>6. /\ y.kind = "Set" /\ y.key = o.key /\ y.value = op.entries[m].value
          /\ y.wire = WireOf(op, m, o.wire) /\ y.occurrence = Unique
      BY <3>2, <3>5, ExactIs
    <3>7. y.wire = Form => y.value = Void
      <4>1. CASE op.scope.root \in Customs
        BY <3>4, <3>6, <4>1 DEF WireOf, EntryGood
      <4>2. CASE op.scope.root \notin Customs
        <5>1. PICK n \in RootLive(l, R) : l[n].key = st[k].key /\ l[n].wire = st[k].wire
          BY <1>1 DEF StateIs
        <5>2. Trackable(l[n])
          BY DEF WellFormed
        <5>3. o.wire # Form
          BY <2>1, <2>2, <4>2, <5>1, <5>2 DEF Trackable, InScope
        <5> QED BY <3>6, <4>2, <5>3 DEF WireOf
      <4> QED BY <4>1, <4>2
    <3>8. ~InvalidOp(y)
      BY <3>4, <3>6, <3>7 DEF InvalidOp, EntryGood
    <3> QED BY <1>9, <2>1, <2>2, <3>6, <3>8 DEF Expanded, KeyOp
  <2>4. CASE ~(op.kind = "Replace" /\ Proposed(op, o.key) # {})
    <3>1. y = Removal(o.key)
      BY <1>10, <2>2, <2>4 DEF Change
    <3>2. y.kind = "Remove" /\ y.key = o.key /\ y.occurrence = Unique
      BY <3>1 DEF Removal, Exact
    <3> QED BY <1>9, <2>1, <2>2, <3>2 DEF Expanded, KeyOp, InvalidOp
  <2> QED BY <2>3, <2>4
<1>11. ASSUME NEW j \in 1..Len(f), NEW y, y = Exact("Add", f[j]) PROVE Expanded(op, y)
  <2>1. PICK p \in FreshPlaces(l, op) : f[j] = op.entries[p]
    BY <1>4
  <2>2. PICK e : e = op.entries[p]
    OBVIOUS
  <2>3. p \in 1..Len(op.entries)
    BY DEF FreshPlaces
  <2>4. EntryGood(op, e) /\ IsProposal(e)
    BY <1>2, <2>2, <2>3 DEF Proposals
  <2>5. /\ y.kind = "Add" /\ y.key = e.key /\ y.value = e.value /\ y.wire = e.wire
        /\ y.occurrence = Unique
    BY <1>11, <2>1, <2>2, ExactIs
  <2>6. ~InvalidOp(y)
    BY <2>4, <2>5 DEF InvalidOp, EntryGood
  <2>7. IsKey(e.key)
    BY <2>4 DEF IsProposal
  <2> QED BY <1>9, <2>4, <2>5, <2>6, <2>7 DEF Expanded, KeyOp, EntryGood
<1>12. ASSUME NEW i \in 1..Len(x) PROVE Expanded(op, x[i])
  <2>1. CASE i \in 1..Len(a)
    <3>1. x[i] = a[i] /\ a[i] = Change(op, old[i]) /\ i \in 1..Len(old)
      BY <1>7, <1>8, <2>1 DEF Joined
    <3> QED BY <1>10, <3>1
  <2>2. CASE \E j \in 1..Len(b) : i = Len(a) + j
    <3>1. PICK j \in 1..Len(b) : i = Len(a) + j
      BY <2>2
    <3>2. x[i] = b[j] /\ b[j] = Exact("Add", f[j]) /\ j \in 1..Len(f)
      BY <1>7, <1>8, <3>1 DEF Joined
    <3> QED BY <1>11, <3>2
  <2> QED BY <1>8, <2>1, <2>2 DEF Joined
<1> QED BY <1>8, <1>12 DEF Joined

-----------------------------------------------------------------------------
(* What the checks of edit_metadata_xmp() find.                             *)

\* The first of some places.
LEMMA FirstIn ==
    ASSUME NEW n, NEW bad, Within(bad, n), bad # {}
    PROVE  Min(bad) \in bad
<1>1. bad \subseteq Nat
  BY DEF Within
<1> QED BY <1>1, MinIs

LEMMA LastIn ==
    ASSUME NEW n, NEW bad, Within(bad, n), bad # {}
    PROVE  Max(bad) \in bad
<1>1. bad \subseteq Nat /\ n \in Nat /\ \A y \in bad : y <= n
  BY DEF Within
<1> QED BY <1>1, MaxIs

\* A verdict has a status and a place.
LEMMA BadIs ==
    ASSUME NEW status, NEW at
    PROVE  /\ Bad(status, at).status = status /\ Bad(status, at).at = at
           /\ status # "Ok" => Bad(status, at) # Ok
           /\ Ok.status = "Ok" /\ Ok.at = 0
BY DEF Bad, Ok

\* A refusal of the call for something else than a target.
Refusal(v, ops, statuses) == v # Ok /\ v.at \in 1..Len(ops) /\ v.status \in statuses

ScopeRefusals == {"InvalidScope", "EmptyEntries", "UnexpectedEntries", "LimitExceeded"}
StartRefusals ==
    ScopeRefusals \cup {"UnsupportedSelectedEntry", "DuplicateEntry", "ShapeCollision"}

ScopesOk(ops) == \A i \in 1..Len(ops) : ScopeStatus(ops, i) = "Ok"

\* The checks on the scopes.
LEMMA ScopesVerdictIs ==
    ASSUME NEW ops, Len(ops) \in Nat, NEW v, v = ScopesVerdict(ops)
    PROVE  /\ v = Ok => ScopesOk(ops)
           /\ v # Ok => Refusal(v, ops, ScopeRefusals)
<1>1. PICK bad : bad = {i \in 1..Len(ops) : ScopeStatus(ops, i) # "Ok"}
  OBVIOUS
<1>2. Within(bad, Len(ops))
  BY <1>1 DEF Within
<1>3. v = IF bad = {} THEN Ok ELSE Bad(ScopeStatus(ops, Min(bad)), Min(bad))
  BY <1>1 DEF ScopesVerdict, FirstBad
<1>4. CASE bad = {}
  BY <1>1, <1>3, <1>4 DEF ScopesOk
<1>5. CASE bad # {}
  <2>1. PICK m : m = Min(bad)
    OBVIOUS
  <2>2. m \in bad
    BY <1>2, <1>5, <2>1, FirstIn
  <2>3. m \in 1..Len(ops) /\ ScopeStatus(ops, m) # "Ok"
    BY <1>1, <2>2
  <2>4. ScopeStatus(ops, m) \in ScopeRefusals
    BY <2>3 DEF ScopeStatus, ScopeRefusals
  <2>5. v = Bad(ScopeStatus(ops, m), m)
    BY <1>3, <1>5, <2>1
  <2> QED BY <2>3, <2>4, <2>5, BadIs DEF Refusal
<1> QED BY <1>4, <1>5

\* The operation that first names a root, and the last one that does.
LEMMA FirstOfIs ==
    ASSUME NEW ops, Len(ops) \in Nat, NEW root \in Roots(ops, Len(ops))
    PROVE  FirstOf(ops, root) \in 1..Len(ops) /\ LastOf(ops, root) \in 1..Len(ops)
<1>1. PICK P : P = {i \in 1..Len(ops) : ops[i].scope.root = root}
  OBVIOUS
<1>2. P # {} /\ Within(P, Len(ops)) /\ P \subseteq 1..Len(ops)
  BY <1>1 DEF Roots, Within
<1>3. Min(P) \in P /\ Max(P) \in P
  BY <1>2, FirstIn, LastIn
<1> QED BY <1>1, <1>2, <1>3 DEF FirstOf, LastOf

SelectedOk(found) ==
    \A n \in 1..Len(found) : Trackable(found[n])

\* The checks on what the roots hold.
LEMMA SelectedVerdictIs ==
    ASSUME NEW ops, Len(ops) \in Nat, NEW found, Len(found) \in Nat,
           \A n \in 1..Len(found) : found[n].key.root \in Roots(ops, Len(ops)),
           NEW v, v = SelectedVerdict(ops, found)
    PROVE  /\ v = Ok => SelectedOk(found)
           /\ v # Ok => Refusal(v, ops, StartRefusals)
<1> DEFINE Status(n) == IF ~Trackable(found[n]) THEN "UnsupportedSelectedEntry"
                        ELSE IF n > MaxScopeEntries THEN "LimitExceeded" ELSE "Ok"
<1>1. PICK bad : bad = {n \in 1..Len(found) : Status(n) # "Ok"}
  OBVIOUS
<1>2. Within(bad, Len(found))
  BY <1>1 DEF Within
<1>3. v = IF bad = {} THEN Ok
          ELSE Bad(Status(Min(bad)), FirstOf(ops, found[Min(bad)].key.root))
  BY <1>1 DEF SelectedVerdict, FirstBad
<1>4. CASE bad = {}
  <2>1. \A n \in 1..Len(found) : Trackable(found[n])
    BY <1>1, <1>4
  <2> QED BY <1>3, <1>4, <2>1 DEF SelectedOk
<1>5. CASE bad # {}
  <2>1. PICK m : m = Min(bad)
    OBVIOUS
  <2>2. m \in bad
    BY <1>2, <1>5, <2>1, FirstIn
  <2>3. m \in 1..Len(found) /\ Status(m) # "Ok"
    BY <1>1, <2>2
  <2>4. Status(m) \in StartRefusals
    BY <2>3 DEF StartRefusals, ScopeRefusals
  <2>5. FirstOf(ops, found[m].key.root) \in 1..Len(ops)
    BY <2>3, FirstOfIs
  <2> HIDE DEF Status
  <2>6. v = Bad(Status(m), FirstOf(ops, found[m].key.root))
    BY <1>3, <1>5, <2>1
  <2> QED BY <2>3, <2>4, <2>5, <2>6, BadIs DEF Refusal
<1> QED BY <1>4, <1>5

\* The first pair in the order in which the code looks at them.
Earlier(p, q) == p[1] < q[1] \/ (p[1] = q[1] /\ p[2] <= q[2])

LEMMA FirstPair ==
    ASSUME NEW bad, bad \subseteq Nat \X Nat, bad # {}
    PROVE  \E p \in bad : \A q \in bad : Earlier(p, q)
<1>1. PICK A : A = {p[1] : p \in bad}
  OBVIOUS
<1>2. A \subseteq Nat /\ A # {}
  BY <1>1
<1>3. PICK a \in A : \A b \in A : a <= b
  BY <1>2, Least
<1>4. PICK B : B = {p[2] : p \in {q \in bad : q[1] = a}}
  OBVIOUS
<1>5. B \subseteq Nat /\ B # {}
  BY <1>1, <1>4
<1>6. PICK b \in B : \A d \in B : b <= d
  BY <1>5, Least
<1>7. PICK p \in bad : p[1] = a /\ p[2] = b
  BY <1>4
<1>8. ASSUME NEW q \in bad PROVE Earlier(p, q)
  <2>1. q[1] \in Nat /\ a \in Nat /\ a <= q[1]
    BY <1>1, <1>2, <1>3
  <2>2. CASE q[1] = a
    <3>1. q[2] \in B
      BY <1>4, <2>2
    <3> QED BY <1>6, <1>7, <2>2, <3>1 DEF Earlier
  <2>3. CASE q[1] # a
    BY <1>7, <2>1, <2>3 DEF Earlier
  <2> QED BY <2>2, <2>3
<1> QED BY <1>8

PairsOk(found) ==
    \A m, n \in 1..Len(found) : m < n => PairStatus(found[m], found[n]) = "Ok"

\* The checks on pairs of them.
LEMMA PairsVerdictIs ==
    ASSUME NEW ops, Len(ops) \in Nat, NEW found, Len(found) \in Nat,
           \A n \in 1..Len(found) : found[n].key.root \in Roots(ops, Len(ops)),
           NEW v, v = PairsVerdict(ops, found)
    PROVE  /\ v = Ok => PairsOk(found)
           /\ v # Ok => Refusal(v, ops, StartRefusals)
<1>1. PICK bad : bad = {p \in (1..Len(found)) \X (1..Len(found)) :
                          p[1] < p[2] /\ PairStatus(found[p[1]], found[p[2]]) # "Ok"}
  OBVIOUS
<1>2. PICK first : first = CHOOSE p \in bad : \A q \in bad :
                               p[1] < q[1] \/ (p[1] = q[1] /\ p[2] <= q[2])
  OBVIOUS
<1>3. v = IF bad = {} THEN Ok
          ELSE Bad(PairStatus(found[first[1]], found[first[2]]),
                   FirstOf(ops, found[first[1]].key.root))
  BY <1>1, <1>2 DEF PairsVerdict
<1>4. CASE bad = {}
  <2>1. ASSUME NEW m \in 1..Len(found), NEW n \in 1..Len(found), m < n
        PROVE  PairStatus(found[m], found[n]) = "Ok"
    <3>1. PICK p : p = <<m, n>>
      OBVIOUS
    <3>2. p \in (1..Len(found)) \X (1..Len(found)) /\ p[1] = m /\ p[2] = n
      BY <3>1
    <3>3. p \notin bad
      BY <1>4
    <3> QED BY <1>1, <2>1, <3>2, <3>3
  <2> QED BY <1>3, <1>4, <2>1 DEF PairsOk
<1>5. CASE bad # {}
  <2>1. bad \subseteq Nat \X Nat
    BY <1>1
  <2>2. \E p \in bad : \A q \in bad : p[1] < q[1] \/ (p[1] = q[1] /\ p[2] <= q[2])
    BY <1>5, <2>1, FirstPair DEF Earlier
  <2>3. first \in bad
    BY <1>2, <2>2
  <2>4. PICK m, n : m = first[1] /\ n = first[2]
    OBVIOUS
  <2>5. m \in 1..Len(found) /\ n \in 1..Len(found) /\ PairStatus(found[m], found[n]) # "Ok"
    BY <1>1, <2>3, <2>4
  <2>6. PairStatus(found[m], found[n]) \in StartRefusals
    BY <2>5 DEF PairStatus, StartRefusals
  <2>7. FirstOf(ops, found[m].key.root) \in 1..Len(ops)
    BY <2>5, FirstOfIs
  <2>8. v = Bad(PairStatus(found[m], found[n]), FirstOf(ops, found[m].key.root))
    BY <1>3, <1>5, <2>4
  <2> QED BY <2>5, <2>6, <2>7, <2>8, BadIs DEF Refusal
<1> QED BY <1>4, <1>5

-----------------------------------------------------------------------------
(* The call begins with the entries of the roots as the store has them.     *)

AllRoots(ops) == Roots(ops, Len(ops))

\* All checks before the first operation.
LEMMA StartVerdictIs ==
    ASSUME NEW s, IsStore(s), NEW ops, Len(ops) \in Nat, NEW v, v = StartVerdict(s, ops),
           NEW found, found = Selected(s, ops)
    PROVE  /\ v = Ok => ScopesOk(ops) /\ SelectedOk(found) /\ PairsOk(found)
           /\ v # Ok => Refusal(v, ops, StartRefusals)
<1>1. PICK P : P = {n \in 1..Len(s.entries) :
                       /\ ~Deleted(s.entries[n])
                       /\ s.entries[n].key.root \in Roots(ops, Len(ops))}
  OBVIOUS
<1>2. Len(s.entries) \in Nat
  BY DEF IsStore, IsSequence
<1>3. Within(P, Len(s.entries))
  BY <1>1, <1>2 DEF Within
<1>4. found = Picked(s.entries, P)
  BY <1>1 DEF Selected
<1>5. PickedOf(s.entries, P, found)
  BY <1>3, <1>4, PickedFrom
<1>6. Len(found) \in Nat /\ \A n \in 1..Len(found) : \E p \in P : found[n] = s.entries[p]
  BY <1>5 DEF PickedOf
<1>7. \A n \in 1..Len(found) : found[n].key.root \in Roots(ops, Len(ops))
  BY <1>1, <1>6
<1>8. PICK a, b, d : /\ a = ScopesVerdict(ops) /\ b = SelectedVerdict(ops, found)
                     /\ d = PairsVerdict(ops, found)
  OBVIOUS
<1>9. v = IF a # Ok THEN a ELSE IF b # Ok THEN b ELSE d
  BY <1>8 DEF StartVerdict
<1>10. (a = Ok => ScopesOk(ops)) /\ (a # Ok => Refusal(a, ops, ScopeRefusals))
  BY <1>8, ScopesVerdictIs
<1>11. (b = Ok => SelectedOk(found)) /\ (b # Ok => Refusal(b, ops, StartRefusals))
  BY <1>6, <1>7, <1>8, SelectedVerdictIs
<1>12. (d = Ok => PairsOk(found)) /\ (d # Ok => Refusal(d, ops, StartRefusals))
  BY <1>6, <1>7, <1>8, PairsVerdictIs
<1>13. Refusal(a, ops, ScopeRefusals) => Refusal(a, ops, StartRefusals)
  BY DEF Refusal, StartRefusals
<1> QED BY <1>9, <1>10, <1>11, <1>12, <1>13

\* What the call keeps of the entries found.
Kinds(found) == [n \in 1..Len(found) |-> [key |-> found[n].key, wire |-> found[n].wire]]

\* Place by place.
LEMMA KindsAre ==
    ASSUME NEW found, Len(found) \in Nat, NEW st, st = Kinds(found)
    PROVE  /\ IsSequence(st) /\ Len(st) = Len(found)
           /\ \A n \in 1..Len(found) : st[n] = [key |-> found[n].key, wire |-> found[n].wire]
<1>1. st = [n \in 1..Len(found) |-> st[n]]
  BY DEF Kinds
<1>2. IsSequence(st) /\ Len(st) = Len(found)
  BY <1>1, SequenceMade
<1> QED BY <1>2 DEF Kinds

\* Pairs that pass the checks may stand beside each other.
LEMMA PairsApart ==
    ASSUME NEW found, Len(found) \in Nat, PairsOk(found)
    PROVE  \A m, n \in 1..Len(found) : m # n => Fit(found[m].key, found[n].key)
<1>1. ASSUME NEW m \in 1..Len(found), NEW n \in 1..Len(found), m < n
      PROVE  Fit(found[m].key, found[n].key)
  <2>1. PairStatus(found[m], found[n]) = "Ok"
    BY <1>1 DEF PairsOk
  <2> QED BY <2>1, FitIs
<1>2. ASSUME NEW m \in 1..Len(found), NEW n \in 1..Len(found), m # n
      PROVE  Fit(found[m].key, found[n].key)
  <2>1. m < n \/ n < m
    BY <1>2
  <2>2. CASE n < m
    <3>1. Fit(found[n].key, found[m].key)
      BY <1>1, <2>2
    <3> QED BY <3>1, FitIs
  <2> QED BY <1>1, <2>1, <2>2
<1> QED BY <1>2

\* Members that are picked apart stand apart.
LEMMA PickedPairs ==
    ASSUME NEW s, NEW n, NEW P, Within(P, n), NEW f, f = Picked(s, P),
           \A i, j \in 1..Len(f) : i # j => Fit(f[i].key, f[j].key)
    PROVE  \A p, r \in P : p # r => Fit(s[p].key, s[r].key)
<1>1. Picks(s, P, f)
  BY PickedIs
<1>2. PICK q : /\ Enumerates(q, P) /\ Len(f) = Len(q)
               /\ \A i \in 1..Len(q) : f[i] = s[q[i]]
  BY <1>1 DEF Picks
<1>3. P = {q[i] : i \in 1..Len(q)}
  BY <1>2 DEF Enumerates
<1>4. ASSUME NEW p \in P, NEW r \in P, p # r PROVE Fit(s[p].key, s[r].key)
  <2>1. PICK i \in 1..Len(q) : p = q[i]
    BY <1>3
  <2>2. PICK j \in 1..Len(q) : r = q[j]
    BY <1>3
  <2>3. i # j
    BY <1>4, <2>1, <2>2
  <2>4. Fit(f[i].key, f[j].key)
    BY <1>2, <2>3
  <2> QED BY <1>2, <2>1, <2>2, <2>4
<1> QED BY <1>4

\* The list that the call keeps is right when it begins, and the roots well formed.
LEMMA XmpStarts ==
    ASSUME NEW s, IsStore(s), NEW ops, Len(ops) \in Nat, StartVerdict(s, ops) = Ok,
           NEW c, c = XmpStart(s, ops), NEW l, l = Listed(s.entries)
    PROVE  /\ StateIs(c.state, l, AllRoots(ops)) /\ WellFormed(l, AllRoots(ops)) /\ ScopesOk(ops)
           /\ c.stage = "xmp" /\ c.ops = ops /\ c.next = 1 /\ c.expanded = <<>> /\ c.owner = <<>>
<1>1. PICK R, es : R = AllRoots(ops) /\ es = s.entries
  OBVIOUS
<1>2. PICK P : P = {n \in 1..Len(es) : ~Deleted(es[n]) /\ es[n].key.root \in R}
  OBVIOUS
<1>3. PICK found : found = Selected(s, ops)
  OBVIOUS
<1>4. IsSequence(es) /\ Len(es) \in Nat
  BY <1>1 DEF IsStore, IsSequence
<1>5. Within(P, Len(es))
  BY <1>2, <1>4 DEF Within
<1>6. found = Picked(es, P)
  BY <1>1, <1>2, <1>3 DEF Selected, AllRoots
<1>7. PickedOf(es, P, found)
  BY <1>5, <1>6, PickedFrom
<1>8. /\ IsSequence(found) /\ Len(found) \in Nat
      /\ (\A n \in 1..Len(found) : \E p \in P : found[n] = es[p])
      /\ \A p \in P : \E n \in 1..Len(found) : found[n] = es[p]
  BY <1>7 DEF PickedOf
<1>9. ScopesOk(ops) /\ SelectedOk(found) /\ PairsOk(found)
  BY <1>3, StartVerdictIs
<1>10. Len(l) = Len(es) /\ \A n \in 1..Len(es) : l[n] = View(es[n])
  BY <1>1, <1>4, ListedIs
<1>11. \A n \in 1..Len(es) :
          /\ l[n].key = es[n].key /\ l[n].wire = es[n].wire /\ l[n].value = es[n].value
          /\ l[n].flags = es[n].flags /\ (Deleted(l[n]) <=> Deleted(es[n]))
  BY <1>10, ViewIs
<1>12. RootLive(l, R) = P /\ P \subseteq 1..Len(es)
  BY <1>2, <1>10, <1>11 DEF RootLive
<1>13. PICK st : st = Kinds(found)
  OBVIOUS
<1>14. /\ IsSequence(st) /\ Len(st) = Len(found)
       /\ \A n \in 1..Len(found) : st[n] = [key |-> found[n].key, wire |-> found[n].wire]
  BY <1>8, <1>13, KindsAre
<1>15. ASSUME NEW n \in 1..Len(found)
       PROVE  st[n].key = found[n].key /\ st[n].wire = found[n].wire
  <2>1. PICK d : d = [key |-> found[n].key, wire |-> found[n].wire]
    OBVIOUS
  <2>2. st[n] = d
    BY <1>14, <2>1
  <2> QED BY <2>1, <2>2
<1>16. \A m, n \in 1..Len(found) : m # n => Fit(found[m].key, found[n].key)
  BY <1>8, <1>9, PairsApart
<1>17. Apart(st, 1..Len(st))
  BY <1>14, <1>15, <1>16 DEF Apart, Fit
<1>18. \A i \in 1..Len(st) : st[i] = [key |-> st[i].key, wire |-> st[i].wire]
  BY <1>14, <1>15
<1>19. ASSUME NEW i \in 1..Len(st)
       PROVE  \E n \in RootLive(l, R) : l[n].key = st[i].key /\ l[n].wire = st[i].wire
  <2>1. PICK p \in P : found[i] = es[p]
    BY <1>8, <1>14
  <2> QED BY <1>11, <1>12, <1>14, <1>15, <2>1
<1>20. ASSUME NEW n \in RootLive(l, R) PROVE \E i \in 1..Len(st) : l[n].key = st[i].key
  <2>1. PICK i \in 1..Len(found) : found[i] = es[n]
    BY <1>8, <1>12
  <2>2. n \in 1..Len(es) /\ i \in 1..Len(st)
    BY <1>12, <1>14
  <2>3. l[n].key = es[n].key /\ st[i].key = found[i].key
    BY <1>11, <1>15, <2>2
  <2> QED BY <2>1, <2>2, <2>3
<1>21. StateIs(st, l, R)
  BY <1>14, <1>17, <1>18, <1>19, <1>20 DEF StateIs
<1>22. ASSUME NEW n \in RootLive(l, R) PROVE Trackable(l[n])
  <2>1. PICK i \in 1..Len(found) : found[i] = es[n]
    BY <1>8, <1>12
  <2>2. Trackable(es[n])
    BY <1>9, <2>1 DEF SelectedOk
  <2> QED BY <1>11, <1>12, <2>2 DEF Trackable
<1>26. \A p, r \in P : p # r => Fit(es[p].key, es[r].key)
  BY <1>5, <1>6, <1>16, PickedPairs
<1>23. ASSUME NEW m \in RootLive(l, R), NEW n \in RootLive(l, R), m # n
       PROVE  Fit(l[m].key, l[n].key)
  <2>1. Fit(es[m].key, es[n].key)
    BY <1>12, <1>23, <1>26
  <2>2. m \in 1..Len(es) /\ n \in 1..Len(es)
    BY <1>12
  <2> QED BY <1>11, <2>1, <2>2
<1>24. WellFormed(l, R)
  BY <1>22, <1>23 DEF WellFormed
<1>25. /\ c.stage = "xmp" /\ c.ops = ops /\ c.next = 1 /\ c.expanded = <<>> /\ c.owner = <<>>
       /\ c.state = st
  <2>1. c = [stage |-> "xmp", ops |-> ops, next |-> 1, input |-> 0,
             state |-> st, expanded |-> <<>>, owner |-> <<>>]
    BY <1>3, <1>13 DEF XmpStart, Kinds
  <2> QED BY <2>1
<1> QED BY <1>1, <1>9, <1>21, <1>24, <1>25

-----------------------------------------------------------------------------
(* What the checks on one operation by scope find.                          *)

ContentRefusals ==
    {"LimitExceeded", "InvalidEntry", "UnsupportedPath", "DuplicateEntry", "ShapeCollision"}

EntryFits(op, n) ==
    /\ EntryGood(op, op.entries[n])
    /\ \A m \in 1..n - 1 : Fit(op.entries[m].key, op.entries[n].key)

\* The checks on one entry, on all of them, and on what stays beside them.
LEMMA EntryStatusIs ==
    ASSUME NEW op, NEW n \in Nat
    PROVE  /\ EntryStatus(op, n) = "Ok" => EntryFits(op, n)
           /\ EntryStatus(op, n) \in {"Ok"} \cup ContentRefusals
<1>1. PICK earlier : earlier = {m \in 1..n - 1 : PairStatus(op.entries[m], op.entries[n]) # "Ok"}
  OBVIOUS
<1>2. PICK e, why : e = op.entries[n] /\ why = PairStatus(op.entries[Min(earlier)], e)
  OBVIOUS
<1>3. EntryStatus(op, n) =
        IF \/ op.scope.root \notin Customs /\ e.wire # "none"
           \/ (e.value = Void) # (e.wire = Form)
        THEN "InvalidEntry"
        ELSE IF ~Canonical(e.key) THEN "UnsupportedPath"
        ELSE IF ~InScope(op.scope, e.key) \/ e.value \in BadValues THEN "InvalidEntry"
        ELSE IF earlier # {} THEN why ELSE "Ok"
  BY <1>1, <1>2 DEF EntryStatus
<1>4. why \in {"Ok", "DuplicateEntry", "ShapeCollision"}
  BY <1>2, FitIs
<1>5. earlier # {} => why # "Ok"
  <2>1. Within(earlier, n)
    BY <1>1 DEF Within
  <2>2. earlier # {} => Min(earlier) \in earlier
    BY <2>1, FirstIn
  <2> QED BY <1>1, <1>2, <2>2
<1>6. EntryStatus(op, n) \in {"Ok"} \cup ContentRefusals
  BY <1>3, <1>4 DEF ContentRefusals
<1>7. ASSUME EntryStatus(op, n) = "Ok" PROVE EntryFits(op, n)
  <2>1. earlier = {}
    BY <1>3, <1>5, <1>7
  <2>2. EntryGood(op, e)
    <3>1. /\ ~(op.scope.root \notin Customs /\ e.wire # "none")
          /\ ~((e.value = Void) # (e.wire = Form))
          /\ Canonical(e.key) /\ InScope(op.scope, e.key) /\ e.value \notin BadValues
      BY <1>3, <1>7
    <3>2. (e.value = Void) <=> (e.wire = Form)
      BY <3>1
    <3> QED BY <3>1, <3>2 DEF EntryGood
  <2>3. \A m \in 1..n - 1 : PairStatus(op.entries[m], op.entries[n]) = "Ok"
    BY <1>1, <2>1
  <2>4. \A m \in 1..n - 1 : Fit(op.entries[m].key, op.entries[n].key)
    BY <2>3, FitIs
  <2> QED BY <1>2, <2>2, <2>4 DEF EntryFits
<1> QED BY <1>6, <1>7

LEMMA EntriesStatusIs ==
    ASSUME NEW c, NEW op, Len(op.entries) \in Nat, NEW v, v = EntriesStatus(c, op)
    PROVE  /\ v = "Ok" => \A n \in 1..Len(op.entries) : EntryFits(op, n)
           /\ v \in {"Ok"} \cup ContentRefusals
<1>1. PICK bad : bad = {n \in 1..Len(op.entries) : EntryStatus(op, n) # "Ok"}
  OBVIOUS
<1>2. PICK w : w = IF bad = {} THEN Ok ELSE Bad(EntryStatus(op, Min(bad)), Min(bad))
  OBVIOUS
<1>3. v = IF c.input + Len(op.entries) > MaxScopeEntries THEN "LimitExceeded" ELSE w.status
  BY <1>1, <1>2 DEF EntriesStatus, FirstBad
<1>4. Within(bad, Len(op.entries))
  BY <1>1 DEF Within
<1>5. CASE bad = {}
  <2>1. w.status = "Ok"
    BY <1>2, <1>5, BadIs
  <2>2. \A n \in 1..Len(op.entries) : n \in Nat /\ EntryStatus(op, n) = "Ok"
    BY <1>1, <1>5
  <2>3. \A n \in 1..Len(op.entries) : EntryFits(op, n)
    BY <2>2, EntryStatusIs
  <2> QED BY <1>3, <2>1, <2>3 DEF ContentRefusals
<1>6. CASE bad # {}
  <2>1. PICK m : m = Min(bad)
    OBVIOUS
  <2>2. m \in bad
    BY <1>4, <1>6, <2>1, FirstIn
  <2>3. m \in Nat /\ EntryStatus(op, m) # "Ok"
    BY <1>1, <2>2
  <2>4. w = Bad(EntryStatus(op, m), m)
    BY <1>2, <1>6, <2>1
  <2>5. w.status = EntryStatus(op, m)
    BY <2>4, BadIs
  <2>6. w.status \in ContentRefusals
    BY <2>3, <2>5, EntryStatusIs
  <2>7. v \in ContentRefusals /\ "Ok" \notin ContentRefusals
    BY <1>3, <2>6 DEF ContentRefusals
  <2> QED BY <2>7
<1> QED BY <1>5, <1>6

BesideFits(st, op, m) ==
    ~InScope(op.scope, st[m].key) =>
        \A n \in 1..Len(op.entries) : Fit(st[m].key, op.entries[n].key)

BesideOne(st, op, m) ==
    FirstBad(Len(op.entries), LAMBDA n : PairStatus(st[m], op.entries[n]), LAMBDA n : n).status

LEMMA BesideOneIs ==
    ASSUME NEW st, NEW op, Len(op.entries) \in Nat, NEW m
    PROVE  /\ BesideOne(st, op, m) = "Ok" =>
                 \A n \in 1..Len(op.entries) : Fit(st[m].key, op.entries[n].key)
           /\ BesideOne(st, op, m) \in {"Ok"} \cup ContentRefusals
<1>1. PICK bad : bad = {n \in 1..Len(op.entries) : PairStatus(st[m], op.entries[n]) # "Ok"}
  OBVIOUS
<1>2. PICK w : w = IF bad = {} THEN Ok ELSE Bad(PairStatus(st[m], op.entries[Min(bad)]), Min(bad))
  OBVIOUS
<1>3. BesideOne(st, op, m) = w.status
  BY <1>1, <1>2 DEF BesideOne, FirstBad
<1>4. Within(bad, Len(op.entries))
  BY <1>1 DEF Within
<1>5. CASE bad = {}
  <2>1. w.status = "Ok"
    BY <1>2, <1>5, BadIs
  <2>2. \A n \in 1..Len(op.entries) : PairStatus(st[m], op.entries[n]) = "Ok"
    BY <1>1, <1>5
  <2>3. \A n \in 1..Len(op.entries) : Fit(st[m].key, op.entries[n].key)
    BY <2>2, FitIs
  <2> QED BY <1>3, <2>1, <2>3
<1>6. CASE bad # {}
  <2>1. PICK k : k = Min(bad)
    OBVIOUS
  <2>2. k \in bad
    BY <1>4, <1>6, <2>1, FirstIn
  <2>3. PairStatus(st[m], op.entries[k]) # "Ok"
    BY <1>1, <2>2
  <2>4. w = Bad(PairStatus(st[m], op.entries[k]), k)
    BY <1>2, <1>6, <2>1
  <2>5. w.status = PairStatus(st[m], op.entries[k])
    BY <2>4, BadIs
  <2>6. w.status \in {"DuplicateEntry", "ShapeCollision"}
    BY <2>3, <2>5, FitIs
  <2> QED BY <1>3, <2>6 DEF ContentRefusals
<1> QED BY <1>5, <1>6

LEMMA BesideStatusIs ==
    ASSUME NEW c, NEW op, Len(op.entries) \in Nat, Len(c.state) \in Nat, NEW v,
           v = BesideStatus(c, op)
    PROVE  /\ v = "Ok" => \A m \in 1..Len(c.state) : BesideFits(c.state, op, m)
           /\ v \in {"Ok"} \cup ContentRefusals
<1> DEFINE Status(m) == IF InScope(op.scope, c.state[m].key) THEN "Ok"
                        ELSE BesideOne(c.state, op, m)
<1>1. PICK bad : bad = {m \in 1..Len(c.state) : Status(m) # "Ok"}
  OBVIOUS
<1>2. PICK w : w = IF bad = {} THEN Ok ELSE Bad(Status(Min(bad)), Min(bad))
  OBVIOUS
<1>3. v = w.status
  BY <1>1, <1>2 DEF BesideStatus, BesideOne, FirstBad
<1>4. Within(bad, Len(c.state))
  BY <1>1 DEF Within
<1>5. CASE bad = {}
  <2>1. w.status = "Ok"
    BY <1>2, <1>5, BadIs
  <2>2. ASSUME NEW m \in 1..Len(c.state), ~InScope(op.scope, c.state[m].key)
        PROVE  \A n \in 1..Len(op.entries) : Fit(c.state[m].key, op.entries[n].key)
    <3>1. BesideOne(c.state, op, m) = "Ok"
      BY <1>1, <1>5, <2>2
    <3> QED BY <3>1, BesideOneIs
  <2>3. \A m \in 1..Len(c.state) : BesideFits(c.state, op, m)
    BY <2>2 DEF BesideFits
  <2> QED BY <1>3, <2>1, <2>3
<1>6. CASE bad # {}
  <2>1. PICK k : k = Min(bad)
    OBVIOUS
  <2>2. k \in bad
    BY <1>4, <1>6, <2>1, FirstIn
  <2>3. Status(k) # "Ok"
    BY <1>1, <2>2
  <2>4. Status(k) \in ContentRefusals
    BY <2>3, BesideOneIs
  <2> HIDE DEF Status
  <2>5. w = Bad(Status(k), k)
    BY <1>2, <1>6, <2>1
  <2>6. w.status = Status(k)
    BY <2>5, BadIs
  <2> QED BY <1>3, <2>4, <2>6 DEF ContentRefusals
<1> QED BY <1>5, <1>6

\* The first of the four groups of checks that finds something answers.
LEMMA XmpStatusFour ==
    ASSUME NEW c, NEW op, NEW a, a = EntriesStatus(c, op), NEW b, b = SelectionStatus(c, op),
           NEW d, d = BesideStatus(c, op), NEW e, e = RoomStatus(c, op)
    PROVE  /\ XmpStatus(c, op) = "Ok" => a = "Ok" /\ b = "Ok" /\ d = "Ok" /\ e = "Ok"
           /\ XmpStatus(c, op) \in {"Ok", a, b, d, e}
<1>1. PICK f : f = <<a, b, d, e>>
  OBVIOUS
<1>2. PICK bad : bad = {i \in 1..4 : f[i] # "Ok"}
  OBVIOUS
<1>3. PICK w : w = IF bad = {} THEN Ok ELSE Bad(f[Min(bad)], Min(bad))
  OBVIOUS
<1>4. XmpStatus(c, op) = w.status
  BY <1>1, <1>2, <1>3 DEF XmpStatus, FirstBad
<1>5. f[1] = a /\ f[2] = b /\ f[3] = d /\ f[4] = e
  BY <1>1
<1>6. Within(bad, 4)
  BY <1>2 DEF Within
<1>7. CASE bad = {}
  <2>1. w.status = "Ok"
    BY <1>3, <1>7, BadIs
  <2>2. \A i \in 1..4 : f[i] = "Ok"
    BY <1>2, <1>7
  <2> QED BY <1>4, <1>5, <2>1, <2>2
<1>8. CASE bad # {}
  <2>1. PICK k : k = Min(bad)
    OBVIOUS
  <2>2. k \in bad
    BY <1>6, <1>8, <2>1, FirstIn
  <2>3. k \in 1..4 /\ f[k] # "Ok"
    BY <1>2, <2>2
  <2>4. w = Bad(f[k], k)
    BY <1>3, <1>8, <2>1
  <2>5. w.status = f[k]
    BY <2>4, BadIs
  <2>6. k = 1 \/ k = 2 \/ k = 3 \/ k = 4
    BY <2>3
  <2> QED BY <1>4, <1>5, <2>3, <2>5, <2>6
<1> QED BY <1>7, <1>8

\* An operation goes or not with what is selected.
Suits(st, op) == (op.kind = "Add") <=> (\A m \in 1..Len(st) : ~InScope(op.scope, st[m].key))

\* A pass means that the operation fits; a refusal for a target, that it does not suit.
LEMMA XmpStatusIs ==
    ASSUME NEW c, Len(c.state) \in Nat, NEW op, IsOperation("xmp", op),
           op.kind = "Remove" => op.entries = <<>>, NEW v, v = XmpStatus(c, op)
    PROVE  /\ v = "Ok" => /\ OpFits(c.state, op)
                          /\ ~(Len(c.expanded) + Len(Expansion(c, op)) > MaxExpanded)
           /\ v \notin {"Ok"} \cup ContentRefusals => ~Suits(c.state, op)
           /\ v \in {"Ok", "ScopeAlreadyExists", "ScopeNotFound"} \cup ContentRefusals
<1>1. PICK a, b, d, e : /\ a = EntriesStatus(c, op) /\ b = SelectionStatus(c, op)
                        /\ d = BesideStatus(c, op) /\ e = RoomStatus(c, op)
  OBVIOUS
<1>2. /\ v = "Ok" => a = "Ok" /\ b = "Ok" /\ d = "Ok" /\ e = "Ok"
      /\ v \in {"Ok", a, b, d, e}
  BY <1>1, XmpStatusFour
<1>3. Proposals(op) /\ Len(op.entries) \in Nat /\ op.kind \in {"Add", "Replace", "Remove"}
  BY DEF IsOperation, Proposals, IsSequence
<1>4. /\ a = "Ok" => \A n \in 1..Len(op.entries) : EntryFits(op, n)
      /\ a \in {"Ok"} \cup ContentRefusals
  BY <1>1, <1>3, EntriesStatusIs
<1>5. /\ d = "Ok" => \A m \in 1..Len(c.state) : BesideFits(c.state, op, m)
      /\ d \in {"Ok"} \cup ContentRefusals
  BY <1>1, <1>3, BesideStatusIs
<1>6. /\ b = "Ok" <=> Suits(c.state, op)
      /\ b \in {"Ok", "ScopeAlreadyExists", "ScopeNotFound"}
  <2>1. PICK some \in BOOLEAN :
           some <=> \E n \in 1..Len(c.state) : InScope(op.scope, c.state[n].key)
    OBVIOUS
  <2>2. b = IF op.kind = "Add" /\ some THEN "ScopeAlreadyExists"
            ELSE IF op.kind # "Add" /\ ~some THEN "ScopeNotFound" ELSE "Ok"
    BY <1>1, <2>1 DEF SelectionStatus
  <2>3. Suits(c.state, op) <=> (op.kind = "Add" <=> ~some)
    BY <2>1 DEF Suits
  <2> QED BY <2>2, <2>3
<1>7. /\ e = "Ok" => ~(Len(c.expanded) + Len(Expansion(c, op)) > MaxExpanded)
      /\ e \in {"Ok"} \cup ContentRefusals
  BY <1>1 DEF RoomStatus, ContentRefusals
<1>8. ASSUME v = "Ok" PROVE OpFits(c.state, op)
  <2>1. \A n \in 1..Len(op.entries) : EntryFits(op, n)
    BY <1>2, <1>4, <1>8
  <2>2. \A m \in 1..Len(c.state) : BesideFits(c.state, op, m)
    BY <1>2, <1>5, <1>8
  <2>3. ASSUME NEW m \in 1..Len(op.entries), NEW n \in 1..Len(op.entries), m # n
        PROVE  Fit(op.entries[m].key, op.entries[n].key)
    <3>1. CASE m < n
      <4>1. m \in 1..n - 1
        BY <3>1, <1>3
      <4> QED BY <2>1, <4>1 DEF EntryFits
    <3>2. CASE n < m
      <4>1. n \in 1..m - 1
        BY <3>2, <1>3
      <4>2. Fit(op.entries[n].key, op.entries[m].key)
        BY <2>1, <4>1 DEF EntryFits
      <4> QED BY <4>2, FitIs
    <3> QED BY <1>3, <2>3, <3>1, <3>2
  <2>4. \A n \in 1..Len(op.entries) : EntryGood(op, op.entries[n])
    BY <2>1 DEF EntryFits
  <2>5. Suits(c.state, op)
    BY <1>2, <1>6, <1>8
  <2>6. op.kind = "Remove" => Len(op.entries) = 0
    <3>1. Len(<<>>) = 0
      OBVIOUS
    <3> QED BY <3>1
  <2> QED BY <1>3, <2>2, <2>3, <2>4, <2>5, <2>6 DEF OpFits, BesideFits, Suits
<1>9. v \notin {"Ok"} \cup ContentRefusals => ~Suits(c.state, op)
  BY <1>2, <1>4, <1>5, <1>6, <1>7
<1>10. v \in {"Ok", "ScopeAlreadyExists", "ScopeNotFound"} \cup ContentRefusals
  BY <1>2, <1>4, <1>5, <1>6, <1>7
<1> QED BY <1>2, <1>7, <1>8, <1>9, <1>10

\* The checks after the last operation blame one of the request.
LEMMA EndVerdictIs ==
    ASSUME NEW c, Len(c.ops) \in Nat, NEW v, v = EndVerdict(c)
    PROVE  /\ v = Ok => Undeclared(c) = {}
           /\ v # Ok => Refusal(v, c.ops, StartRefusals)
<1>1. PICK U : U = Undeclared(c)
  OBVIOUS
<1>2. PICK first : first = CHOOSE r \in U : \A q \in U : FirstOf(c.ops, r) <= FirstOf(c.ops, q)
  OBVIOUS
<1>3. v = IF U = {} THEN Ok ELSE Bad("ShapeCollision", LastOf(c.ops, first))
  BY <1>1, <1>2 DEF EndVerdict
<1>4. CASE U = {}
  BY <1>1, <1>3, <1>4
<1>5. CASE U # {}
  <2>1. U \subseteq Roots(c.ops, Len(c.ops))
    BY <1>1 DEF Undeclared
  <2>2. \A r \in U : FirstOf(c.ops, r) \in Nat
    BY <2>1, FirstOfIs
  <2>3. PICK S : S = {FirstOf(c.ops, r) : r \in U}
    OBVIOUS
  <2>4. S \subseteq Nat /\ S # {}
    BY <1>5, <2>2, <2>3
  <2>5. PICK x \in S : \A y \in S : x <= y
    BY <2>4, Least
  <2>6. \E r \in U : \A q \in U : FirstOf(c.ops, r) <= FirstOf(c.ops, q)
    BY <2>3, <2>5
  <2>7. first \in U
    BY <1>2, <2>6
  <2>8. LastOf(c.ops, first) \in 1..Len(c.ops)
    BY <2>1, <2>7, FirstOfIs
  <2>9. v = Bad("ShapeCollision", LastOf(c.ops, first))
    BY <1>3, <1>5
  <2>10. v.status = "ShapeCollision" /\ v.at = LastOf(c.ops, first) /\ v # Ok
    BY <2>9, BadIs
  <2> QED BY <1>1, <1>5, <2>8, <2>10 DEF Refusal, StartRefusals
<1> QED BY <1>4, <1>5

-----------------------------------------------------------------------------
(* What the checks of create_metadata() and create_metadata_store() find.   *)

FieldRefusals == {"DuplicateSingleton", "InvalidValue"}

\* The checks of create_metadata().
LEMMA FieldsVerdictIs ==
    ASSUME NEW ops, Len(ops) \in Nat, NEW v, v = FieldsVerdict(ops)
    PROVE  /\ v = Ok => \A i \in 1..Len(ops) : FieldStatus(ops, i) = "Ok"
           /\ v # Ok => Refusal(v, ops, FieldRefusals)
<1>1. PICK bad : bad = {i \in 1..Len(ops) : FieldStatus(ops, i) # "Ok"}
  OBVIOUS
<1>2. Within(bad, Len(ops))
  BY <1>1 DEF Within
<1>3. v = IF bad = {} THEN Ok ELSE Bad(FieldStatus(ops, Min(bad)), Min(bad))
  BY <1>1 DEF FieldsVerdict, FirstBad
<1>4. CASE bad = {}
  BY <1>1, <1>3, <1>4
<1>5. CASE bad # {}
  <2>1. PICK m : m = Min(bad)
    OBVIOUS
  <2>2. m \in bad
    BY <1>2, <1>5, <2>1, FirstIn
  <2>3. m \in 1..Len(ops) /\ FieldStatus(ops, m) # "Ok"
    BY <1>1, <2>2
  <2>4. FieldStatus(ops, m) \in FieldRefusals
    BY <2>3 DEF FieldStatus, ValueError, FieldRefusals
  <2>5. v = Bad(FieldStatus(ops, m), m)
    BY <1>3, <1>5, <2>1
  <2> QED BY <2>3, <2>4, <2>5, BadIs DEF Refusal
<1> QED BY <1>4, <1>5

KeysApart(ops) == \A i, j \in 1..Len(ops) : i # j => ops[i].key # ops[j].key

EntryRefusals == {"DuplicateKey", "InvalidValue"}

InvalidEntries(ops) ==
    FirstBad(Len(ops),
             LAMBDA i : IF ops[i].value \in BadValues THEN "InvalidValue" ELSE "Ok",
             LAMBDA i : i)

LEMMA InvalidVerdictIs ==
    ASSUME NEW ops, Len(ops) \in Nat, NEW v, v = InvalidEntries(ops)
    PROVE  v # Ok => Refusal(v, ops, EntryRefusals)
<1>1. PICK bad : bad = {i \in 1..Len(ops) : (IF ops[i].value \in BadValues
                                               THEN "InvalidValue" ELSE "Ok") # "Ok"}
  OBVIOUS
<1>2. Within(bad, Len(ops))
  BY <1>1 DEF Within
<1>3. PICK m : m = Min(bad)
  OBVIOUS
<1>4. v = IF bad = {} THEN Ok
          ELSE Bad(IF ops[m].value \in BadValues THEN "InvalidValue" ELSE "Ok", m)
  BY <1>1, <1>3 DEF InvalidEntries, FirstBad
<1>5. ASSUME v # Ok PROVE Refusal(v, ops, EntryRefusals)
  <2>1. bad # {}
    BY <1>4, <1>5
  <2>2. m \in bad
    BY <1>2, <1>3, <2>1, FirstIn
  <2>3. m \in 1..Len(ops) /\ ops[m].value \in BadValues
    BY <1>1, <2>2
  <2>4. v = Bad("InvalidValue", m)
    BY <1>4, <2>1, <2>3
  <2>5. v.status = "InvalidValue" /\ v.at = m /\ v # Ok
    BY <2>4 DEF Bad, Ok
  <2> QED BY <2>3, <2>5 DEF Refusal, EntryRefusals
<1> QED BY <1>5

TwiceEntries(ops) ==
    FirstBad(Len(ops),
             LAMBDA i : IF \E j \in 1..Len(ops) : j # i /\ ops[j].key = ops[i].key
                        THEN "DuplicateKey" ELSE "Ok",
             LAMBDA i : i)

LEMMA TwiceVerdictIs ==
    ASSUME NEW ops, Len(ops) \in Nat, NEW v, v = TwiceEntries(ops)
    PROVE  /\ v = Ok => KeysApart(ops)
           /\ v # Ok => Refusal(v, ops, EntryRefusals)
<1> DEFINE Twice(i) == \E j \in 1..Len(ops) : j # i /\ ops[j].key = ops[i].key
<1>1. PICK bad : bad = {i \in 1..Len(ops) : (IF Twice(i) THEN "DuplicateKey" ELSE "Ok") # "Ok"}
  OBVIOUS
<1>2. Within(bad, Len(ops))
  BY <1>1 DEF Within
<1>3. PICK m : m = Min(bad)
  OBVIOUS
<1>4. v = IF bad = {} THEN Ok ELSE Bad(IF Twice(m) THEN "DuplicateKey" ELSE "Ok", m)
  BY <1>1, <1>3 DEF TwiceEntries, FirstBad
<1>5. CASE bad = {}
  <2>1. \A i \in 1..Len(ops) : ~Twice(i)
    BY <1>1, <1>5
  <2>2. KeysApart(ops)
    BY <2>1 DEF KeysApart
  <2> QED BY <1>4, <1>5, <2>2
<1>6. CASE bad # {}
  <2>2. m \in bad
    BY <1>2, <1>3, <1>6, FirstIn
  <2>3. m \in 1..Len(ops) /\ Twice(m)
    BY <1>1, <2>2
  <2> HIDE DEF Twice
  <2>4. v = Bad("DuplicateKey", m)
    BY <1>4, <1>6, <2>3
  <2>5. v.status = "DuplicateKey" /\ v.at = m /\ v # Ok
    BY <2>4 DEF Bad, Ok
  <2> QED BY <2>3, <2>5 DEF Refusal, EntryRefusals
<1> QED BY <1>5, <1>6

\* The checks of create_metadata_store().
LEMMA EntriesVerdictIs ==
    ASSUME NEW ops, Len(ops) \in Nat, NEW policy, NEW v, v = EntriesVerdict(ops, policy)
    PROVE  /\ v = Ok /\ policy = "RejectExactKeys" => KeysApart(ops)
           /\ v # Ok => Refusal(v, ops, EntryRefusals)
<1>1. PICK a : a = InvalidEntries(ops)
  OBVIOUS
<1>2. PICK b : b = TwiceEntries(ops)
  OBVIOUS
<1>3. v = IF a # Ok THEN a ELSE IF policy = "RejectExactKeys" THEN b ELSE Ok
  BY <1>1, <1>2 DEF EntriesVerdict, InvalidEntries, TwiceEntries
<1>4. a # Ok => Refusal(a, ops, EntryRefusals)
  BY <1>1, InvalidVerdictIs
<1>5. (b = Ok => KeysApart(ops)) /\ (b # Ok => Refusal(b, ops, EntryRefusals))
  BY <1>2, TwiceVerdictIs
<1> QED BY <1>3, <1>4, <1>5

-----------------------------------------------------------------------------
(* What edit_metadata_xmp() knows between two operations.                   *)

Views(l) == \A n \in 1..Len(l) : IsView(l[n])

LEMMA ListedViews ==
    ASSUME NEW es, IsSequence(es), NEW l, l = Listed(es)
    PROVE  IsSequence(l) /\ Views(l) /\ Len(l) = Len(es) /\ Len(l) \in Nat
<1>1. IsSequence(l) /\ Len(l) = Len(es) /\ \A n \in 1..Len(es) : l[n] = View(es[n])
  BY ListedIs
<1>2. \A n \in 1..Len(es) : IsView(View(es[n]))
  BY DEF IsView, View
<1> QED BY <1>1, <1>2 DEF Views, IsSequence

\* What is selected goes with the list.
LEMMA SuitsIs ==
    ASSUME NEW st, NEW l, NEW R, StateIs(st, l, R), NEW op, op.scope.root \in R
    PROVE  Suits(st, op) <=> ((op.kind = "Add") <=> (ScopeLive(l, op.scope) = {}))
<1>1. ASSUME NEW i \in 1..Len(st), InScope(op.scope, st[i].key)
      PROVE  ScopeLive(l, op.scope) # {}
  <2>1. PICK n \in RootLive(l, R) : l[n].key = st[i].key
    BY DEF StateIs
  <2>2. InScope(op.scope, l[n].key)
    BY <1>1, <2>1
  <2>3. n \in ScopeLive(l, op.scope)
    BY <2>2, ScopeInRoot
  <2> QED BY <2>3
<1>2. ASSUME NEW n \in ScopeLive(l, op.scope)
      PROVE  \E i \in 1..Len(st) : InScope(op.scope, st[i].key)
  <2>1. n \in RootLive(l, R) /\ InScope(op.scope, l[n].key)
    BY ScopeInRoot
  <2>2. PICK i \in 1..Len(st) : l[n].key = st[i].key
    BY <2>1 DEF StateIs
  <2> QED BY <2>1, <2>2
<1>3. (\A m \in 1..Len(st) : ~InScope(op.scope, st[m].key)) <=> ScopeLive(l, op.scope) = {}
  BY <1>1, <1>2
<1> QED BY <1>3 DEF Suits

\* Every operation by exact key has one of the request that answers for it.
Owned(r, ops, owner) ==
    /\ IsSequence(ops) /\ IsSequence(owner) /\ Len(owner) = Len(ops)
    /\ \A i \in 1..Len(ops) :
          owner[i] \in 1..Len(r.ops) /\ Expanded(r.ops[owner[i]], ops[i])

XmpShape(r, c) ==
    c = [stage |-> "xmp", ops |-> r.ops, next |-> c.next, input |-> c.input,
         state |-> c.state, expanded |-> c.expanded, owner |-> c.owner]

\* The list that the operations so far lead to, and that the call keeps in part.
XmpList(s, r, c, l) ==
    /\ IsSequence(l) /\ Views(l)
    /\ Leads(c.expanded, Listed(s.entries), l)
    /\ AfterFrom(Listed(s.entries), r)[c.next - 1] = {l}
    /\ StateIs(c.state, l, AllRoots(r.ops)) /\ WellFormed(l, AllRoots(r.ops))

XmpIs(s, r, c) ==
    /\ XmpShape(r, c) /\ c.next \in 1..Len(r.ops) + 1 /\ ScopesOk(r.ops)
    /\ XmpRefusal(s, r.ops) = "Ok"
    /\ Owned(r, c.expanded, c.owner) /\ ~(Len(c.expanded) > MaxExpanded)
    /\ \E l : XmpList(s, r, c, l)

\* The call begins knowing what it must.
LEMMA XmpBegins ==
    ASSUME NEW s, IsStore(s), NEW r, IsRequest(r), r.api = "xmp",
           XmpRefusal(s, r.ops) = "Ok", StartVerdict(s, r.ops) = Ok,
           NEW c, c = XmpStart(s, r.ops)
    PROVE  XmpIs(s, r, c)
<1>1. IsSequence(r.ops) /\ Len(r.ops) \in Nat
  BY DEF IsRequest, IsSequence
<1>2. PICK l : l = Listed(s.entries)
  OBVIOUS
<1>3. /\ StateIs(c.state, l, AllRoots(r.ops)) /\ WellFormed(l, AllRoots(r.ops)) /\ ScopesOk(r.ops)
      /\ c.stage = "xmp" /\ c.ops = r.ops /\ c.next = 1 /\ c.expanded = <<>> /\ c.owner = <<>>
  BY <1>1, <1>2, XmpStarts
<1>4. IsSequence(s.entries)
  BY DEF IsStore
<1>5. IsSequence(l) /\ Views(l)
  BY <1>2, <1>4, ListedViews
<1>6. Leads(c.expanded, l, l)
  BY <1>3, LeadsNone
<1>7. AfterFrom(l, r)[0] = {l}
  BY <1>1, AfterFromIs
<1>8. XmpList(s, r, c, l)
  BY <1>2, <1>3, <1>5, <1>6, <1>7 DEF XmpList
<1>9. XmpShape(r, c)
  <2>1. \E st : c = [stage |-> "xmp", ops |-> r.ops, next |-> 1, input |-> 0,
                     state |-> st, expanded |-> <<>>, owner |-> <<>>]
    BY DEF XmpStart
  <2>2. PICK st : c = [stage |-> "xmp", ops |-> r.ops, next |-> 1, input |-> 0,
                       state |-> st, expanded |-> <<>>, owner |-> <<>>]
    BY <2>1
  <2> QED BY <2>2 DEF XmpShape
<1>10. Owned(r, <<>>, <<>>)
  BY DEF Owned, IsSequence
<1>11. ~(Len(<<>>) > MaxExpanded)
  BY XmpEditingAssumption
<1>12. 1 \in 1..Len(r.ops) + 1
  BY <1>1
<1> QED BY <1>3, <1>8, <1>9, <1>10, <1>11, <1>12 DEF XmpIs

\* One owner for all of some operations.
OwnerOf(x, i) == [n \in 1..Len(x) |-> i]

\* One operation on the record.
XmpAdvanced(r, c, op, x, d) ==
    /\ XmpShape(r, d) /\ d.next = c.next + 1 /\ d.state = StateAfter(c, op)
    /\ d.expanded = c.expanded \o x /\ d.owner = c.owner \o OwnerOf(x, c.next)

LEMMA XmpAdvances ==
    ASSUME NEW r, NEW c, XmpShape(r, c), NEW op, NEW d, d = XmpStep(c, op),
           NEW x, x = Expansion(c, op)
    PROVE  XmpAdvanced(r, c, op, x, d)
<1>1. PICK st, ow, ex, inp, m : /\ st = StateAfter(c, op) /\ ex = c.expanded \o x
                                /\ ow = c.owner \o OwnerOf(x, c.next)
                                /\ inp = c.input + Len(op.entries) /\ m = c.next + 1
  OBVIOUS
<1>2. d = [c EXCEPT !.expanded = ex, !.owner = ow, !.state = st, !.input = inp, !.next = m]
  BY <1>1 DEF XmpStep, OwnerOf
<1>3. PICK ops, next, input, state, expanded, owner :
         /\ ops = r.ops /\ next = c.next /\ input = c.input /\ state = c.state
         /\ expanded = c.expanded /\ owner = c.owner
  OBVIOUS
<1>4. c = [stage |-> "xmp", ops |-> ops, next |-> next, input |-> input,
           state |-> state, expanded |-> expanded, owner |-> owner]
  BY <1>3 DEF XmpShape
<1>5. d = [stage |-> "xmp", ops |-> ops, next |-> m, input |-> inp,
           state |-> st, expanded |-> ex, owner |-> ow]
  BY <1>2, <1>4
<1>6. /\ d.next = m /\ d.input = inp /\ d.state = st /\ d.expanded = ex /\ d.owner = ow
      /\ XmpShape(r, d)
  BY <1>3, <1>5 DEF XmpShape
<1> QED BY <1>1, <1>6 DEF XmpAdvanced

LEMMA OwnedMore ==
    ASSUME NEW r, NEW ops, NEW owner, Owned(r, ops, owner), NEW x, IsSequence(x),
           NEW i \in 1..Len(r.ops), \A n \in 1..Len(x) : Expanded(r.ops[i], x[n]),
           NEW y, y = OwnerOf(x, i)
    PROVE  Owned(r, ops \o x, owner \o y) /\ Len(ops \o x) = Len(ops) + Len(x)
<1>1. Len(x) \in Nat
  BY DEF IsSequence
<1>2. y = [n \in 1..Len(x) |-> y[n]]
  BY DEF OwnerOf
<1>3. IsSequence(y) /\ Len(y) = Len(x)
  BY <1>1, <1>2, SequenceMade
<1>4. \A n \in 1..Len(x) : y[n] = i
  BY DEF OwnerOf
<1>5. PICK t, w : t = ops \o x /\ w = owner \o y
  OBVIOUS
<1>6. Joined(ops, x, t)
  BY <1>5, JoinedIs DEF Owned
<1>7. Joined(owner, y, w)
  BY <1>3, <1>5, JoinedIs DEF Owned
<1>8. IsSequence(t) /\ IsSequence(w) /\ Len(t) = Len(ops) + Len(x) /\ Len(w) = Len(t)
  BY <1>3, <1>6, <1>7 DEF Joined, Owned
<1>9. ASSUME NEW n \in 1..Len(t)
      PROVE  w[n] \in 1..Len(r.ops) /\ Expanded(r.ops[w[n]], t[n])
  <2>1. CASE n \in 1..Len(ops)
    <3>1. t[n] = ops[n] /\ w[n] = owner[n]
      BY <1>6, <1>7, <2>1 DEF Joined, Owned
    <3> QED BY <2>1, <3>1 DEF Owned
  <2>2. CASE \E j \in 1..Len(x) : n = Len(ops) + j
    <3>1. PICK j \in 1..Len(x) : n = Len(ops) + j
      BY <2>2
    <3>2. t[n] = x[j]
      BY <1>6, <3>1 DEF Joined
    <3>3. w[n] = y[j]
      BY <1>3, <1>7, <3>1 DEF Joined, Owned
    <3> QED BY <1>4, <3>1, <3>2, <3>3
  <2> QED BY <1>6, <2>1, <2>2 DEF Joined
<1>10. Owned(r, t, w)
  BY <1>8, <1>9 DEF Owned
<1> QED BY <1>5, <1>8, <1>10

Only(S, x) == S = {x}

\* The one list that follows another one.
Follows(l0, r, n, l) == AfterFrom(l0, r)[n] = Lists!Results(r, l, r.ops[n])

LEMMA AfterOnly ==
    ASSUME NEW l0, NEW r, Len(r.ops) \in Nat, NEW n \in 1..Len(r.ops), NEW l,
           Only(AfterFrom(l0, r)[n - 1], l)
    PROVE  Follows(l0, r, n, l)
<1>1. PICK a, b : a = AfterFrom(l0, r)[n - 1] /\ b = AfterFrom(l0, r)[n]
  OBVIOUS
<1>6. a = {l}
  BY <1>1 DEF Only
<1>2. b = UNION {Lists!Results(r, k, r.ops[n]) : k \in a}
  BY <1>1, AfterFromIs
<1>3. {Lists!Results(r, k, r.ops[n]) : k \in {l}} = {Lists!Results(r, l, r.ops[n])}
  OBVIOUS
<1>4. b = UNION {Lists!Results(r, l, r.ops[n])}
  BY <1>2, <1>3, <1>6
<1>5. \A S : UNION {S} = S
  OBVIOUS
<1> QED BY <1>1, <1>4, <1>5 DEF Follows

\* For a call by scope the results are those by scope.
LEMMA ScopeResults ==
    ASSUME NEW r, r.api = "xmp", NEW l, NEW op
    PROVE  Lists!Results(r, l, op) = Lists!ByScope(l, op)
BY DEF Lists!Results

\* The operation that comes next.
LEMMA XmpNext ==
    ASSUME NEW s, NEW r, IsRequest(r), r.api = "xmp", NEW c, XmpIs(s, r, c),
           NEW op, op = c.ops[c.next], c.next <= Len(c.ops)
    PROVE  /\ c.ops = r.ops /\ Len(r.ops) \in Nat /\ c.next \in 1..Len(r.ops)
           /\ op = r.ops[c.next]
           /\ IsOperation("xmp", op) /\ op.scope.root \in AllRoots(r.ops)
           /\ (op.kind = "Remove" => op.entries = <<>>)
           /\ Len(c.state) \in Nat
<1>1. c.ops = r.ops
  BY DEF XmpIs, XmpShape
<1>2. Len(r.ops) \in Nat
  BY DEF IsRequest, IsSequence
<1>3. c.next \in 1..Len(r.ops)
  BY <1>1, <1>2 DEF XmpIs
<1>4. op = r.ops[c.next]
  BY <1>1
<1>5. IsOperation("xmp", op)
  BY <1>3, <1>4 DEF IsRequest
<1>6. op.scope.root \in AllRoots(r.ops)
  BY <1>3, <1>4 DEF AllRoots, Roots
<1>7. ScopeStatus(r.ops, c.next) = "Ok"
  BY <1>3 DEF XmpIs, ScopesOk
<1>8. op.kind = "Remove" => op.entries = <<>>
  BY <1>4, <1>7 DEF ScopeStatus
<1>9. PICK l : XmpList(s, r, c, l)
  BY DEF XmpIs
<1>10. Len(c.state) \in Nat
  BY <1>9 DEF XmpList, StateIs, IsSequence
<1> QED BY <1>1, <1>2, <1>3, <1>4, <1>5, <1>6, <1>8, <1>10

\* An operation that is not refused.
LEMMA XmpDoes ==
    ASSUME NEW s, NEW r, IsRequest(r), r.api = "xmp", NEW c, XmpIs(s, r, c),
           NEW op, op = c.ops[c.next], c.next <= Len(c.ops), XmpStatus(c, op) = "Ok",
           NEW d, d = XmpStep(c, op)
    PROVE  XmpIs(s, r, d)
<1>1. /\ c.ops = r.ops /\ Len(r.ops) \in Nat /\ c.next \in 1..Len(r.ops) /\ op = r.ops[c.next]
      /\ IsOperation("xmp", op) /\ op.scope.root \in AllRoots(r.ops)
      /\ (op.kind = "Remove" => op.entries = <<>>)
      /\ Len(c.state) \in Nat
  BY XmpNext
<1>2. /\ OpFits(c.state, op)
      /\ ~(Len(c.expanded) + Len(Expansion(c, op)) > MaxExpanded)
  BY <1>1, XmpStatusIs
<1>3. PICK l : XmpList(s, r, c, l)
  BY DEF XmpIs
<1>4. PICK R, l0, g, x, n : /\ R = AllRoots(r.ops) /\ l0 = Listed(s.entries)
                            /\ g = ScopeDone(l, op) /\ x = Expansion(c, op) /\ n = c.next
  OBVIOUS
<1>5. /\ IsSequence(l) /\ (\A i \in 1..Len(l) : IsView(l[i]))
      /\ Leads(c.expanded, l0, l)
      /\ AfterFrom(l0, r)[n - 1] = {l}
      /\ StateIs(c.state, l, R) /\ WellFormed(l, R)
  BY <1>3, <1>4 DEF XmpList, Views
<1>6. op.scope.root \in R
  BY <1>1, <1>4
<1>7. IsSequence(g) /\ Views(g)
  <2>1. Proposals(op)
    BY <1>2 DEF OpFits
  <2> QED BY <1>4, <1>5, <2>1, DoneViews DEF Views
<1>8. IsSequence(x) /\ Leads(x, l, g)
  BY <1>2, <1>4, <1>5, <1>6, ExpansionLeads
<1>9. \A i \in 1..Len(x) : Expanded(op, x[i])
  BY <1>2, <1>4, <1>5, <1>6, ExpansionFits
<1>10. WellFormed(g, R)
  BY <1>2, <1>4, <1>5, <1>6, DoneWell
<1>11. StateIs(StateAfter(c, op), g, R)
  BY <1>2, <1>4, <1>5, <1>6, StateDone
<1>12. Owned(r, c.expanded, c.owner) /\ IsSequence(c.expanded)
  BY DEF XmpIs, Owned
<1>13. Leads(c.expanded \o x, l0, g)
  BY <1>5, <1>8, <1>12, LeadsJoin
<1>14. AfterFrom(l0, r)[n] = {g}
  <2>6. n \in 1..Len(r.ops) /\ Len(r.ops) \in Nat /\ Only(AfterFrom(l0, r)[n - 1], l)
    BY <1>1, <1>4, <1>5 DEF Only
  <2>7. Follows(l0, r, n, l)
    BY <2>6, AfterOnly
  <2>1. AfterFrom(l0, r)[n] = Lists!Results(r, l, op)
    BY <1>1, <1>4, <2>7 DEF Follows
  <2>2. Lists!Results(r, l, op) = Lists!ByScope(l, op)
    BY ScopeResults
  <2>3. Suits(c.state, op)
    BY <1>2 DEF OpFits, Suits
  <2>4. (op.kind = "Add") <=> (ScopeLive(l, op.scope) = {})
    <3>1. StateIs(c.state, l, R)
      BY <1>5
    <3>2. Suits(c.state, op) <=> ((op.kind = "Add") <=> (ScopeLive(l, op.scope) = {}))
      BY <1>6, <3>1, SuitsIs
    <3> QED BY <2>3, <3>2
  <2>5. Lists!ByScope(l, op) = {g}
    BY <1>4, <2>4, ByScopeDone
  <2> QED BY <2>1, <2>2, <2>5
<1>15. XmpShape(r, c)
  BY DEF XmpIs
<1>16. PICK y : y = OwnerOf(x, c.next)
  OBVIOUS
<1>17. /\ XmpShape(r, d) /\ d.next = c.next + 1 /\ d.state = StateAfter(c, op)
       /\ d.expanded = c.expanded \o x /\ d.owner = c.owner \o y
  <2>1. XmpAdvanced(r, c, op, x, d)
    BY <1>4, <1>15, XmpAdvances
  <2> QED BY <1>16, <2>1 DEF XmpAdvanced
<1>18. \A i \in 1..Len(x) : Expanded(r.ops[n], x[i])
  BY <1>1, <1>4, <1>9
<1>19. n \in 1..Len(r.ops)
  BY <1>1, <1>4
<1>24. y = OwnerOf(x, n)
  BY <1>4, <1>16
<1>20. Owned(r, c.expanded \o x, c.owner \o y) /\ Len(c.expanded \o x) = Len(c.expanded) + Len(x)
  BY <1>8, <1>12, <1>18, <1>19, <1>24, OwnedMore
<1>21. d.next \in 1..Len(r.ops) + 1 /\ d.next - 1 = n
  BY <1>1, <1>4, <1>17
<1>22. XmpList(s, r, d, g)
  BY <1>4, <1>7, <1>10, <1>11, <1>13, <1>14, <1>17, <1>21 DEF XmpList
<1>23. ~(Len(d.expanded) > MaxExpanded)
  BY <1>2, <1>4, <1>17, <1>20
<1> QED BY <1>17, <1>20, <1>21, <1>22, <1>23 DEF XmpIs

\* An operation that is refused for what the scope holds leads nowhere.
LEMMA XmpMisses ==
    ASSUME NEW s, NEW r, IsRequest(r), r.api = "xmp", NEW c, XmpIs(s, r, c),
           NEW op, op = c.ops[c.next], c.next <= Len(c.ops),
           XmpStatus(c, op) \notin {"Ok"} \cup ContentRefusals
    PROVE  /\ AfterFrom(Listed(s.entries), r)[c.next - 1] # {}
           /\ AfterFrom(Listed(s.entries), r)[c.next] = {}
<1>1. /\ c.ops = r.ops /\ Len(r.ops) \in Nat /\ c.next \in 1..Len(r.ops) /\ op = r.ops[c.next]
      /\ IsOperation("xmp", op) /\ op.scope.root \in AllRoots(r.ops)
      /\ (op.kind = "Remove" => op.entries = <<>>)
      /\ Len(c.state) \in Nat
  BY XmpNext
<1>2. ~Suits(c.state, op)
  BY <1>1, XmpStatusIs
<1>3. PICK l : XmpList(s, r, c, l)
  BY DEF XmpIs
<1>4. PICK R, l0, n : /\ R = AllRoots(r.ops) /\ l0 = Listed(s.entries) /\ n = c.next
  OBVIOUS
<1>5. AfterFrom(l0, r)[n - 1] = {l} /\ StateIs(c.state, l, R)
  BY <1>3, <1>4 DEF XmpList
<1>6. ~((op.kind = "Add") <=> (ScopeLive(l, op.scope) = {}))
  BY <1>1, <1>2, <1>4, <1>5, SuitsIs
<1>7. Lists!ByScope(l, op) = {}
  BY <1>6, ByScopeNone
<1>11. n \in 1..Len(r.ops) /\ Len(r.ops) \in Nat /\ Only(AfterFrom(l0, r)[n - 1], l)
  BY <1>1, <1>4, <1>5 DEF Only
<1>12. Follows(l0, r, n, l)
  BY <1>11, AfterOnly
<1>8. AfterFrom(l0, r)[n] = Lists!Results(r, l, op)
  BY <1>1, <1>4, <1>12 DEF Follows
<1>9. Lists!Results(r, l, op) = Lists!ByScope(l, op)
  BY ScopeResults
<1>10. AfterFrom(l0, r)[n] = {} /\ AfterFrom(l0, r)[n - 1] # {}
  BY <1>5, <1>7, <1>8, <1>9
<1> QED BY <1>4, <1>10

-----------------------------------------------------------------------------
(* What edit_metadata_typed() knows between two operations.                 *)

\* A custom root with entries has its declaration.
DeclaredIn(l, R) ==
    \A root \in Customs \cap R :
        (\E n \in RootLive(l, R) : l[n].key.root = root) =>
            \E n \in RootLive(l, R) : l[n].key = Key(root, 0, NoLeaf) /\ l[n].wire = Form

RootsGood(l, ops) == WellFormed(l, AllRoots(ops)) /\ DeclaredIn(l, AllRoots(ops))

LEMMA DeclaredAll ==
    ASSUME NEW c, NEW l, NEW R, R = AllRoots(c.ops), StateIs(c.state, l, R), Undeclared(c) = {}
    PROVE  DeclaredIn(l, R)
<1>1. ASSUME NEW root \in Customs \cap R, NEW n \in RootLive(l, R), l[n].key.root = root
      PROVE  \E m \in RootLive(l, R) : l[m].key = Key(root, 0, NoLeaf) /\ l[m].wire = Form
  <2>1. PICK i \in 1..Len(c.state) : l[n].key = c.state[i].key
    BY DEF StateIs
  <2>2. c.state[i].key.root = root
    BY <1>1, <2>1
  <2>3. root \in Customs \cap Roots(c.ops, Len(c.ops))
    BY DEF AllRoots
  <2>4. Declared(c, root)
    BY <2>2, <2>3 DEF Undeclared
  <2>5. PICK j \in 1..Len(c.state) : c.state[j] = [key |-> Key(root, 0, NoLeaf), wire |-> Form]
    BY <2>4 DEF Declared
  <2>6. PICK k : k = Key(root, 0, NoLeaf)
    OBVIOUS
  <2>7. c.state[j].key = k /\ c.state[j].wire = Form
    BY <2>5, <2>6
  <2>8. PICK m \in RootLive(l, R) : l[m].key = c.state[j].key /\ l[m].wire = c.state[j].wire
    BY DEF StateIs
  <2> QED BY <2>6, <2>7, <2>8
<1> QED BY <1>1 DEF DeclaredIn

\* For every operation by exact key the one of the request that answers for it.
About(r, i, key) == IF r.api = "xmp" THEN InScope(r.ops[i].scope, key) ELSE r.ops[i].key = key

Answering(r, ops, owner) ==
    \A i \in 1..Len(ops) : owner[i] \in 1..Len(r.ops) /\ About(r, owner[i], ops[i].key)

\* The lists that the operations for a request by scope lead to.
XmpRun(s, r, ops, h) ==
    /\ h[0] = Listed(s.entries) /\ IsRun(ops, h)
    /\ Only(AfterFrom(Listed(s.entries), r)[Len(r.ops)], h[Len(ops)])
    /\ RootsGood(h[Len(ops)], r.ops)

TypedFor(s, r, c, es) ==
    /\ c.ops = r.ops /\ c.policy = r.policy
    /\ \A i \in 1..Len(c.ops) : c.owner[i] = i
    /\ Only(AfterFrom(Listed(s.entries), r)[c.next - 1], Listed(es))

XmpFor(s, r, c, es) ==
    /\ c.policy = "FailIfPresent"
    /\ \E h : XmpRun(s, r, c.ops, h) /\ h[c.next - 1] = Listed(es)

TypedCall(s, r, c, es) ==
    /\ TypedIs(s, c, es) /\ IsSequence(c.ops) /\ c.next \in 1..Len(c.ops) + 1
    /\ \A i \in 1..Len(c.ops) : KeyOp(c.ops[i])
    /\ c.policy \in {"FailIfPresent", "Append"}
    /\ Answering(r, c.ops, c.owner)
    /\ r.api \in {"typed", "xmp"}
    /\ r.api = "typed" => TypedFor(s, r, c, es)
    /\ r.api = "xmp" => XmpFor(s, r, c, es)

\* A call by the host enters with one operation for each of its own.
LEMMA TypedEnters ==
    ASSUME NEW s, IsStore(s), NEW r, IsRequest(r), r.api = "typed",
           NEW owner, owner = [i \in 1..Len(r.ops) |-> i], NEW max, NEW c,
           c = TypedStart(s, r.ops, owner, max, r.policy)
    PROVE  TypedCall(s, r, c, s.entries)
<1>1. IsSequence(r.ops) /\ Len(r.ops) \in Nat
  BY DEF IsRequest, IsSequence
<1>2. /\ TypedIs(s, c, s.entries) /\ c.ops = r.ops /\ c.next = 1 /\ c.owner = owner
      /\ c.policy = r.policy
  BY TypedStarts
<1>3. ASSUME NEW i \in 1..Len(r.ops) PROVE KeyOp(r.ops[i])
  <2>1. IsOperation("typed", r.ops[i])
    BY DEF IsRequest
  <2> QED BY <2>1 DEF IsOperation, KeyOp
<1>4. r.policy \in {"FailIfPresent", "Append"}
  BY DEF IsRequest
<1>5. \A i \in 1..Len(r.ops) : owner[i] = i
  OBVIOUS
<1>6. Answering(r, r.ops, owner)
  BY <1>5 DEF Answering, About
<1>7. AfterFrom(Listed(s.entries), r)[0] = {Listed(s.entries)}
  BY <1>1, AfterFromIs
<1>8. Only(AfterFrom(Listed(s.entries), r)[c.next - 1], Listed(s.entries))
  BY <1>2, <1>7 DEF Only
<1>9. TypedFor(s, r, c, s.entries)
  BY <1>2, <1>5, <1>8 DEF TypedFor
<1>10. c.next \in 1..Len(c.ops) + 1
  BY <1>1, <1>2
<1> QED BY <1>1, <1>2, <1>3, <1>4, <1>6, <1>9, <1>10 DEF TypedCall

\* A call by edit_metadata_xmp() enters with the operations that it was expanded to.
LEMMA XmpEnters ==
    ASSUME NEW s, IsStore(s), NEW r, IsRequest(r), r.api = "xmp", NEW x, XmpIs(s, r, x),
           ~(x.next <= Len(x.ops)), EndVerdict(x) = Ok, NEW max, NEW c,
           c = TypedStart(s, x.expanded, x.owner, max, "FailIfPresent")
    PROVE  TypedCall(s, r, c, s.entries)
<1>1. IsSequence(r.ops) /\ Len(r.ops) \in Nat
  BY DEF IsRequest, IsSequence
<1>2. /\ TypedIs(s, c, s.entries) /\ c.ops = x.expanded /\ c.next = 1 /\ c.owner = x.owner
      /\ c.policy = "FailIfPresent"
  BY TypedStarts
<1>3. PICK ops, owner : ops = x.expanded /\ owner = x.owner
  OBVIOUS
<1>4. Owned(r, ops, owner)
  BY <1>3 DEF XmpIs
<1>5. IsSequence(ops) /\ Len(ops) \in Nat
  BY <1>4 DEF Owned, IsSequence
<1>6. ASSUME NEW i \in 1..Len(ops)
      PROVE  KeyOp(ops[i]) /\ owner[i] \in 1..Len(r.ops) /\ About(r, owner[i], ops[i].key)
  <2>1. owner[i] \in 1..Len(r.ops) /\ Expanded(r.ops[owner[i]], ops[i])
    BY <1>4 DEF Owned
  <2> QED BY <2>1 DEF Expanded, About
<1>7. Answering(r, ops, owner)
  BY <1>6 DEF Answering
<1>8. x.ops = r.ops
  BY DEF XmpIs, XmpShape
<1>9. x.next - 1 = Len(r.ops)
  BY <1>1, <1>8 DEF XmpIs
<1>10. PICK l : XmpList(s, r, x, l)
  BY DEF XmpIs
<1>11. PICK R, l0 : R = AllRoots(r.ops) /\ l0 = Listed(s.entries)
  OBVIOUS
<1>12. /\ Leads(ops, l0, l) /\ AfterFrom(l0, r)[Len(r.ops)] = {l}
       /\ StateIs(x.state, l, R) /\ WellFormed(l, R)
  BY <1>3, <1>9, <1>10, <1>11 DEF XmpList
<1>13. Undeclared(x) = {}
  BY <1>1, <1>8, EndVerdictIs
<1>14. DeclaredIn(l, R)
  BY <1>8, <1>11, <1>12, <1>13, DeclaredAll
<1>15. RootsGood(l, r.ops)
  BY <1>11, <1>12, <1>14 DEF RootsGood
<1>16. PICK h : h[0] = l0 /\ h[Len(ops)] = l /\ IsRun(ops, h)
  BY <1>12 DEF Leads
<1>17. XmpRun(s, r, ops, h)
  BY <1>11, <1>12, <1>15, <1>16 DEF XmpRun, Only
<1>18. XmpFor(s, r, c, s.entries)
  <2>1. h[c.next - 1] = Listed(s.entries)
    BY <1>2, <1>11, <1>16
  <2> QED BY <1>2, <1>3, <1>17, <2>1 DEF XmpFor
<1>19. c.next \in 1..Len(c.ops) + 1
  BY <1>2, <1>3, <1>5
<1> QED BY <1>2, <1>3, <1>5, <1>6, <1>7, <1>18, <1>19 DEF TypedCall

\* For a call by exact key the results are those by key.
LEMMA KeyResults ==
    ASSUME NEW r, r.api = "typed", NEW l, NEW op
    PROVE  Lists!Results(r, l, op) = Lists!ByKey(l, op, r.policy)
BY DEF Lists!Results

\* The operation that comes next.
LEMMA TypedNext ==
    ASSUME NEW s, NEW r, NEW c, NEW es, TypedCall(s, r, c, es), c.next <= Len(c.ops),
           NEW op, op = c.ops[c.next]
    PROVE  /\ TypedIs(s, c, es) /\ c.next \in 1..Len(c.ops) /\ KeyOp(op)
           /\ c.policy \in {"FailIfPresent", "Append"} /\ Len(c.ops) \in Nat
<1>1. Len(c.ops) \in Nat
  BY DEF TypedCall, IsSequence
<1>2. c.next \in 1..Len(c.ops)
  BY <1>1 DEF TypedCall
<1>3. KeyOp(op)
  BY <1>2 DEF TypedCall
<1> QED BY <1>1, <1>2, <1>3 DEF TypedCall

\* An operation done leads on, for the host's call and for the inner one.
LEMMA TypedForDoes ==
    ASSUME NEW s, NEW r, Len(r.ops) \in Nat, r.api = "typed", NEW c, NEW es,
           TypedFor(s, r, c, es), c.next \in 1..Len(c.ops), NEW d, TypedKept(c, d), NEW fs,
           Lists!ByKey(Listed(es), c.ops[c.next], c.policy) = {Listed(fs)}
    PROVE  TypedFor(s, r, d, fs)
<1>1. PICK l0, n, l : l0 = Listed(s.entries) /\ n = c.next /\ l = Listed(es)
  OBVIOUS
<1>2. c.ops = r.ops /\ c.policy = r.policy
  BY DEF TypedFor
<1>3. n \in 1..Len(r.ops) /\ Only(AfterFrom(l0, r)[n - 1], l)
  BY <1>1, <1>2 DEF TypedFor
<1>4. Follows(l0, r, n, l)
  BY <1>3, AfterOnly
<1>5. Lists!Results(r, l, r.ops[n]) = Lists!ByKey(l, r.ops[n], r.policy)
  BY KeyResults
<1>6. AfterFrom(l0, r)[n] = Lists!ByKey(l, r.ops[n], r.policy)
  BY <1>4, <1>5 DEF Follows
<1>7. AfterFrom(l0, r)[n] = {Listed(fs)}
  BY <1>1, <1>2, <1>6
<1>8. /\ d.ops = c.ops /\ d.policy = c.policy /\ d.owner = c.owner /\ d.next = n + 1
  BY <1>1 DEF TypedKept
<1>9. d.next - 1 = n
  BY <1>3, <1>8
<1>10. Only(AfterFrom(l0, r)[d.next - 1], Listed(fs))
  BY <1>7, <1>9 DEF Only
<1>11. \A i \in 1..Len(d.ops) : d.owner[i] = i
  BY <1>8 DEF TypedFor
<1> QED BY <1>1, <1>2, <1>8, <1>10, <1>11 DEF TypedFor

LEMMA XmpForDoes ==
    ASSUME NEW s, NEW r, NEW c, NEW es, XmpFor(s, r, c, es), Len(c.ops) \in Nat,
           c.next \in 1..Len(c.ops), NEW d, TypedKept(c, d), NEW fs,
           Lists!ByKey(Listed(es), c.ops[c.next], c.policy) = {Listed(fs)}
    PROVE  XmpFor(s, r, d, fs)
<1>1. PICK h : XmpRun(s, r, c.ops, h) /\ h[c.next - 1] = Listed(es)
  BY DEF XmpFor
<1>2. PICK n, ops : n = c.next /\ ops = c.ops
  OBVIOUS
<1>3. Lists!ByKey(h[n - 1], ops[n], "FailIfPresent") = {h[n]}
  BY <1>1, <1>2 DEF XmpRun, IsRun
<1>4. Lists!ByKey(h[n - 1], ops[n], "FailIfPresent") = {Listed(fs)}
  BY <1>1, <1>2 DEF XmpFor
<1>5. h[n] = Listed(fs)
  BY <1>3, <1>4
<1>6. d.ops = ops /\ d.policy = c.policy /\ d.next = n + 1
  BY <1>2 DEF TypedKept
<1>7. d.next - 1 = n
  BY <1>2, <1>6
<1>8. XmpRun(s, r, d.ops, h) /\ h[d.next - 1] = Listed(fs)
  BY <1>1, <1>2, <1>5, <1>6, <1>7
<1> QED BY <1>6, <1>8 DEF XmpFor

\* Every operation by exact key that is not refused keeps what the call knows.
LEMMA TypedCallDoes ==
    ASSUME NEW s, IsStore(s), NEW r, IsRequest(r), NEW c, NEW es, TypedCall(s, r, c, es),
           c.next <= Len(c.ops), NEW op, op = c.ops[c.next], TypedError(c, op) = "Ok",
           NEW d, d = TypedStep(c)
    PROVE  \E fs : TypedCall(s, r, d, fs)
<1>1. /\ TypedIs(s, c, es) /\ c.next \in 1..Len(c.ops) /\ KeyOp(op)
      /\ c.policy \in {"FailIfPresent", "Append"} /\ Len(c.ops) \in Nat
  BY TypedNext
<1>2. TypedGoes(s, c, es, op, d)
  BY <1>1, TypedDoes
<1>3. PICK fs : TypedIs(s, d, fs) /\ Lists!ByKey(Listed(es), op, c.policy) = {Listed(fs)}
  BY <1>2 DEF TypedGoes
<1>4. TypedKept(c, d)
  BY <1>2 DEF TypedGoes
<1>5. d.ops = c.ops /\ d.owner = c.owner /\ d.policy = c.policy /\ d.next = c.next + 1
  BY <1>4 DEF TypedKept
<1>6. d.next \in 1..Len(d.ops) + 1
  BY <1>1, <1>5
<1>7. Len(r.ops) \in Nat
  BY DEF IsRequest, IsSequence
<1>8. ASSUME r.api = "typed" PROVE TypedFor(s, r, d, fs)
  <2>1. TypedFor(s, r, c, es)
    BY <1>8 DEF TypedCall
  <2>2. Lists!ByKey(Listed(es), c.ops[c.next], c.policy) = {Listed(fs)}
    BY <1>3
  <2> QED BY <1>1, <1>4, <1>7, <1>8, <2>1, <2>2, TypedForDoes
<1>9. ASSUME r.api = "xmp" PROVE XmpFor(s, r, d, fs)
  <2>1. XmpFor(s, r, c, es)
    BY <1>9 DEF TypedCall
  <2>2. Lists!ByKey(Listed(es), c.ops[c.next], c.policy) = {Listed(fs)}
    BY <1>3
  <2> QED BY <1>1, <1>4, <2>1, <2>2, XmpForDoes
<1>10. Answering(r, d.ops, d.owner)
  BY <1>5 DEF TypedCall
<1>11. TypedCall(s, r, d, fs)
  BY <1>3, <1>5, <1>6, <1>8, <1>9, <1>10 DEF TypedCall
<1> QED BY <1>11

\* Only the host's own call misses a target, and then no list follows.
LEMMA TypedCallMisses ==
    ASSUME NEW s, IsStore(s), NEW r, IsRequest(r), NEW c, NEW es, TypedCall(s, r, c, es),
           c.next <= Len(c.ops), NEW op, op = c.ops[c.next],
           TypedError(c, op) \notin {"Ok", "LimitExceeded"}
    PROVE  /\ r.api = "typed" /\ c.ops = r.ops /\ c.owner[c.next] = c.next
           /\ AfterFrom(Listed(s.entries), r)[c.next - 1] # {}
           /\ AfterFrom(Listed(s.entries), r)[c.next] = {}
<1>1. /\ TypedIs(s, c, es) /\ c.next \in 1..Len(c.ops) /\ KeyOp(op)
      /\ c.policy \in {"FailIfPresent", "Append"} /\ Len(c.ops) \in Nat
  BY TypedNext
<1>2. Lists!ByKey(Listed(es), op, c.policy) = {}
  BY <1>1, TypedMisses
<1>3. PICK l0, n, l : l0 = Listed(s.entries) /\ n = c.next /\ l = Listed(es)
  OBVIOUS
<1>4. r.api = "typed"
  <2>1. SUFFICES ASSUME r.api = "xmp" PROVE FALSE
    BY DEF TypedCall
  <2>2. XmpFor(s, r, c, es)
    BY <2>1 DEF TypedCall
  <2>3. PICK h : XmpRun(s, r, c.ops, h) /\ h[c.next - 1] = Listed(es)
    BY <2>2 DEF XmpFor
  <2>4. Lists!ByKey(h[n - 1], c.ops[n], "FailIfPresent") = {h[n]}
    BY <1>1, <1>3, <2>3 DEF XmpRun, IsRun
  <2>5. c.policy = "FailIfPresent"
    BY <2>2 DEF XmpFor
  <2> QED BY <1>2, <1>3, <2>3, <2>4, <2>5
<1>5. TypedFor(s, r, c, es)
  BY <1>4 DEF TypedCall
<1>6. c.ops = r.ops /\ c.policy = r.policy /\ c.owner[c.next] = c.next
  BY <1>1, <1>5 DEF TypedFor
<1>7. n \in 1..Len(r.ops) /\ Only(AfterFrom(l0, r)[n - 1], l) /\ Len(r.ops) \in Nat
  BY <1>1, <1>3, <1>5, <1>6 DEF TypedFor
<1>8. Follows(l0, r, n, l)
  BY <1>7, AfterOnly
<1>9. Lists!Results(r, l, r.ops[n]) = Lists!ByKey(l, r.ops[n], r.policy)
  BY <1>4, KeyResults
<1>10. AfterFrom(l0, r)[n] = {}
  BY <1>2, <1>3, <1>6, <1>8, <1>9 DEF Follows
<1>11. AfterFrom(l0, r)[n - 1] # {}
  BY <1>7 DEF Only
<1> QED BY <1>3, <1>4, <1>6, <1>10, <1>11

\* After the last operation the entries are one of the lists promised.
LEMMA TypedCallEnds ==
    ASSUME NEW s, NEW r, IsRequest(r), NEW c, NEW es, TypedCall(s, r, c, es),
           ~(c.next <= Len(c.ops))
    PROVE  /\ Listed(es) \in AfterFrom(Listed(s.entries), r)[Len(r.ops)]
           /\ r.api = "xmp" => RootsGood(Listed(es), r.ops)
<1>1. Len(c.ops) \in Nat /\ c.next \in 1..Len(c.ops) + 1
  BY DEF TypedCall, IsSequence
<1>2. c.next - 1 = Len(c.ops)
  BY <1>1
<1>3. CASE r.api = "typed"
  <2>1. TypedFor(s, r, c, es)
    BY <1>3 DEF TypedCall
  <2> QED BY <1>2, <1>3, <2>1 DEF TypedFor, Only
<1>4. CASE r.api = "xmp"
  <2>1. XmpFor(s, r, c, es)
    BY <1>4 DEF TypedCall
  <2>2. PICK h : XmpRun(s, r, c.ops, h) /\ h[c.next - 1] = Listed(es)
    BY <2>1 DEF XmpFor
  <2> QED BY <1>2, <2>2 DEF XmpRun, Only
<1> QED BY <1>3, <1>4 DEF TypedCall

-----------------------------------------------------------------------------
(* What edit_metadata() knows between two operations.                       *)

LogicalCall(s, r, c, es) ==
    /\ LogicalIs(s, c, es) /\ c.ops = r.ops /\ r.api = "logical"
    /\ c.next \in 1..Len(r.ops) + 1
    /\ Reached(r, Listed(s.entries), c.next - 1, Listed(es))

\* The call begins knowing what it must.
LEMMA LogicalEnters ==
    ASSUME NEW s, IsStore(s), NEW r, IsRequest(r), r.api = "logical", NEW c,
           c = LogicalStart(s, r.ops)
    PROVE  LogicalCall(s, r, c, s.entries)
<1>1. Len(r.ops) \in Nat
  BY DEF IsRequest, IsSequence
<1>2. LogicalIs(s, c, s.entries) /\ c.ops = r.ops /\ c.next = 1
  BY LogicalStarts
<1>3. IsSequence(s.entries)
  BY DEF IsStore
<1>4. Reached(r, Listed(s.entries), 0, Listed(s.entries))
  BY <1>1, <1>3, ReachedStart
<1>5. c.next - 1 = 0 /\ c.next \in 1..Len(r.ops) + 1
  BY <1>1, <1>2
<1> QED BY <1>2, <1>4, <1>5 DEF LogicalCall

\* The operation that comes next.
LogicalUp(s, r, c, es, op) ==
    /\ LogicalIs(s, c, es) /\ IsOperation("logical", op) /\ c.next \in 1..Len(r.ops)
    /\ Len(r.ops) \in Nat /\ r.ops[c.next] = op /\ r.api = "logical"
    /\ Reached(r, Listed(s.entries), c.next - 1, Listed(es))

\* It is one of the request.
LEMMA LogicalNext ==
    ASSUME NEW s, NEW r, IsRequest(r), NEW c, NEW es, LogicalCall(s, r, c, es),
           c.next <= Len(c.ops), NEW op, op = c.ops[c.next]
    PROVE  LogicalUp(s, r, c, es, op)
<1>1. Len(r.ops) \in Nat
  BY DEF IsRequest, IsSequence
<1>2. c.ops = r.ops /\ c.next \in 1..Len(r.ops)
  BY <1>1 DEF LogicalCall
<1>3. IsOperation("logical", r.ops[c.next])
  BY <1>2 DEF IsRequest, LogicalCall
<1> QED BY <1>1, <1>2, <1>3 DEF LogicalCall, LogicalUp

\* An operation that is not refused keeps what the call knows.
LEMMA LogicalCallDoes ==
    ASSUME NEW s, IsStore(s), NEW r, IsRequest(r), NEW c, NEW es, LogicalCall(s, r, c, es),
           c.next <= Len(c.ops), NEW op, op = c.ops[c.next], LogicalError(s, c, op) = "Ok",
           NEW d, d = LogicalStep(s, c)
    PROVE  \E fs : LogicalCall(s, r, d, fs)
<1>1. /\ LogicalIs(s, c, es) /\ IsOperation("logical", op) /\ c.next \in 1..Len(r.ops)
      /\ Len(r.ops) \in Nat /\ r.ops[c.next] = op /\ r.api = "logical"
      /\ Reached(r, Listed(s.entries), c.next - 1, Listed(es))
  <2>1. LogicalUp(s, r, c, es, op)
    BY LogicalNext
  <2> QED BY <2>1 DEF LogicalUp
<1>2. /\ d.ops = c.ops /\ d.next = c.next + 1
      /\ \E fs : LogicalIs(s, d, fs) /\ Listed(fs) \in Lists!ByField(Listed(es), op)
  BY <1>1, LogicalDoes
<1>3. PICK fs : LogicalIs(s, d, fs) /\ Listed(fs) \in Lists!ByField(Listed(es), op)
  BY <1>2
<1>4. PICK n, l0, l, m : /\ n = c.next /\ l0 = Listed(s.entries) /\ l = Listed(es)
                         /\ m = Listed(fs)
  OBVIOUS
<1>5. /\ n \in 1..Len(r.ops) /\ Reached(r, l0, n - 1, l) /\ IsOperation("logical", r.ops[n])
      /\ m \in Lists!ByField(l, r.ops[n])
  BY <1>1, <1>3, <1>4
<1>6. Reached(r, l0, n, m)
  BY <1>1, <1>5, ReachedStep
<1>7. d.next - 1 = n /\ d.next \in 1..Len(r.ops) + 1
  BY <1>1, <1>2, <1>4
<1>8. d.ops = r.ops
  BY <1>2 DEF LogicalCall
<1>9. LogicalCall(s, r, d, fs)
  BY <1>1, <1>3, <1>4, <1>6, <1>7, <1>8 DEF LogicalCall
<1> QED BY <1>9

\* An operation refused for its target leads nowhere, but for the one exception.
LEMMA LogicalCallMisses ==
    ASSUME NEW s, IsStore(s), NEW r, IsRequest(r), NEW c, NEW es, LogicalCall(s, r, c, es),
           c.next <= Len(c.ops), NEW op, op = c.ops[c.next],
           LogicalError(s, c, op) \in Lists!NoTarget
    PROVE  /\ c.next \in 1..Len(r.ops)
           /\ AfterFrom(Listed(s.entries), r)[c.next - 1] # {}
           /\ \/ AfterFrom(Listed(s.entries), r)[c.next] = {}
              \/ Lists!Unheeded(r, c.next, LogicalError(s, c, op))
<1>1. /\ LogicalIs(s, c, es) /\ IsOperation("logical", op) /\ c.next \in 1..Len(r.ops)
      /\ Len(r.ops) \in Nat /\ r.ops[c.next] = op /\ r.api = "logical"
      /\ Reached(r, Listed(s.entries), c.next - 1, Listed(es))
  <2>1. LogicalUp(s, r, c, es, op)
    BY LogicalNext
  <2> QED BY <2>1 DEF LogicalUp
<1>3. PICK n, l0, l : n = c.next /\ l0 = Listed(s.entries) /\ l = Listed(es)
  OBVIOUS
<1>4. n \in 1..Len(r.ops) /\ Reached(r, l0, n - 1, l) /\ IsOperation("logical", r.ops[n])
  BY <1>1, <1>3
<1>5. ASSUME op.kind = "Add" => op.occurrence = 0
      PROVE  AfterFrom(l0, r)[n] = {}
  <2>1. ~FieldApplies(Listed(es), op)
    BY <1>1, <1>5, LogicalMisses
  <2>2. ~FieldApplies(l, r.ops[n])
    BY <1>1, <1>3, <2>1
  <2> QED BY <1>1, <1>4, <2>2, ReachedNone
<1>6. ASSUME ~(op.kind = "Add" => op.occurrence = 0)
      PROVE  Lists!Unheeded(r, c.next, LogicalError(s, c, op))
  <2>1. op.kind = "Add" /\ op.occurrence # 0
    BY <1>6
  <2>2. LogicalError(s, c, op) = "InvalidOccurrence"
    BY <2>1 DEF LogicalError, LogicalAddError
  <2> QED BY <1>1, <2>1, <2>2 DEF Lists!Unheeded
<1>7. AfterFrom(l0, r)[n - 1] # {}
  BY <1>4 DEF Reached
<1>8. \/ AfterFrom(Listed(s.entries), r)[c.next] = {}
      \/ Lists!Unheeded(r, c.next, LogicalError(s, c, op))
  BY <1>3, <1>5, <1>6
<1> QED BY <1>1, <1>3, <1>7, <1>8

\* After the last operation the entries are one of the lists promised.
LEMMA LogicalCallEnds ==
    ASSUME NEW s, NEW r, IsRequest(r), NEW c, NEW es, LogicalCall(s, r, c, es),
           ~(c.next <= Len(c.ops))
    PROVE  Listed(es) \in AfterFrom(Listed(s.entries), r)[Len(r.ops)]
<1>1. Len(r.ops) \in Nat
  BY DEF IsRequest, IsSequence
<1>2. c.next - 1 = Len(r.ops)
  BY <1>1 DEF LogicalCall
<1> QED BY <1>2 DEF LogicalCall, Reached

\* The entries added come last.
LEMMA LogicalComesLast ==
    ASSUME NEW s, IsStore(s), NEW r, NEW c, NEW es, LogicalCall(s, r, c, es),
           NEW t, t.entries = es, t.blocks = s.blocks
    PROVE  ComeLast(s, t)
<1>1. LogicalIs(s, c, es)
  BY DEF LogicalCall
<1>2. /\ c.block = OriginBlock(s) /\ c.order \in OriginOrder(s)..OrderMax
      /\ InOrder(s, es, c.block, c.order)
      /\ Edited(s, c.edits, es, c.counts.added, c.counts.removed)
  BY <1>1 DEF LogicalIs
<1>3. /\ OriginBlock(s) \in Nat /\ OriginOrder(s) \in 0..OrderMax
      /\ \A m \in LiveXmp(s) :
            s.entries[m].block < s.blocks /\ s.entries[m].block = OriginBlock(s)
            => s.entries[m].order <= OriginOrder(s)
  BY OriginIs
<1>4. Len(s.entries) \in Nat /\ Len(es) \in Nat
  BY <1>2 DEF IsStore, IsSequence, Edited
<1>5. ASSUME NEW n \in Len(s.entries) + 1..Len(es), NEW m \in 1..n - 1,
             es[n].block < s.blocks, es[m].block = es[n].block,
             m > Len(s.entries) \/ m \in LiveXmp(s)
      PROVE  es[m].order <= es[n].order
  <2>1. /\ es[n].block = OriginBlock(s) /\ es[n].order \in OriginOrder(s)..c.order
        /\ \A k \in Len(s.entries) + 1..n - 1 : es[k].order <= es[n].order
    BY <1>2 DEF InOrder
  <2>2. CASE m > Len(s.entries)
    <3>1. m \in Len(s.entries) + 1..n - 1
      BY <1>4, <2>2
    <3> QED BY <2>1, <3>1
  <2>3. CASE m \in LiveXmp(s)
    <3>1. m \in 1..Len(s.entries)
      BY <2>3 DEF LiveXmp
    <3>2. es[m].block = s.entries[m].block /\ es[m].order = s.entries[m].order
      BY <1>2, <3>1 DEF Edited
    <3>3. s.entries[m].order <= OriginOrder(s)
      BY <1>3, <1>5, <2>1, <2>3, <3>2
    <3>4. s.entries[m].order \in Nat
      <4>1. IsEntry(s.entries[m])
        BY <3>1 DEF IsStore
      <4>2. s.entries[m].order \in 0..OrderMax
        BY <4>1 DEF IsEntry
      <4> QED BY <4>2, EditingAssumption
    <3>5. OriginOrder(s) \in Nat /\ es[n].order \in Int /\ OriginOrder(s) <= es[n].order
      BY <1>3, <2>1
    <3> QED BY <3>2, <3>3, <3>4, <3>5
  <2> QED BY <1>5, <2>2, <2>3
<1> QED BY <1>5 DEF ComeLast

-----------------------------------------------------------------------------
(* New stores.                                                              *)

\* What a new store promises.
MadeOf(r, t) ==
    /\ Len(Listed(t.entries)) = Len(r.ops)
    /\ \A n \in 1..Len(r.ops) :
          IF r.api = "entries"
          THEN Listed(t.entries)[n] = Lists!Entry(r.ops[n].key, r.ops[n].value, r.ops[n].wire)
          ELSE /\ Listed(t.entries)[n] =
                     Lists!Entry(Listed(t.entries)[n].key, r.ops[n].value, "none")
               /\ Lists!OfField(r.ops[n].field, Listed(t.entries)[n].key)
    /\ r.api = "fields" \/ r.policy = "RejectExactKeys" =>
          \A m, n \in 1..Len(r.ops) :
              m # n => Listed(t.entries)[m].key # Listed(t.entries)[n].key
    /\ Dying(t.entries) = 0

\* A store of some new entries.
NewEntries(es) ==
    /\ IsSequence(es) /\ \A n \in 1..Len(es) : IsEntry(es[n]) /\ ~Deleted(es[n])

\* A new store is a store, and nothing in it is dead.
LEMMA StoreOfIs ==
    ASSUME NEW es, NewEntries(es), NEW t, t = StoreOf(es)
    PROVE  IsStore(t) /\ t.entries = es /\ Dying(es) = 0
<1>1. PICK b : b = IF es = <<>> THEN 0 ELSE 1
  OBVIOUS
<1>2. t = [entries |-> es, blocks |-> b, sealed |-> TRUE, refused |-> FALSE]
  BY <1>1 DEF StoreOf, EmptyStore
<1>3. b \in Nat
  BY <1>1
<1>4. t.entries = es
  BY <1>2
<1>5. IsStore(t)
  BY <1>2, <1>3 DEF IsStore, NewEntries
<1>6. DeadPlaces(es) = {}
  BY DEF DeadPlaces, NewEntries
<1>7. Dying(es) = 0
  BY <1>6, FS_EmptySet DEF Dying
<1> QED BY <1>4, <1>5, <1>7

\* create_metadata_store() keeps its promise.
LEMMA EntriesMade ==
    ASSUME NEW r, IsRequest(r), r.api = "entries", EntriesVerdict(r.ops, r.policy) = Ok,
           NEW t, t = StoreOfEntries(r.ops)
    PROVE  IsStore(t) /\ MadeOf(r, t)
<1>1. Len(r.ops) \in Nat /\ Len(r.ops) <= OrderMax
  BY DEF IsRequest, IsSequence
<1>2. PICK es : es = [i \in 1..Len(r.ops) |-> NewEntry(r.ops[i].key, r.ops[i].value,
                                                      r.ops[i].wire, 0, i - 1)]
  OBVIOUS
<1>3. IsSequence(es) /\ Len(es) = Len(r.ops)
  <2>1. es = [i \in 1..Len(r.ops) |-> es[i]]
    BY <1>2
  <2> QED BY <1>1, <2>1, SequenceMade
<1>4. ASSUME NEW n \in 1..Len(r.ops)
      PROVE  /\ IsEntry(es[n]) /\ ~Deleted(es[n]) /\ es[n].key = r.ops[n].key
             /\ View(es[n]) = Lists!Entry(r.ops[n].key, r.ops[n].value, r.ops[n].wire)
  <2>1. PICK k, v, w, o : k = r.ops[n].key /\ v = r.ops[n].value /\ w = r.ops[n].wire /\ o = n - 1
    OBVIOUS
  <2>2. es[n] = NewEntry(k, v, w, 0, o)
    BY <1>2, <2>1
  <2>3. IsOperation("entries", r.ops[n])
    BY DEF IsRequest
  <2>4. IsKey(k)
    BY <2>1, <2>3 DEF IsOperation, IsProposal
  <2>5. o \in 0..OrderMax /\ 0 \in Nat
    BY <1>1, <2>1, EditingAssumption
  <2> QED BY <2>1, <2>2, <2>4, <2>5, NewIs
<1>5. NewEntries(es)
  BY <1>3, <1>4 DEF NewEntries
<1>6. t = StoreOf(es)
  BY <1>2 DEF StoreOfEntries
<1>7. IsStore(t) /\ t.entries = es /\ Dying(es) = 0
  BY <1>5, <1>6, StoreOfIs
<1>8. PICK l : l = Listed(es)
  OBVIOUS
<1>9. Len(l) = Len(r.ops) /\ \A n \in 1..Len(r.ops) : l[n] = View(es[n])
  BY <1>3, <1>8, ListedIs
<1>10. \A n \in 1..Len(r.ops) : l[n].key = r.ops[n].key
  BY <1>4, <1>9, ViewIs
<1>11. r.policy = "RejectExactKeys" => KeysApart(r.ops)
  BY <1>1, EntriesVerdictIs
<1>12. r.policy = "RejectExactKeys" =>
         \A m, n \in 1..Len(r.ops) : m # n => l[m].key # l[n].key
  BY <1>10, <1>11 DEF KeysApart
<1>13. \A n \in 1..Len(r.ops) :
         l[n] = Lists!Entry(r.ops[n].key, r.ops[n].value, r.ops[n].wire)
  BY <1>4, <1>9
<1> QED BY <1>7, <1>8, <1>9, <1>12, <1>13 DEF MadeOf

-----------------------------------------------------------------------------
\* The fields of one name so far.
SoFar(ops, i) == {j \in 1..i : ops[j].field = ops[i].field}

\* They are counted, and the count of a later one is another.
LEMMA SoFarIs ==
    ASSUME NEW ops, NEW i \in Nat, i > 0
    PROVE  /\ IsFiniteSet(SoFar(ops, i)) /\ Cardinality(SoFar(ops, i)) \in Nat
           /\ Cardinality(SoFar(ops, i)) <= i
<1>1. IsFiniteSet(1..i) /\ Cardinality(1..i) = i
  BY FS_Interval
<1>2. SoFar(ops, i) \in SUBSET (1..i)
  BY DEF SoFar
<1>3. IsFiniteSet(SoFar(ops, i)) /\ Cardinality(SoFar(ops, i)) <= Cardinality(1..i)
  BY <1>1, <1>2, FS_Subset
<1> QED BY <1>1, <1>3, FS_CardinalityType

LEMMA SoFarGrows ==
    ASSUME NEW ops, NEW i \in Nat, i > 0, NEW k \in Nat, i < k, ops[i].field = ops[k].field
    PROVE  Cardinality(SoFar(ops, i)) # Cardinality(SoFar(ops, k))
<1>1. PICK S, T : S = SoFar(ops, i) /\ T = SoFar(ops, k)
  OBVIOUS
<1>2. IsFiniteSet(T)
  BY <1>1, SoFarIs
<1>3. S \in SUBSET T
  BY <1>1 DEF SoFar
<1>4. k \in T /\ k \notin S
  BY <1>1 DEF SoFar
<1>5. Cardinality(T) = Cardinality(S) => T = S
  BY <1>2, <1>3, FS_Subset
<1>6. Cardinality(S) # Cardinality(T)
  BY <1>4, <1>5
<1> QED BY <1>1, <1>6

\* The key of the n-th field is one of the field's.
LEMMA NthKeyIs ==
    ASSUME NEW ops, NEW i \in Nat, i > 0, i <= IndexMax, ops[i].field \in Fields
    PROVE  /\ IsKey(NthKey(ops, i)) /\ OfField(ops[i].field, NthKey(ops, i))
           /\ ops[i].field \in Repeated =>
                 NthKey(ops, i).item = Cardinality(SoFar(ops, i))
<1>1. PICK f, n, k : f = ops[i].field /\ n = Cardinality(SoFar(ops, i)) /\ k = NthKey(ops, i)
  OBVIOUS
<1>2. n \in 0..IndexMax
  BY <1>1, SoFarIs, EditingAssumption
<1>3. k = IF f \in Repeated THEN Key(f, n, NoLeaf) ELSE Singletons[f]
  BY <1>1 DEF NthKey, SoFar
<1>4. CASE f \in Repeated
  <2>1. k = [root |-> f, item |-> n, leaf |-> NoLeaf]
    BY <1>3, <1>4 DEF Key
  <2>2. k.root = f /\ k.item = n /\ k.leaf = NoLeaf
    BY <2>1
  <2>3. IsKey(k)
    BY <1>2, <2>1, <2>2 DEF IsKey, Key
  <2>4. OfField(f, k)
    BY <1>4, <2>2 DEF OfField
  <2> QED BY <1>1, <2>2, <2>3, <2>4
<1>5. CASE f \notin Repeated
  <2>1. f \in DOMAIN Singletons
    BY <1>1, <1>5 DEF Fields
  <2>2. k = Singletons[f]
    BY <1>3, <1>5
  <2>3. IsKey(k)
    BY <2>1, <2>2, EditingAssumption
  <2>4. OfField(f, k)
    BY <1>5, <2>2 DEF OfField
  <2> QED BY <1>1, <1>5, <2>3, <2>4
<1> QED BY <1>4, <1>5

\* Keys of a new store.
LEMMA NthKeysApart ==
    ASSUME NEW ops, NEW i \in Nat, i > 0, NEW k \in Nat, i < k, k <= IndexMax,
           ops[i].field \in Fields, ops[k].field \in Fields, FieldStatus(ops, k) = "Ok"
    PROVE  NthKey(ops, i) # NthKey(ops, k)
<1>1. SUFFICES ASSUME NthKey(ops, i) = NthKey(ops, k) PROVE FALSE
  OBVIOUS
<1>2. i <= IndexMax
  BY EditingAssumption
<1>3. PICK f, g, x : f = ops[i].field /\ g = ops[k].field /\ x = NthKey(ops, i)
  OBVIOUS
<1>4. OfField(f, x) /\ (f \in Repeated => x.item = Cardinality(SoFar(ops, i)))
  BY <1>2, <1>3, NthKeyIs
<1>5. OfField(g, x) /\ (g \in Repeated => x.item = Cardinality(SoFar(ops, k)))
  BY <1>1, <1>3, NthKeyIs
<1>6. f = g
  BY <1>3, <1>4, <1>5, FieldsDisjoint
<1>7. CASE f \in Repeated
  BY <1>3, <1>4, <1>5, <1>6, <1>7, SoFarGrows
<1>8. CASE f \notin Repeated
  <2>1. i \in 1..k - 1
    OBVIOUS
  <2> QED BY <1>3, <1>6, <1>8, <2>1 DEF FieldStatus
<1> QED BY <1>7, <1>8

\* create_metadata() keeps its promise.
LEMMA FieldsMade ==
    ASSUME NEW r, IsRequest(r), r.api = "fields", FieldsVerdict(r.ops) = Ok,
           NEW t, t = StoreOfFields(r.ops)
    PROVE  IsStore(t) /\ MadeOf(r, t)
<1>1. Len(r.ops) \in Nat /\ Len(r.ops) <= OrderMax /\ Len(r.ops) <= IndexMax
  BY DEF IsRequest, IsSequence
<1>2. PICK es : es = [i \in 1..Len(r.ops) |->
                         NewEntry(NthKey(r.ops, i), r.ops[i].value, "none", 0, i - 1)]
  OBVIOUS
<1>3. IsSequence(es) /\ Len(es) = Len(r.ops)
  <2>1. es = [i \in 1..Len(r.ops) |-> es[i]]
    BY <1>2
  <2> QED BY <1>1, <2>1, SequenceMade
<1>4. \A n \in 1..Len(r.ops) : n \in Nat /\ n > 0 /\ n <= IndexMax /\ r.ops[n].field \in Fields
  <2>1. \A n \in 1..Len(r.ops) : IsOperation("fields", r.ops[n])
    BY DEF IsRequest
  <2>2. \A n \in 1..Len(r.ops) : r.ops[n].field \in Fields
    BY <2>1 DEF IsOperation
  <2> QED BY <1>1, <2>2, EditingAssumption
<1>5. ASSUME NEW n \in 1..Len(r.ops)
      PROVE  /\ IsEntry(es[n]) /\ ~Deleted(es[n]) /\ es[n].key = NthKey(r.ops, n)
             /\ OfField(r.ops[n].field, es[n].key)
             /\ View(es[n]) = Lists!Entry(NthKey(r.ops, n), r.ops[n].value, "none")
  <2>1. PICK k, v, w, o : k = NthKey(r.ops, n) /\ v = r.ops[n].value /\ w = "none" /\ o = n - 1
    OBVIOUS
  <2>2. es[n] = NewEntry(k, v, w, 0, o)
    BY <1>2, <2>1
  <2>3. IsKey(k) /\ OfField(r.ops[n].field, k)
    BY <1>4, <2>1, NthKeyIs
  <2>4. o \in 0..OrderMax /\ 0 \in Nat
    BY <1>1, <2>1, EditingAssumption
  <2>5. /\ IsEntry(es[n]) /\ ~Deleted(es[n]) /\ es[n].key = k
        /\ View(es[n]) = Lists!Entry(k, v, w)
    BY <2>2, <2>3, <2>4, NewIs
  <2> QED BY <2>1, <2>3, <2>5
<1>6. NewEntries(es)
  BY <1>3, <1>5 DEF NewEntries
<1>7. t = StoreOf(es)
  BY <1>2 DEF StoreOfFields
<1>8. IsStore(t) /\ t.entries = es /\ Dying(es) = 0
  BY <1>6, <1>7, StoreOfIs
<1>9. PICK l : l = Listed(es)
  OBVIOUS
<1>10. Len(l) = Len(r.ops) /\ \A n \in 1..Len(r.ops) : l[n] = View(es[n])
  BY <1>3, <1>9, ListedIs
<1>11. \A n \in 1..Len(r.ops) : l[n].key = NthKey(r.ops, n)
  BY <1>5, <1>10, ViewIs
<1>12. ASSUME NEW n \in 1..Len(r.ops)
       PROVE  /\ l[n] = Lists!Entry(l[n].key, r.ops[n].value, "none")
              /\ Lists!OfField(r.ops[n].field, l[n].key)
  <2>1. l[n] = Lists!Entry(NthKey(r.ops, n), r.ops[n].value, "none")
    BY <1>5, <1>10
  <2>2. OfField(r.ops[n].field, l[n].key)
    BY <1>5, <1>11
  <2> QED BY <1>11, <2>1, <2>2, OfFieldSame
<1>13. \A n \in 1..Len(r.ops) : FieldStatus(r.ops, n) = "Ok"
  BY <1>1, FieldsVerdictIs
<1>14. ASSUME NEW m \in 1..Len(r.ops), NEW n \in 1..Len(r.ops), m < n
       PROVE  NthKey(r.ops, m) # NthKey(r.ops, n)
  BY <1>4, <1>13, <1>14, NthKeysApart
<1>15. ASSUME NEW m \in 1..Len(r.ops), NEW n \in 1..Len(r.ops), m # n
       PROVE  l[m].key # l[n].key
  <2>1. m < n \/ n < m
    BY <1>4, <1>15
  <2> QED BY <1>11, <1>14, <2>1
<1> QED BY <1>8, <1>9, <1>10, <1>12, <1>15 DEF MadeOf

-----------------------------------------------------------------------------
(* The steps of a call.                                                     *)

\* What is known of the call under way.
CallIs(s, r, c) ==
    \/ c.stage = "logical" /\ \E es : LogicalCall(s, r, c, es)
    \/ c.stage = "typed" /\ \E es : TypedCall(s, r, c, es)
    \/ c.stage = "xmp" /\ r.api = "xmp" /\ XmpIs(s, r, c)

\* Between two steps.
HostIs ==
    /\ IsStore(store)
    /\ request # None => request \in Requests
    /\ answer # None => request # None
    /\ call # None => request # None /\ answer = None /\ CallIs(store, request, call)

\* A call is under way.
Busy == request # None /\ IsRequest(request) /\ answer = None /\ IsStore(store)

Missing == Lists!NoTarget \cup {"InvalidValue", "TooManyOperations", "BaseNotFinalized"}

\* What a refusal may say.
Just(s, r, status, at, entry, typed) ==
    /\ status # "Ok" /\ at \in 0..Len(r.ops)
    /\ status \in Lists!NoTarget =>
          /\ at > 0 /\ AfterFrom(Listed(s.entries), r)[at - 1] # {}
          /\ AfterFrom(Listed(s.entries), r)[at] = {} \/ Lists!Unheeded(r, at, status)
    /\ at > 0 /\ entry \in 1..Len(s.entries) => About(r, at, s.entries[entry].key)
    /\ r.api = "xmp" => typed \notin Missing

EditedFor(s, r, t, counts) ==
    /\ r.api \in {"logical", "typed", "xmp"}
    /\ Listed(t.entries) \in AfterFrom(Listed(s.entries), r)[Len(r.ops)]
    /\ counts.added = Len(t.entries) - Len(s.entries)
    /\ counts.removed = Dying(t.entries) - Dying(s.entries)

MadeFor(r, t, counts) ==
    /\ r.api \in {"fields", "entries"}
    /\ MadeOf(r, t) /\ counts.added = Len(r.ops) /\ counts.removed = 0

\* What an answer without one stands for.
Done(s, r, t, counts) ==
    /\ IsStore(t)
    /\ EditedFor(s, r, t, counts) \/ MadeFor(r, t, counts)
    /\ r.api = "xmp" => RootsGood(Listed(t.entries), r.ops)
    /\ r.api = "logical" => ComeLast(s, t)

Goes == Busy /\ \E c : Continue(c) /\ CallIs(store, request, c)

Refuses ==
    Busy /\ \E status, at, entry, typed :
        /\ Reply(store, status, at, entry, typed, NoCounts)
        /\ Just(store, request, status, at, entry, typed)

Accepts == Busy /\ \E t, counts : Accept(t, counts) /\ Done(store, request, t, counts)

\* The host has asked and no step is made; a call is at some stage.
LEMMA BusyAsked ==
    ASSUME HostIs, NEW api, Asked(api)
    PROVE  Busy /\ request.api = api /\ IsSequence(request.ops) /\ Len(request.ops) \in Nat
<1>1. request # None /\ request \in Requests /\ answer = None /\ IsStore(store)
  BY DEF HostIs, Asked
<1>2. IsRequest(request)
  BY <1>1, HostAssumption
<1> QED BY <1>1, <1>2 DEF Busy, Asked, IsRequest, IsSequence

LEMMA BusyAt ==
    ASSUME HostIs, NEW stage, At(stage)
    PROVE  Busy /\ Len(request.ops) \in Nat /\ CallIs(store, request, call) /\ call.stage = stage
<1>1. request # None /\ request \in Requests /\ answer = None /\ IsStore(store)
  BY DEF HostIs, At
<1>2. IsRequest(request)
  BY <1>1, HostAssumption
<1> QED BY <1>1, <1>2 DEF Busy, HostIs, At, IsRequest, IsSequence

\* A refusal that speaks about no target, one that does, and one by a verdict.
LEMMA PlainRefusal ==
    ASSUME Busy, NEW status, status # "Ok", status \notin Lists!NoTarget,
           NEW at \in 0..Len(request.ops), Refuse(status, at)
    PROVE  Refuses
<1>1. Reply(store, status, at, 0, "Ok", NoCounts)
  BY DEF Refuse
<1>2. "Ok" \notin Missing
  BY DEF Missing, Lists!NoTarget
<1>3. ~(0 \in 1..Len(store.entries))
  OBVIOUS
<1>4. Just(store, request, status, at, 0, "Ok")
  BY <1>2, <1>3 DEF Just
<1> QED BY <1>1, <1>4 DEF Refuses

LEMMA MissRefusal ==
    ASSUME Busy, NEW status, status # "Ok", NEW at \in 1..Len(request.ops),
           AfterFrom(Listed(store.entries), request)[at - 1] # {},
           \/ AfterFrom(Listed(store.entries), request)[at] = {}
           \/ Lists!Unheeded(request, at, status),
           Refuse(status, at)
    PROVE  Refuses
<1>1. Reply(store, status, at, 0, "Ok", NoCounts)
  BY DEF Refuse
<1>2. "Ok" \notin Missing
  BY DEF Missing, Lists!NoTarget
<1>3. ~(0 \in 1..Len(store.entries)) /\ at \in 0..Len(request.ops) /\ at > 0
  OBVIOUS
<1>4. Just(store, request, status, at, 0, "Ok")
  BY <1>2, <1>3 DEF Just
<1> QED BY <1>1, <1>4 DEF Refuses

LEMMA VerdictRefusal ==
    ASSUME Busy, Len(request.ops) \in Nat, NEW v, NEW statuses,
           Refusal(v, request.ops, statuses),
           "Ok" \notin statuses, statuses \cap Lists!NoTarget = {}, Refuse(v.status, v.at)
    PROVE  Refuses
<1>1. v.at \in 0..Len(request.ops) /\ v.status # "Ok" /\ v.status \notin Lists!NoTarget
  BY DEF Refusal
<1> QED BY <1>1, PlainRefusal

-----------------------------------------------------------------------------

\* The first step of edit_metadata(), one for an operation, and the last one.
LEMMA LogicalBeginStep ==
    ASSUME HostIs, LogicalBegin
    PROVE  Goes \/ Refuses \/ Accepts
<1>1. Busy /\ request.api = "logical" /\ IsSequence(request.ops) /\ Len(request.ops) \in Nat
  BY BusyAsked DEF LogicalBegin
<1>2. PICK why : why = LogicalRefusal(store, request.ops)
  OBVIOUS
<1>3. why \in {"Ok", "BaseNotFinalized", "ResourceLimitExceeded", "TooManyOperations"}
  BY <1>2 DEF LogicalRefusal
<1>4. CASE why # "Ok"
  <2>1. Refuse(why, 0)
    BY <1>2, <1>4 DEF LogicalBegin
  <2>2. why \notin Lists!NoTarget /\ 0 \in 0..Len(request.ops)
    BY <1>1, <1>3, <1>4 DEF Lists!NoTarget
  <2> QED BY <1>1, <1>4, <2>1, <2>2, PlainRefusal
<1>5. CASE why = "Ok" /\ request.ops = <<>>
  <2>1. Accept(store, NoCounts)
    BY <1>2, <1>5 DEF LogicalBegin
  <2>2. Len(request.ops) = 0
    BY <1>5
  <2>3. PICK l : l = Listed(store.entries)
    OBVIOUS
  <2>4. AfterFrom(l, request)[0] = {l}
    BY <1>1, AfterFromIs
  <2>5. IsStore(store) /\ IsSequence(store.entries) /\ Len(store.entries) \in Nat
    BY <1>1 DEF Busy, IsStore, IsSequence
  <2>6. Dying(store.entries) \in Nat
    BY <2>5, DyingIs
  <2>7. NoCounts.added = 0 /\ NoCounts.removed = 0
    BY DEF NoCounts
  <2>8. EditedFor(store, request, store, NoCounts)
    BY <1>1, <2>2, <2>3, <2>4, <2>5, <2>6, <2>7 DEF EditedFor
  <2>9. ComeLast(store, store)
    BY <2>5 DEF ComeLast
  <2>10. Done(store, request, store, NoCounts)
    BY <1>1, <2>5, <2>8, <2>9 DEF Done
  <2> QED BY <1>1, <2>1, <2>10 DEF Accepts
<1>6. CASE why = "Ok" /\ request.ops # <<>>
  <2>1. PICK c : c = LogicalStart(store, request.ops)
    OBVIOUS
  <2>2. Continue(c)
    BY <1>2, <1>6, <2>1 DEF LogicalBegin
  <2>3. LogicalCall(store, request, c, store.entries)
    BY <1>1, <2>1, LogicalEnters DEF Busy
  <2>4. c.stage = "logical"
    BY <2>1 DEF LogicalStart
  <2>5. CallIs(store, request, c)
    BY <2>3, <2>4 DEF CallIs
  <2> QED BY <1>1, <2>2, <2>5 DEF Goes
<1> QED BY <1>4, <1>5, <1>6

\* There are entries that the edits so far lead to.
LEMMA LogicalAt ==
    ASSUME HostIs, At("logical")
    PROVE  \E es : LogicalCall(store, request, call, es)
<1>1. CallIs(store, request, call) /\ call.stage = "logical"
  BY BusyAt
<1> QED BY <1>1 DEF CallIs

LEMMA LogicalOpStep ==
    ASSUME HostIs, LogicalOp
    PROVE  Goes \/ Refuses
<1>1. Busy /\ Len(request.ops) \in Nat
  BY BusyAt DEF LogicalOp
<1>2. PICK es : LogicalCall(store, request, call, es)
  BY LogicalAt DEF LogicalOp
<1>3. PICK op, why, d : /\ op = call.ops[call.next] /\ why = LogicalError(store, call, op)
                        /\ d = LogicalStep(store, call)
  OBVIOUS
<1>4. call.next <= Len(call.ops)
  BY DEF LogicalOp, More
<1>5. IF why # "Ok" THEN Refuse(why, call.next) ELSE Continue(d)
  BY <1>3 DEF LogicalOp
<1>6. call.next \in 1..Len(request.ops)
  BY <1>1, <1>2, <1>4 DEF LogicalCall
<1>7. CASE why = "Ok"
  <2>1. \E fs : LogicalCall(store, request, d, fs)
    BY <1>1, <1>2, <1>3, <1>4, <1>7, LogicalCallDoes DEF Busy
  <2>2. d.stage = "logical"
    BY <2>1 DEF LogicalCall, LogicalIs, LogicalShape
  <2>3. CallIs(store, request, d)
    BY <2>1, <2>2 DEF CallIs
  <2>4. Continue(d)
    BY <1>5, <1>7
  <2> QED BY <1>1, <2>3, <2>4 DEF Goes
<1>8. CASE why # "Ok" /\ why \in Lists!NoTarget
  <2>1. Refuse(why, call.next)
    BY <1>5, <1>8
  <2>2. /\ AfterFrom(Listed(store.entries), request)[call.next - 1] # {}
        /\ \/ AfterFrom(Listed(store.entries), request)[call.next] = {}
           \/ Lists!Unheeded(request, call.next, why)
    BY <1>1, <1>2, <1>3, <1>4, <1>8, LogicalCallMisses DEF Busy
  <2> QED BY <1>1, <1>6, <1>8, <2>1, <2>2, MissRefusal
<1>9. CASE why # "Ok" /\ why \notin Lists!NoTarget
  <2>1. Refuse(why, call.next)
    BY <1>5, <1>9
  <2>2. call.next \in 0..Len(request.ops)
    BY <1>6
  <2> QED BY <1>1, <1>9, <2>1, <2>2, PlainRefusal
<1> QED BY <1>7, <1>8, <1>9

LEMMA LogicalOpTooLongStep ==
    ASSUME HostIs, LogicalOpTooLong
    PROVE  Refuses
<1>1. Busy /\ Len(request.ops) \in Nat
  BY BusyAt DEF LogicalOpTooLong
<1>2. PICK es : LogicalCall(store, request, call, es)
  BY LogicalAt DEF LogicalOpTooLong
<1>3. call.next <= Len(call.ops)
  BY DEF LogicalOpTooLong, More
<1>4. call.next \in 0..Len(request.ops)
  BY <1>1, <1>2, <1>3 DEF LogicalCall
<1>5. Refuse("TextTooLong", call.next)
  BY DEF LogicalOpTooLong
<1>6. "TextTooLong" \notin Lists!NoTarget
  BY DEF Lists!NoTarget
<1>7. PICK why : why = "TextTooLong"
  OBVIOUS
<1> QED BY <1>1, <1>4, <1>5, <1>6, <1>7, PlainRefusal

\* commit() and the store that it returns.
LEMMA CommitIs ==
    ASSUME NEW s, IsStore(s), NEW edits, NEW es, NEW added, NEW removed,
           Edited(s, edits, es, added, removed), NEW t, t = Commit(s, edits)
    PROVE  /\ IsStore(t) /\ t.entries = es /\ t.blocks = s.blocks
           /\ added = Len(es) - Len(s.entries) /\ removed = Dying(es) - Dying(s.entries)
<1>1. es = Applied(s.entries, edits) /\ IsSequence(es) /\ \A n \in 1..Len(es) : IsEntry(es[n])
  BY DEF Edited
<1>2. PICK e, b, x, f : e = s.entries /\ b = s.blocks /\ x = s.sealed /\ f = s.refused
  OBVIOUS
<1>3. s = [entries |-> e, blocks |-> b, sealed |-> x, refused |-> f] /\ b \in Nat
  BY <1>2 DEF IsStore
<1>4. t = [s EXCEPT !.entries = es]
  BY <1>1 DEF Commit
<1>5. t = [entries |-> es, blocks |-> b, sealed |-> x, refused |-> f]
  BY <1>3, <1>4
<1>6. t.entries = es /\ t.blocks = b /\ t.sealed = x /\ t.refused = f
  BY <1>5
<1>7. IsStore(t)
  BY <1>1, <1>3, <1>5, <1>6 DEF IsStore
<1>8. added \in Nat /\ removed \in Nat /\ Len(s.entries) \in Nat
  BY DEF Edited, IsStore, IsSequence
<1>9. Dying(s.entries) \in Nat
  BY DyingIs DEF IsStore
<1>10. Len(es) = Len(s.entries) + added /\ Dying(es) = Dying(s.entries) + removed
  BY DEF Edited
<1> QED BY <1>2, <1>6, <1>7, <1>8, <1>9, <1>10

LEMMA LogicalEndStep ==
    ASSUME HostIs, LogicalEnd
    PROVE  Refuses \/ Accepts
<1>1. Busy /\ Len(request.ops) \in Nat
  BY BusyAt DEF LogicalEnd
<1>2. PICK es : LogicalCall(store, request, call, es)
  BY LogicalAt DEF LogicalEnd
<1>3. ~(call.next <= Len(call.ops))
  BY DEF LogicalEnd, More
<1>4. CASE Refuse("ResourceLimitExceeded", 0)
  <2>1. PICK why : why = "ResourceLimitExceeded"
    OBVIOUS
  <2>2. why \notin Lists!NoTarget /\ why # "Ok" /\ 0 \in 0..Len(request.ops)
    BY <1>1, <2>1 DEF Lists!NoTarget
  <2> QED BY <1>1, <1>4, <2>1, <2>2, PlainRefusal
<1>5. CASE Accept(Commit(store, call.edits), call.counts)
  <2>1. PICK t : t = Commit(store, call.edits)
    OBVIOUS
  <2>2. Edited(store, call.edits, es, call.counts.added, call.counts.removed)
    BY <1>2 DEF LogicalCall, LogicalIs
  <2>3. /\ IsStore(t) /\ t.entries = es /\ t.blocks = store.blocks
        /\ call.counts.added = Len(es) - Len(store.entries)
        /\ call.counts.removed = Dying(es) - Dying(store.entries)
    BY <1>1, <2>1, <2>2, CommitIs DEF Busy
  <2>4. Listed(es) \in AfterFrom(Listed(store.entries), request)[Len(request.ops)]
    BY <1>1, <1>2, <1>3, LogicalCallEnds DEF Busy
  <2>5. request.api = "logical"
    BY <1>2 DEF LogicalCall
  <2>6. EditedFor(store, request, t, call.counts)
    BY <2>3, <2>4, <2>5 DEF EditedFor
  <2>7. ComeLast(store, t)
    BY <1>1, <1>2, <2>3, LogicalComesLast DEF Busy
  <2>8. Done(store, request, t, call.counts)
    BY <2>3, <2>5, <2>6, <2>7 DEF Done
  <2>9. Accept(t, call.counts)
    BY <1>5, <2>1
  <2> QED BY <1>1, <2>8, <2>9 DEF Accepts
<1> QED BY <1>4, <1>5 DEF LogicalEnd

-----------------------------------------------------------------------------
(* The steps of a call by exact key.                                        *)

\* The owner of the host's own operation is the operation itself.
ByKeyApi == request.api \in {"typed", "xmp"}
Own(ops, owner) == request.api = "typed" => \A i \in 1..Len(ops) : owner[i] = i

\* A refusal that speaks about no target.
LEMMA TypedRefuses ==
    ASSUME Busy, ByKeyApi, Len(request.ops) \in Nat, NEW ops, NEW owner, Len(ops) \in Nat,
           Answering(request, ops, owner), Own(ops, owner),
           NEW i \in 0..Len(ops), NEW status, status # "Ok", status \notin Lists!NoTarget,
           request.api = "xmp" => status \notin Missing,
           NEW entry, i > 0 /\ entry \in 1..Len(store.entries) =>
                          ops[i].key = store.entries[entry].key,
           TypedRefuse(status, owner, i, entry)
    PROVE  Refuses
<1>1. i > 0 => i \in 1..Len(ops)
  OBVIOUS
<1>2. i > 0 => owner[i] \in 1..Len(request.ops) /\ About(request, owner[i], ops[i].key)
  BY <1>1 DEF Answering
<1>3. CASE request.api = "xmp"
  <2>1. PICK why, at : why = "TypedEditFailed" /\ at = Answerable(owner, i)
    OBVIOUS
  <2>2. Reply(store, why, at, entry, status, NoCounts)
    BY <1>3, <2>1 DEF TypedRefuse
  <2>3. why # "Ok" /\ why \notin Lists!NoTarget
    BY <2>1 DEF Lists!NoTarget
  <2>4. (i = 0 => at = 0) /\ (i > 0 => at = owner[i])
    BY <2>1 DEF Answerable
  <2>5. at \in 0..Len(request.ops) /\ (at > 0 => i > 0)
    BY <1>2, <2>4
  <2>6. at > 0 /\ entry \in 1..Len(store.entries) =>
            About(request, at, store.entries[entry].key)
    BY <1>2, <2>4, <2>5
  <2>7. Just(store, request, why, at, entry, status)
    BY <1>3, <2>3, <2>5, <2>6 DEF Just
  <2> QED BY <2>2, <2>7 DEF Refuses
<1>4. CASE request.api # "xmp"
  <2>1. request.api = "typed"
    BY <1>4 DEF ByKeyApi
  <2>2. Reply(store, status, i, entry, status, NoCounts)
    BY <1>4 DEF TypedRefuse
  <2>3. i > 0 => owner[i] = i
    BY <1>1, <2>1 DEF Own
  <2>4. i \in 0..Len(request.ops)
    BY <1>2, <2>3
  <2>5. i > 0 /\ entry \in 1..Len(store.entries) => About(request, i, store.entries[entry].key)
    BY <1>2, <2>3
  <2>6. Just(store, request, status, i, entry, status)
    BY <1>4, <2>4, <2>5 DEF Just
  <2> QED BY <2>2, <2>6 DEF Refuses
<1> QED BY <1>3, <1>4

\* The refusals for the size of something or for what the result holds.
LEMMA PlainStatus ==
    ASSUME NEW status \in {"LimitExceeded", "ValidationFailed", "InvalidValue",
                           "TooManyOperations", "BaseNotFinalized"}
    PROVE  /\ status # "Ok" /\ status \notin Lists!NoTarget
           /\ status \in {"LimitExceeded", "ValidationFailed"} => status \notin Missing
BY DEF Missing, Lists!NoTarget

\* The checks of edit_metadata_typed(), whoever calls it.
LEMMA TypedEnterStep ==
    ASSUME Busy, ByKeyApi, Len(request.ops) \in Nat, NEW ops, NEW owner, Len(ops) \in Nat,
           Answering(request, ops, owner), Own(ops, owner), NEW max, NEW policy,
           request.api = "xmp" => /\ TypedRefusal(store, ops, max) = "Ok"
                                  /\ \A i \in 1..Len(ops) : ~InvalidOp(ops[i]),
           NEW c, c = TypedStart(store, ops, owner, max, policy),
           TypedCall(store, request, c, store.entries),
           TypedEnter(ops, owner, max, policy)
    PROVE  Goes \/ Refuses
<1>1. PICK why, bad : /\ why = TypedRefusal(store, ops, max)
                      /\ bad = {i \in 1..Len(ops) : InvalidOp(ops[i])}
  OBVIOUS
<1>2. why \in {"Ok", "BaseNotFinalized", "TooManyOperations", "LimitExceeded"}
  BY <1>1 DEF TypedRefusal
<1>3. ~(0 \in 1..Len(store.entries)) /\ 0 \in 0..Len(ops)
  OBVIOUS
<1>4. CASE why # "Ok"
  <2>1. TypedRefuse(why, owner, 0, 0)
    BY <1>1, <1>4 DEF TypedEnter
  <2>2. request.api # "xmp"
    BY <1>1, <1>4
  <2>3. why \notin Lists!NoTarget
    BY <1>2, <1>4, PlainStatus
  <2> QED BY <1>3, <1>4, <2>1, <2>2, <2>3, TypedRefuses
<1>5. CASE why = "Ok" /\ bad # {}
  <2>1. PICK i, status : i = Min(bad) /\ status = "InvalidValue"
    OBVIOUS
  <2>2. TypedRefuse(status, owner, i, 0)
    BY <1>1, <1>5, <2>1 DEF TypedEnter
  <2>3. Within(bad, Len(ops))
    BY <1>1 DEF Within
  <2>4. i \in bad
    BY <1>5, <2>1, <2>3, FirstIn
  <2>5. i \in 0..Len(ops) /\ request.api # "xmp"
    BY <1>1, <2>4
  <2>6. status # "Ok" /\ status \notin Lists!NoTarget
    BY <2>1, PlainStatus
  <2> QED BY <1>3, <2>2, <2>5, <2>6, TypedRefuses
<1>6. CASE why = "Ok" /\ bad = {}
  <2>1. \/ Continue(c)
        \/ \E i \in {j \in 1..Len(ops) : ops[j].kind # "Remove"},
              status \in {"LimitExceeded", "ValidationFailed"} :
                 TypedRefuse(status, owner, i, 0)
    BY <1>1, <1>6 DEF TypedEnter
  <2>2. CASE Continue(c)
    <3>1. c.stage = "typed"
      BY DEF TypedStart
    <3>2. CallIs(store, request, c)
      BY <3>1 DEF CallIs
    <3> QED BY <2>2, <3>2 DEF Goes
  <2>3. ASSUME NEW i \in 1..Len(ops), NEW status \in {"LimitExceeded", "ValidationFailed"},
               TypedRefuse(status, owner, i, 0)
        PROVE  Refuses
    <3>1. status # "Ok" /\ status \notin Lists!NoTarget /\ status \notin Missing
      BY PlainStatus
    <3>2. i \in 0..Len(ops)
      OBVIOUS
    <3> QED BY <1>3, <2>3, <3>1, <3>2, TypedRefuses
  <2> QED BY <2>1, <2>2, <2>3
<1> QED BY <1>4, <1>5, <1>6

\* The steps of edit_metadata_typed().
LEMMA TypedBeginStep ==
    ASSUME HostIs, TypedBegin
    PROVE  Goes \/ Refuses
<1>1. Busy /\ request.api = "typed" /\ IsSequence(request.ops) /\ Len(request.ops) \in Nat
  BY BusyAsked DEF TypedBegin
<1>2. PICK owner : owner = [i \in 1..Len(request.ops) |-> i]
  OBVIOUS
<1>3. PICK c : c = TypedStart(store, request.ops, owner, MaxOperations, request.policy)
  OBVIOUS
<1>4. TypedCall(store, request, c, store.entries)
  BY <1>1, <1>2, <1>3, TypedEnters DEF Busy
<1>5. ByKeyApi /\ Own(request.ops, owner)
  BY <1>1, <1>2 DEF ByKeyApi, Own
<1>6. Answering(request, request.ops, owner)
  BY <1>1, <1>2 DEF Answering, About
<1>7. TypedEnter(request.ops, owner, MaxOperations, request.policy)
  BY <1>2 DEF TypedBegin
<1>8. request.api # "xmp"
  BY <1>1
<1> QED BY <1>1, <1>3, <1>4, <1>5, <1>6, <1>7, <1>8, TypedEnterStep

\* The call that is under way.
TypedUnder(es) ==
    /\ Busy /\ ByKeyApi /\ Len(request.ops) \in Nat /\ Len(call.ops) \in Nat
    /\ Answering(request, call.ops, call.owner) /\ Own(call.ops, call.owner)
    /\ call.next \in 1..Len(call.ops) + 1 /\ TypedCall(store, request, call, es)

\* There are entries that the edits so far lead to.
LEMMA TypedAt ==
    ASSUME HostIs, At("typed")
    PROVE  \E es : TypedUnder(es)
<1>1. CallIs(store, request, call) /\ call.stage = "typed" /\ Busy /\ Len(request.ops) \in Nat
  BY BusyAt
<1>2. PICK es : TypedCall(store, request, call, es)
  BY <1>1 DEF CallIs
<1>3. ByKeyApi /\ Own(call.ops, call.owner)
  BY <1>2 DEF TypedCall, TypedFor, ByKeyApi, Own
<1>4. TypedUnder(es)
  BY <1>1, <1>2, <1>3 DEF TypedUnder, TypedCall, IsSequence
<1> QED BY <1>4

LEMMA TypedOpStep ==
    ASSUME HostIs, TypedOp
    PROVE  Goes \/ Refuses
<1>1. PICK es : TypedUnder(es)
  BY TypedAt DEF TypedOp
<1>2. PICK op, why, d : /\ op = call.ops[call.next] /\ why = TypedError(call, op)
                        /\ d = TypedStep(call)
  OBVIOUS
<1>3. call.next <= Len(call.ops)
  BY DEF TypedOp, More
<1>4. IF why # "Ok" THEN TypedRefuse(why, call.owner, call.next, 0) ELSE Continue(d)
  BY <1>2 DEF TypedOp
<1>5. call.next \in 0..Len(call.ops) /\ call.next > 0 /\ ~(0 \in 1..Len(store.entries))
  BY <1>1, <1>3 DEF TypedUnder
<1>6. CASE why = "Ok"
  <2>1. \E fs : TypedCall(store, request, d, fs)
    BY <1>1, <1>2, <1>3, <1>6, TypedCallDoes DEF TypedUnder, Busy
  <2>2. d.stage = "typed"
    BY <2>1 DEF TypedCall, TypedIs, TypedShape
  <2>3. CallIs(store, request, d)
    BY <2>1, <2>2 DEF CallIs
  <2>4. Continue(d)
    BY <1>4, <1>6
  <2> QED BY <1>1, <2>3, <2>4 DEF Goes, TypedUnder
<1>7. CASE why = "LimitExceeded"
  <2>1. why # "Ok" /\ why \notin Lists!NoTarget /\ why \notin Missing
    BY <1>7, PlainStatus
  <2>2. TypedRefuse(why, call.owner, call.next, 0)
    BY <1>4, <2>1
  <2> QED BY <1>1, <1>5, <2>1, <2>2, TypedRefuses DEF TypedUnder
<1>8. CASE why \notin {"Ok", "LimitExceeded"}
  <2>1. TypedRefuse(why, call.owner, call.next, 0) /\ why # "Ok"
    BY <1>4, <1>8
  <2>2. /\ request.api = "typed" /\ call.ops = request.ops
        /\ AfterFrom(Listed(store.entries), request)[call.next - 1] # {}
        /\ AfterFrom(Listed(store.entries), request)[call.next] = {}
    <3>1. /\ IsStore(store) /\ IsRequest(request) /\ TypedCall(store, request, call, es)
          /\ TypedError(call, op) \notin {"Ok", "LimitExceeded"}
      BY <1>1, <1>2, <1>8 DEF TypedUnder, Busy
    <3>2. op = call.ops[call.next] /\ call.next <= Len(call.ops)
      BY <1>2, <1>3
    <3>3. /\ request.api = "typed" /\ call.ops = request.ops
          /\ call.owner[call.next] = call.next
          /\ AfterFrom(Listed(store.entries), request)[call.next - 1] # {}
          /\ AfterFrom(Listed(store.entries), request)[call.next] = {}
      BY <3>1, <3>2, TypedCallMisses
    <3> QED BY <3>3
  <2>3. request.api # "xmp"
    BY <2>2
  <2>4. Reply(store, why, call.next, 0, why, NoCounts)
    BY <2>1, <2>3 DEF TypedRefuse
  <2>5. call.next \in 0..Len(request.ops)
    BY <1>5, <2>2
  <2>6. Just(store, request, why, call.next, 0, why)
    BY <1>5, <2>1, <2>2, <2>3, <2>5 DEF Just
  <2> QED BY <1>1, <2>4, <2>6 DEF Refuses, TypedUnder
<1> QED BY <1>6, <1>7, <1>8

LEMMA TypedOpTooLongStep ==
    ASSUME HostIs, TypedOpTooLong
    PROVE  Refuses
<1>1. PICK es : TypedUnder(es)
  BY TypedAt DEF TypedOpTooLong
<1>2. PICK why : why = "LimitExceeded"
  OBVIOUS
<1>3. call.next <= Len(call.ops) /\ TypedRefuse(why, call.owner, call.next, 0)
  BY <1>2 DEF TypedOpTooLong, More
<1>4. call.next \in 0..Len(call.ops) /\ ~(0 \in 1..Len(store.entries))
  BY <1>1, <1>3 DEF TypedUnder
<1>5. why # "Ok" /\ why \notin Lists!NoTarget /\ why \notin Missing
  BY <1>2, PlainStatus
<1> QED BY <1>1, <1>3, <1>4, <1>5, TypedRefuses DEF TypedUnder

LEMMA TypedEndStep ==
    ASSUME HostIs, TypedEnd
    PROVE  Refuses \/ Accepts
<1>1. PICK es : TypedUnder(es)
  BY TypedAt DEF TypedEnd
<1>2. ~(call.next <= Len(call.ops))
  BY DEF TypedEnd, More
<1>3. PICK t : t = Commit(store, call.edits)
  OBVIOUS
<1>4. /\ Edited(store, call.edits, es, call.counts.added, call.counts.removed)
      /\ Answered(call.writers, es, call.ops, call.next)
  BY <1>1 DEF TypedUnder, TypedCall, TypedIs
<1>5. /\ IsStore(t) /\ t.entries = es
      /\ call.counts.added = Len(es) - Len(store.entries)
      /\ call.counts.removed = Dying(es) - Dying(store.entries)
  BY <1>1, <1>3, <1>4, CommitIs DEF TypedUnder, Busy
<1>6. CASE TypedRefuse("LimitExceeded", call.owner, 0, 0)
  <2>1. PICK why : why = "LimitExceeded"
    OBVIOUS
  <2>2. 0 \in 0..Len(call.ops) /\ ~(0 \in 1..Len(store.entries))
    BY <1>1 DEF TypedUnder
  <2>3. why # "Ok" /\ why \notin Lists!NoTarget /\ why \notin Missing
    BY <2>1, PlainStatus
  <2>4. TypedRefuse(why, call.owner, 0, 0)
    BY <1>6, <2>1
  <2> QED BY <1>1, <2>2, <2>3, <2>4, TypedRefuses DEF TypedUnder
<1>7. CASE Accept(t, call.counts)
  <2>1. /\ Listed(es) \in AfterFrom(Listed(store.entries), request)[Len(request.ops)]
        /\ request.api = "xmp" => RootsGood(Listed(es), request.ops)
    BY <1>1, <1>2, TypedCallEnds DEF TypedUnder, Busy
  <2>2. request.api \in {"typed", "xmp"}
    BY <1>1 DEF TypedUnder, ByKeyApi
  <2>3. EditedFor(store, request, t, call.counts)
    BY <1>5, <2>1, <2>2 DEF EditedFor
  <2>4. Done(store, request, t, call.counts)
    BY <1>5, <2>1, <2>2, <2>3 DEF Done
  <2> QED BY <1>1, <1>7, <2>4 DEF Accepts, TypedUnder
<1>8. ASSUME NEW n \in 1..Len(call.writers),
             TypedRefuse("ValidationFailed", call.owner, call.writers[n], n)
      PROVE  Refuses
  <2>1. PICK why, w : why = "ValidationFailed" /\ w = call.writers[n]
    OBVIOUS
  <2>2. why # "Ok" /\ why \notin Lists!NoTarget /\ why \notin Missing
    BY <2>1, PlainStatus
  <2>3. n \in 1..Len(es) /\ w \in 0..call.next - 1 /\ (w > 0 => call.ops[w].key = es[n].key)
    BY <1>4, <2>1 DEF Answered
  <2>4. w \in 0..Len(call.ops)
    BY <1>1, <2>3 DEF TypedUnder
  <2>5. w > 0 /\ n \in 1..Len(store.entries) => call.ops[w].key = store.entries[n].key
    BY <1>4, <2>3 DEF Edited
  <2>6. TypedRefuse(why, call.owner, w, n)
    BY <1>8, <2>1
  <2> QED BY <1>1, <2>2, <2>4, <2>5, <2>6, TypedRefuses DEF TypedUnder
<1> QED BY <1>3, <1>6, <1>7, <1>8 DEF TypedEnd

-----------------------------------------------------------------------------
(* The steps of a call by scope, and the calls that make a new store.       *)

\* The steps of edit_metadata_xmp().
LEMMA XmpBeginStep ==
    ASSUME HostIs, XmpBegin
    PROVE  Goes \/ Refuses
<1>1. Busy /\ request.api = "xmp" /\ Len(request.ops) \in Nat
  BY BusyAsked DEF XmpBegin
<1>2. PICK why, v, c : /\ why = XmpRefusal(store, request.ops)
                       /\ v = StartVerdict(store, request.ops) /\ c = XmpStart(store, request.ops)
  OBVIOUS
<1>3. why \in {"Ok", "BaseNotFinalized", "LimitExceeded", "TooManyOperations"}
  BY <1>2 DEF XmpRefusal
<1>4. IF why # "Ok" THEN Refuse(why, 0)
      ELSE IF v # Ok THEN Refuse(v.status, v.at) ELSE Continue(c)
  BY <1>2 DEF XmpBegin
<1>5. CASE why # "Ok"
  <2>1. Refuse(why, 0)
    BY <1>4, <1>5
  <2>2. why \notin Lists!NoTarget /\ 0 \in 0..Len(request.ops)
    BY <1>1, <1>3, <1>5 DEF Lists!NoTarget
  <2> QED BY <1>1, <1>5, <2>1, <2>2, PlainRefusal
<1>6. CASE why = "Ok" /\ v # Ok
  <2>1. Refuse(v.status, v.at)
    BY <1>4, <1>6
  <2>2. PICK found : found = Selected(store, request.ops)
    OBVIOUS
  <2>3. Refusal(v, request.ops, StartRefusals)
    BY <1>1, <1>2, <1>6, <2>2, StartVerdictIs DEF Busy
  <2>4. "Ok" \notin StartRefusals /\ StartRefusals \cap Lists!NoTarget = {}
    BY DEF StartRefusals, ScopeRefusals, Lists!NoTarget
  <2> QED BY <1>1, <2>1, <2>3, <2>4, VerdictRefusal
<1>7. CASE why = "Ok" /\ v = Ok
  <2>1. Continue(c)
    BY <1>4, <1>7
  <2>2. XmpIs(store, request, c)
    BY <1>1, <1>2, <1>7, XmpBegins DEF Busy
  <2>3. c.stage = "xmp"
    BY <1>2 DEF XmpStart
  <2>4. CallIs(store, request, c)
    BY <1>1, <2>2, <2>3 DEF CallIs
  <2> QED BY <1>1, <2>1, <2>4 DEF Goes
<1> QED BY <1>5, <1>6, <1>7

\* What the call knows between its steps.
LEMMA XmpAt ==
    ASSUME HostIs, At("xmp")
    PROVE  /\ Busy /\ IsStore(store) /\ IsRequest(request) /\ Len(request.ops) \in Nat
           /\ request.api = "xmp" /\ XmpIs(store, request, call)
<1>1. /\ CallIs(store, request, call) /\ call.stage = "xmp"
      /\ Busy /\ Len(request.ops) \in Nat
  BY BusyAt
<1> QED BY <1>1 DEF CallIs, Busy

LEMMA XmpOpStep ==
    ASSUME HostIs, XmpOp
    PROVE  Goes \/ Refuses
<1>1. /\ Busy /\ IsStore(store) /\ IsRequest(request) /\ Len(request.ops) \in Nat
      /\ request.api = "xmp" /\ XmpIs(store, request, call)
  BY XmpAt DEF XmpOp
<1>2. PICK op, why, d : /\ op = call.ops[call.next] /\ why = XmpStatus(call, op)
                        /\ d = XmpStep(call, op)
  OBVIOUS
<1>3. call.next <= Len(call.ops)
  BY DEF XmpOp, More
<1>4. IF why # "Ok" THEN Refuse(why, call.next) ELSE Continue(d)
  BY <1>2 DEF XmpOp
<1>5. /\ call.next \in 1..Len(request.ops) /\ IsOperation("xmp", op) /\ Len(call.state) \in Nat
      /\ (op.kind = "Remove" => op.entries = <<>>)
  BY <1>1, <1>2, <1>3, XmpNext
<1>6. CASE why = "Ok"
  <2>1. XmpIs(store, request, d)
    BY <1>1, <1>2, <1>3, <1>6, XmpDoes
  <2>2. d.stage = "xmp"
    BY <2>1 DEF XmpIs, XmpShape
  <2>3. CallIs(store, request, d)
    BY <1>1, <2>1, <2>2 DEF CallIs
  <2>4. Continue(d)
    BY <1>4, <1>6
  <2> QED BY <1>1, <2>3, <2>4 DEF Goes
<1>7. CASE why \in ContentRefusals
  <2>1. why # "Ok" /\ why \notin Lists!NoTarget
    BY <1>7 DEF ContentRefusals, Lists!NoTarget
  <2>2. Refuse(why, call.next)
    BY <1>4, <2>1
  <2>3. call.next \in 0..Len(request.ops)
    BY <1>5
  <2> QED BY <1>1, <2>1, <2>2, <2>3, PlainRefusal
<1>8. CASE why \notin {"Ok"} \cup ContentRefusals
  <2>1. Refuse(why, call.next) /\ why # "Ok"
    BY <1>4, <1>8
  <2>2. /\ AfterFrom(Listed(store.entries), request)[call.next - 1] # {}
        /\ AfterFrom(Listed(store.entries), request)[call.next] = {}
    BY <1>1, <1>2, <1>3, <1>8, XmpMisses
  <2> QED BY <1>1, <1>5, <2>1, <2>2, MissRefusal
<1> QED BY <1>6, <1>7, <1>8

LEMMA XmpOpTooLongStep ==
    ASSUME HostIs, XmpOpTooLong
    PROVE  Refuses
<1>1. /\ Busy /\ IsStore(store) /\ IsRequest(request) /\ Len(request.ops) \in Nat
      /\ request.api = "xmp" /\ XmpIs(store, request, call)
  BY XmpAt DEF XmpOpTooLong
<1>2. PICK op, why : op = call.ops[call.next] /\ why = "LimitExceeded"
  OBVIOUS
<1>3. call.next <= Len(call.ops) /\ Refuse(why, call.next)
  BY <1>2 DEF XmpOpTooLong, More
<1>4. call.next \in 1..Len(request.ops)
  BY <1>1, <1>2, <1>3, XmpNext
<1>5. call.next \in 0..Len(request.ops)
  BY <1>4
<1>6. why # "Ok" /\ why \notin Lists!NoTarget
  BY <1>2, PlainStatus
<1> QED BY <1>1, <1>3, <1>5, <1>6, PlainRefusal

\* The operations by exact key that the call asks for can be asked for.
LEMMA XmpAsks ==
    ASSUME NEW s, IsStore(s), NEW r, r.api = "xmp", NEW c, XmpIs(s, r, c)
    PROVE  /\ Len(c.expanded) \in Nat /\ Answering(r, c.expanded, c.owner)
           /\ TypedRefusal(s, c.expanded, MaxExpanded) = "Ok"
           /\ \A i \in 1..Len(c.expanded) : ~InvalidOp(c.expanded[i])
<1>1. Owned(r, c.expanded, c.owner) /\ ~(Len(c.expanded) > MaxExpanded)
  BY DEF XmpIs
<1>2. Len(c.expanded) \in Nat
  BY <1>1 DEF Owned, IsSequence
<1>3. s.sealed /\ ~(Len(s.entries) > MaxEntries \/ s.refused)
  BY DEF XmpIs, XmpRefusal
<1>4. TypedRefusal(s, c.expanded, MaxExpanded) = "Ok"
  BY <1>1, <1>3 DEF TypedRefusal
<1>5. ASSUME NEW i \in 1..Len(c.expanded)
      PROVE  /\ c.owner[i] \in 1..Len(r.ops) /\ InScope(r.ops[c.owner[i]].scope, c.expanded[i].key)
             /\ ~InvalidOp(c.expanded[i])
  BY <1>1 DEF Owned, Expanded
<1>6. Answering(r, c.expanded, c.owner)
  BY <1>5 DEF Answering, About
<1> QED BY <1>2, <1>4, <1>5, <1>6

LEMMA XmpEndStep ==
    ASSUME HostIs, XmpEnd
    PROVE  Goes \/ Refuses
<1>1. /\ Busy /\ IsStore(store) /\ IsRequest(request) /\ Len(request.ops) \in Nat
      /\ request.api = "xmp" /\ XmpIs(store, request, call)
  BY XmpAt DEF XmpEnd
<1>2. PICK v : v = EndVerdict(call)
  OBVIOUS
<1>3. ~(call.next <= Len(call.ops))
  BY DEF XmpEnd, More
<1>4. call.ops = request.ops
  BY <1>1 DEF XmpIs, XmpShape
<1>5. CASE v # Ok
  <2>1. Refuse(v.status, v.at)
    BY <1>2, <1>5 DEF XmpEnd
  <2>2. Refusal(v, request.ops, StartRefusals)
    BY <1>1, <1>2, <1>4, <1>5, EndVerdictIs
  <2>3. "Ok" \notin StartRefusals /\ StartRefusals \cap Lists!NoTarget = {}
    BY DEF StartRefusals, ScopeRefusals, Lists!NoTarget
  <2> QED BY <1>1, <2>1, <2>2, <2>3, VerdictRefusal
<1>6. CASE v = Ok
  <2>1. PICK policy, c : /\ policy = "FailIfPresent"
                         /\ c = TypedStart(store, call.expanded, call.owner, MaxExpanded, policy)
    OBVIOUS
  <2>2. TypedEnter(call.expanded, call.owner, MaxExpanded, policy)
    BY <1>2, <1>6, <2>1 DEF XmpEnd
  <2>3. TypedCall(store, request, c, store.entries)
    BY <1>1, <1>2, <1>3, <1>6, <2>1, XmpEnters
  <2>4. /\ Len(call.expanded) \in Nat /\ Answering(request, call.expanded, call.owner)
        /\ TypedRefusal(store, call.expanded, MaxExpanded) = "Ok"
        /\ \A i \in 1..Len(call.expanded) : ~InvalidOp(call.expanded[i])
    BY <1>1, XmpAsks
  <2>5. ByKeyApi /\ Own(call.expanded, call.owner)
    BY <1>1 DEF ByKeyApi, Own
  <2> QED BY <1>1, <2>1, <2>2, <2>3, <2>4, <2>5, TypedEnterStep
<1> QED BY <1>5, <1>6

-----------------------------------------------------------------------------
\* What a call counts that makes a store.
LEMMA MadeCounts ==
    ASSUME NEW n, NEW counts, counts = [NoCounts EXCEPT !.added = n]
    PROVE  counts.added = n /\ counts.removed = 0
BY DEF NoCounts

\* An answer with a new store.
LEMMA Makes ==
    ASSUME Busy, request.api \in {"fields", "entries"}, NEW t, IsStore(t), MadeOf(request, t),
           NEW counts, counts = [NoCounts EXCEPT !.added = Len(request.ops)],
           Accept(t, counts)
    PROVE  Accepts
<1>1. counts.added = Len(request.ops) /\ counts.removed = 0
  BY MadeCounts
<1>2. MadeFor(request, t, counts)
  BY <1>1 DEF MadeFor
<1>3. request.api # "xmp" /\ request.api # "logical"
  OBVIOUS
<1>4. Done(store, request, t, counts)
  BY <1>2, <1>3 DEF Done
<1> QED BY <1>4 DEF Accepts

\* create_metadata(), create_metadata_store(), and the limits of both.
LEMMA CreateFieldsStep ==
    ASSUME HostIs, CreateFields
    PROVE  Refuses \/ Accepts
<1>1. Busy /\ request.api = "fields" /\ Len(request.ops) \in Nat /\ IsRequest(request)
  BY BusyAsked DEF CreateFields, Busy
<1>2. PICK v, t, counts : /\ v = FieldsVerdict(request.ops) /\ t = StoreOfFields(request.ops)
                          /\ counts = [NoCounts EXCEPT !.added = Len(request.ops)]
  OBVIOUS
<1>3. IF v # Ok THEN Refuse(v.status, v.at) ELSE Accept(t, counts)
  BY <1>2 DEF CreateFields
<1>4. CASE v # Ok
  <2>1. Refuse(v.status, v.at)
    BY <1>3, <1>4
  <2>2. Refusal(v, request.ops, FieldRefusals)
    BY <1>1, <1>2, <1>4, FieldsVerdictIs
  <2>3. "Ok" \notin FieldRefusals /\ FieldRefusals \cap Lists!NoTarget = {}
    BY DEF FieldRefusals, Lists!NoTarget
  <2> QED BY <1>1, <2>1, <2>2, <2>3, VerdictRefusal
<1>5. CASE v = Ok
  <2>1. Accept(t, counts)
    BY <1>3, <1>5
  <2>2. IsStore(t) /\ MadeOf(request, t)
    BY <1>1, <1>2, <1>5, FieldsMade
  <2> QED BY <1>1, <1>2, <2>1, <2>2, Makes
<1> QED BY <1>4, <1>5

LEMMA CreateEntriesStep ==
    ASSUME HostIs, CreateEntries
    PROVE  Refuses \/ Accepts
<1>1. Busy /\ request.api = "entries" /\ Len(request.ops) \in Nat /\ IsRequest(request)
  BY BusyAsked DEF CreateEntries, Busy
<1>2. PICK v, t, counts : /\ v = EntriesVerdict(request.ops, request.policy)
                          /\ t = StoreOfEntries(request.ops)
                          /\ counts = [NoCounts EXCEPT !.added = Len(request.ops)]
  OBVIOUS
<1>3. IF v # Ok THEN Refuse(v.status, v.at) ELSE Accept(t, counts)
  BY <1>2 DEF CreateEntries
<1>4. CASE v # Ok
  <2>1. Refuse(v.status, v.at)
    BY <1>3, <1>4
  <2>2. Refusal(v, request.ops, EntryRefusals)
    BY <1>1, <1>2, <1>4, EntriesVerdictIs
  <2>3. "Ok" \notin EntryRefusals /\ EntryRefusals \cap Lists!NoTarget = {}
    BY DEF EntryRefusals, Lists!NoTarget
  <2> QED BY <1>1, <2>1, <2>2, <2>3, VerdictRefusal
<1>5. CASE v = Ok
  <2>1. Accept(t, counts)
    BY <1>3, <1>5
  <2>2. IsStore(t) /\ MadeOf(request, t)
    BY <1>1, <1>2, <1>5, EntriesMade
  <2> QED BY <1>1, <1>2, <2>1, <2>2, Makes
<1> QED BY <1>4, <1>5

LEMMA CreateRefusedStep ==
    ASSUME HostIs, CreateRefused
    PROVE  Refuses
<1>1. Busy
  BY BusyAsked DEF CreateRefused
<1>2. PICK why : why = "LimitExceeded"
  OBVIOUS
<1>3. PICK i \in 0..Len(request.ops) : Refuse(why, i)
  BY <1>2 DEF CreateRefused
<1>4. why # "Ok" /\ why \notin Lists!NoTarget
  BY <1>2, PlainStatus
<1> QED BY <1>1, <1>3, <1>4, PlainRefusal

-----------------------------------------------------------------------------
\* Whatever the host or a call does.
LEMMA StepKinds ==
    ASSUME HostIs, [Next]_vars
    PROVE  Ask \/ Dismiss \/ Goes \/ Refuses \/ Accepts \/ UNCHANGED vars
<1>1. CASE Ask \/ Dismiss \/ UNCHANGED vars
  BY <1>1
<1>2. CASE LogicalBegin
  BY <1>2, LogicalBeginStep
<1>3. CASE LogicalOp
  BY <1>3, LogicalOpStep
<1>4. CASE LogicalOpTooLong
  BY <1>4, LogicalOpTooLongStep
<1>5. CASE LogicalEnd
  BY <1>5, LogicalEndStep
<1>6. CASE TypedBegin
  BY <1>6, TypedBeginStep
<1>7. CASE TypedOp
  BY <1>7, TypedOpStep
<1>8. CASE TypedOpTooLong
  BY <1>8, TypedOpTooLongStep
<1>9. CASE TypedEnd
  BY <1>9, TypedEndStep
<1>10. CASE XmpBegin
  BY <1>10, XmpBeginStep
<1>11. CASE XmpOp
  BY <1>11, XmpOpStep
<1>12. CASE XmpOpTooLong
  BY <1>12, XmpOpTooLongStep
<1>13. CASE XmpEnd
  BY <1>13, XmpEndStep
<1>14. CASE CreateFields
  BY <1>14, CreateFieldsStep
<1>15. CASE CreateEntries
  BY <1>15, CreateEntriesStep
<1>16. CASE CreateRefused
  BY <1>16, CreateRefusedStep
<1> QED BY <1>1, <1>2, <1>3, <1>4, <1>5, <1>6, <1>7, <1>8, <1>9, <1>10, <1>11, <1>12, <1>13,
           <1>14, <1>15, <1>16 DEF Next

-----------------------------------------------------------------------------
(* The invariants.                                                          *)

\* The roots of a list that an edit by scope leads to, as a store has them.
RootGood(s, root) ==
    LET live == {n \in LiveXmp(s) : s.entries[n].key.root = root}
    IN  /\ \A n \in live : Trackable(s.entries[n])
        /\ \A m, n \in live : m # n =>
              PairStatus(s.entries[m], s.entries[n]) = "Ok"
        /\ root \in Customs /\ live # {} =>
              \E n \in live : s.entries[n].key = Key(root, 0, NoLeaf)
                             /\ s.entries[n].wire = Form

\* What a host sees of an entry says whether the call can track it.
LEMMA ViewTrackable ==
    ASSUME NEW e, Trackable(View(e))
    PROVE  Trackable(e)
<1>1. PICK x : x = View(e)
  OBVIOUS
<1>2. x.key = e.key /\ x.value = e.value /\ x.wire = e.wire /\ x.flags = e.flags
  BY <1>1 DEF View
<1>3. Trackable(x)
  BY <1>1
<1> QED BY <1>2, <1>3 DEF Trackable

\* Roots that are right in the view of a store are right in the store.
LEMMA RootsGoodIs ==
    ASSUME NEW ops, NEW s, IsStore(s), RootsGood(Listed(s.entries), ops),
           NEW root \in AllRoots(ops)
    PROVE  RootGood(s, root)
<1>1. PICK es, l, R : es = s.entries /\ l = Listed(es) /\ R = AllRoots(ops)
  OBVIOUS
<1>2. PICK live : live = {n \in LiveXmp(s) : s.entries[n].key.root = root}
  OBVIOUS
<1>3. IsSequence(es)
  BY <1>1 DEF IsStore
<1>4. Len(l) = Len(es) /\ \A n \in 1..Len(es) : l[n] = View(es[n])
  BY <1>1, <1>3, ListedIs
<1>5. ASSUME NEW n \in 1..Len(es)
      PROVE  l[n].key = es[n].key /\ l[n].wire = es[n].wire /\ l[n].flags = es[n].flags
  <2>1. l[n] = View(es[n])
    BY <1>4
  <2>2. PICK x : x = View(es[n])
    OBVIOUS
  <2>3. x.key = es[n].key /\ x.wire = es[n].wire /\ x.flags = es[n].flags
    BY <2>2 DEF View
  <2> QED BY <2>1, <2>2, <2>3
<1>6. WellFormed(l, R) /\ DeclaredIn(l, R)
  BY <1>1 DEF RootsGood
<1>7. \A n : n \in live <=> /\ n \in RootLive(l, R) /\ l[n].key.root = root
                           /\ root \notin Native
  BY <1>1, <1>2, <1>4, <1>5 DEF LiveXmp, RootLive, Deleted
<1>8. \A n : n \in RootLive(l, R) => n \in 1..Len(es)
  BY <1>4 DEF RootLive
<1>9. \A n \in live : Trackable(es[n])
  BY <1>4, <1>6, <1>7, <1>8, ViewTrackable DEF WellFormed
<1>10. ASSUME NEW m \in live, NEW n \in live, m # n
       PROVE  PairStatus(es[m], es[n]) = "Ok"
  <2>1. Fit(l[m].key, l[n].key)
    BY <1>6, <1>7, <1>10 DEF WellFormed
  <2>2. Fit(es[m].key, es[n].key)
    BY <1>5, <1>7, <1>8, <2>1
  <2> QED BY <2>2, FitIs
<1>11. ASSUME root \in Customs, live # {}
       PROVE  \E n \in live : es[n].key = Key(root, 0, NoLeaf) /\ es[n].wire = Form
  <2>1. root \in Customs \cap R
    BY <1>1, <1>11
  <2>2. PICK m : m \in live
    BY <1>11
  <2>3. m \in RootLive(l, R) /\ l[m].key.root = root /\ root \notin Native
    BY <1>7, <2>2
  <2>4. PICK n \in RootLive(l, R) : l[n].key = Key(root, 0, NoLeaf) /\ l[n].wire = Form
    BY <1>6, <2>1, <2>3 DEF DeclaredIn
  <2>5. l[n].key.root = root
    BY <2>4 DEF Key
  <2>6. n \in live
    BY <1>7, <2>3, <2>5
  <2> QED BY <1>5, <1>8, <2>4, <2>6
<1> QED BY <1>1, <1>2, <1>9, <1>10, <1>11 DEF RootGood

\* The inductive invariant.
HostInv == HostIs /\ BlameIsRight /\ XmpNeverMisses /\ RootsWellFormed

\* It holds of a store that a decoder or a host has made.
LEMMA HostBegins ==
    ASSUME Init
    PROVE  HostInv
<1>1. answer = None /\ request = None /\ call = None /\ IsStore(store)
  BY HostAssumption DEF Init
<1> QED BY <1>1 DEF HostInv, HostIs, BlameIsRight, XmpNeverMisses, RootsWellFormed, Accepted

\* Every kind of step keeps it.
LEMMA AskKeeps ==
    ASSUME HostIs, Ask
    PROVE  HostInv'
<1>1. answer = None /\ call = None
  BY DEF HostIs, Ask
<1>2. answer' = None /\ call' = None /\ store' = store /\ request' \in Requests
  BY <1>1 DEF Ask
<1>3. HostIs'
  BY <1>2 DEF HostIs
<1> QED BY <1>2, <1>3 DEF HostInv, BlameIsRight, XmpNeverMisses, RootsWellFormed, Accepted

LEMMA DismissKeeps ==
    ASSUME HostIs, Dismiss
    PROVE  HostInv'
<1>1. answer # None /\ call = None
  BY DEF HostIs, Dismiss
<1>2. answer' = None /\ call' = None /\ store' = store /\ request' = None
  BY <1>1 DEF Dismiss
<1>3. HostIs'
  BY <1>2 DEF HostIs
<1> QED BY <1>2, <1>3 DEF HostInv, BlameIsRight, XmpNeverMisses, RootsWellFormed, Accepted

LEMMA GoesKeeps ==
    ASSUME HostIs, Goes
    PROVE  HostInv'
<1>1. PICK c : Continue(c) /\ CallIs(store, request, c)
  BY DEF Goes
<1>2. request # None /\ answer = None
  BY DEF Goes, Busy
<1>3. call' = c /\ store' = store /\ request' = request /\ answer' = answer
  BY <1>1 DEF Continue
<1>4. CallIs(store', request', call')
  BY <1>1, <1>3
<1>5. HostIs'
  BY <1>2, <1>3, <1>4 DEF HostIs
<1> QED BY <1>2, <1>3, <1>5 DEF HostInv, BlameIsRight, XmpNeverMisses, RootsWellFormed, Accepted

LEMMA RefusesKeeps ==
    ASSUME HostIs, Refuses
    PROVE  HostInv'
<1>1. PICK status, at, entry, typed :
            /\ Reply(store, status, at, entry, typed, NoCounts)
            /\ Just(store, request, status, at, entry, typed)
  BY DEF Refuses
<1>2. request # None
  BY DEF Refuses, Busy
<1>3. call' = None /\ store' = store /\ request' = request
  BY <1>1 DEF Reply
<1>4. /\ answer'.status = status /\ answer'.at = at /\ answer'.entry = entry
      /\ answer'.typed = typed
  BY <1>1 DEF Reply
<1>5. HostIs'
  BY <1>2, <1>3 DEF HostIs
<1>6. /\ status # "Ok" /\ at \in 0..Len(request.ops)
      /\ at > 0 /\ entry \in 1..Len(store.entries) =>
            About(request, at, store.entries[entry].key)
      /\ request.api = "xmp" => typed \notin Missing
  BY <1>1 DEF Just
<1>7. BlameIsRight'
  <2>1. SUFFICES ASSUME answer'.at > 0
                 PROVE  /\ answer'.at <= Len(request'.ops)
                        /\ answer'.entry \in 1..Len(store'.entries) =>
                              About(request', answer'.at, store'.entries[answer'.entry].key)
    BY DEF BlameIsRight, About
  <2>2. at <= Len(request.ops)
    BY <1>4, <1>6, <2>1
  <2> QED BY <1>3, <1>4, <1>6, <2>1, <2>2
<1>8. XmpNeverMisses'
  BY <1>3, <1>4, <1>6 DEF XmpNeverMisses, Missing
<1>9. RootsWellFormed'
  BY <1>4, <1>6 DEF RootsWellFormed, Accepted
<1> QED BY <1>5, <1>7, <1>8, <1>9 DEF HostInv

LEMMA AcceptsKeeps ==
    ASSUME HostIs, Accepts
    PROVE  HostInv'
<1>1. PICK t, counts : Accept(t, counts) /\ Done(store, request, t, counts)
  BY DEF Accepts
<1>2. request # None
  BY DEF Accepts, Busy
<1>3. call' = None /\ store' = t /\ request' = request
  BY <1>1 DEF Accept, Reply
<1>4. answer'.at = 0 /\ answer'.typed = "Ok"
  BY <1>1 DEF Accept, Reply
<1>5. IsStore(t)
  BY <1>1 DEF Done
<1>6. HostIs'
  BY <1>2, <1>3, <1>5 DEF HostIs
<1>7. BlameIsRight'
  BY <1>4 DEF BlameIsRight
<1>8. "Ok" \notin Missing
  BY DEF Missing, Lists!NoTarget
<1>9. XmpNeverMisses'
  BY <1>4, <1>8 DEF XmpNeverMisses, Missing
<1>10. RootsWellFormed'
  <2>1. SUFFICES ASSUME request'.api = "xmp",
                        NEW root \in Roots(request'.ops, Len(request'.ops))
                 PROVE  RootGood(store', root)
    BY DEF RootsWellFormed, Accepted, RootGood
  <2>2. RootsGood(Listed(t.entries), request.ops)
    BY <1>1, <1>3, <2>1 DEF Done
  <2>3. root \in AllRoots(request.ops)
    BY <1>3, <2>1 DEF AllRoots
  <2>4. RootGood(t, root)
    BY <1>5, <2>2, <2>3, RootsGoodIs
  <2> QED BY <1>3, <2>4
<1> QED BY <1>6, <1>7, <1>9, <1>10 DEF HostInv

LEMMA NothingKeeps ==
    ASSUME HostInv, UNCHANGED vars
    PROVE  HostInv'
<1>1. store' = store /\ request' = request /\ call' = call /\ answer' = answer
  BY DEF vars
<1> QED BY <1>1 DEF HostInv, HostIs, BlameIsRight, XmpNeverMisses, RootsWellFormed, Accepted

\* Between two steps of any call, edit_metadata(), edit_metadata_typed() and
\* edit_metadata_xmp() know of the store what its entries are, and every answer is
\* right: the inductive invariant of the calls.
THEOREM HostStaysRight == Spec => []HostInv
<1>1. ASSUME HostInv, [Next]_vars PROVE HostInv'
  <2>1. HostIs
    BY <1>1 DEF HostInv
  <2> QED BY <1>1, <2>1, StepKinds, AskKeeps, DismissKeeps, GoesKeeps, RefusesKeeps, AcceptsKeeps,
             NothingKeeps
<1> QED BY <1>1, HostBegins, PTL DEF Spec

\* An answer of the editing calls blames an operation of the request, and an entry of
\* the base only with the operation that is about it, through expanded_owner and
\* last_writer (metadata_xmp_editing.cc, metadata_authoring.cc).
THEOREM BlameIsAlwaysRight == Spec => []BlameIsRight
<1>1. HostInv => BlameIsRight
  BY DEF HostInv
<1> QED BY <1>1, HostStaysRight, PTL

\* edit_metadata_xmp() never hands edit_metadata_typed() an operation whose target is
\* missing, ambiguous or already there: compact_state() keeps up with the edits.
THEOREM XmpNeverEverMisses == Spec => []XmpNeverMisses
<1>1. HostInv => XmpNeverMisses
  BY DEF HostInv
<1> QED BY <1>1, HostStaysRight, PTL

\* After edit_metadata_xmp() has answered Ok, every root of the request has each
\* property once, in one shape, and a custom root its declaration.
THEOREM RootsStayWellFormed == Spec => []RootsWellFormed
<1>1. HostInv => RootsWellFormed
  BY DEF HostInv
<1> QED BY <1>1, HostStaysRight, PTL

-----------------------------------------------------------------------------

\* Nothing is added when the store is the same.
LEMMA SameStore ==
    ASSUME NEW s, IsStore(s)
    PROVE  ComeLast(s, s)
<1>1. Len(s.entries) \in Nat
  BY DEF IsStore, IsSequence
<1>2. \A n : ~(n \in Len(s.entries) + 1..Len(s.entries))
  BY <1>1
<1> QED BY <1>2 DEF ComeLast

\* Both are about a request by field.
LEMMA LogicalAsked ==
    ASSUME HostIs, Asked("logical") \/ At("logical")
    PROVE  request # None /\ answer = None /\ request.api = "logical"
<1>1. CASE Asked("logical")
  BY <1>1 DEF Asked
<1>2. CASE At("logical")
  <2>1. PICK es : LogicalCall(store, request, call, es)
    BY <1>2, LogicalAt
  <2> QED BY <1>2, <2>1 DEF At, HostIs, LogicalCall
<1> QED BY <1>1, <1>2

\* Whatever step answers such a request.
LEMMA StepComesLast ==
    ASSUME HostIs, [Next]_vars, Asked("logical") \/ At("logical")
    PROVE  ComeLast(store, store')
<1>1. request # None /\ answer = None /\ request.api = "logical"
  BY LogicalAsked
<1>2. IsStore(store)
  BY DEF HostIs
<1>3. CASE store' = store
  BY <1>2, <1>3, SameStore
<1>4. CASE Ask \/ Dismiss
  BY <1>1, <1>4 DEF Ask, Dismiss
<1>5. CASE Goes \/ Refuses \/ UNCHANGED vars
  <2>1. store' = store
    BY <1>5 DEF Goes, Refuses, Continue, Reply, vars
  <2> QED BY <1>3, <2>1
<1>6. CASE Accepts
  <2>1. PICK t, counts : Accept(t, counts) /\ Done(store, request, t, counts)
    BY <1>6 DEF Accepts
  <2>2. store' = t /\ ComeLast(store, t)
    BY <1>1, <2>1 DEF Accept, Reply, Done
  <2> QED BY <2>2
<1> QED BY <1>4, <1>5, <1>6, StepKinds

\* What edit_metadata() adds to a block comes after every XMP entry of that block, in
\* the order of the request (select_addition_origin, saturating order_in_block).
THEOREM AddedAlwaysComeLast == Spec => AddedComeLast
<1>1. ASSUME HostInv, [Next]_vars
      PROVE  [Asked("logical") \/ At("logical") => ComeLast(store, store')]_vars
  <2>1. HostIs
    BY <1>1 DEF HostInv
  <2> QED BY <1>1, <2>1, StepComesLast
<1> QED BY <1>1, HostStaysRight, PTL DEF Spec, AddedComeLast

-----------------------------------------------------------------------------
(* The editing calls implement the lists.                                   *)

\* What the lists see of a store is the view of its entries.
LEMMA SeenIs == \A s : Seen(s) = Listed(s.entries)
BY DEF Seen, Listed, View

\* What the lists see of an answer.
ShownAs(a) == [status |-> a.status, at |-> a.at,
               added |-> a.counts.added, removed |-> a.counts.removed]

\* It is an answer, and what it says.
LEMMA ShownIs ==
    ASSUME NEW a, NEW status, NEW at, NEW entry, NEW typed, NEW counts,
           a = [status |-> status, at |-> at, entry |-> entry, typed |-> typed,
                counts |-> counts]
    PROVE  /\ a # None
           /\ ShownAs(a) = [status |-> status, at |-> at,
                            added |-> counts.added, removed |-> counts.removed]
BY DEF None, ShownAs

LEMMA ShownSome == \A a : ShownAs(a) # None
BY DEF None, ShownAs

LEMMA NoneIs == Lists!None = None
BY DEF Lists!None, None

\* A reply as the lists see it.
LEMMA ReplyShown ==
    ASSUME NEW s, NEW status, NEW at, NEW entry, NEW typed, NEW counts,
           Reply(s, status, at, entry, typed, counts)
    PROVE  /\ SeenAnswer' = [status |-> status, at |-> at,
                             added |-> counts.added, removed |-> counts.removed]
           /\ SeenAnswer' # None /\ store' = s /\ request' = request
<1>1. PICK a : a = [status |-> status, at |-> at, entry |-> entry, typed |-> typed,
                    counts |-> counts]
  OBVIOUS
<1>2. answer' = a /\ store' = s /\ request' = request
  BY <1>1 DEF Reply
<1>3. /\ a # None
      /\ ShownAs(a) = [status |-> status, at |-> at,
                       added |-> counts.added, removed |-> counts.removed]
  BY <1>1, ShownIs
<1>4. SeenAnswer' = ShownAs(a)
  BY <1>2, <1>3 DEF SeenAnswer, ShownAs
<1> QED BY <1>2, <1>3, <1>4, ShownSome

\* There is an answer for both or for none.
LEMMA SeenNone ==
    ASSUME answer = None
    PROVE  SeenAnswer = None
BY DEF SeenAnswer

LEMMA SeenSome ==
    ASSUME answer # None
    PROVE  SeenAnswer # None
<1>1. SeenAnswer = ShownAs(answer)
  BY DEF SeenAnswer, ShownAs
<1> QED BY <1>1, ShownSome

\* The initial states, and each kind of step.
LEMMA ListsBegin ==
    ASSUME Init
    PROVE  Lists!Init
<1>1. store \in InitStores /\ request = None /\ answer = None
  BY DEF Init
<1>2. Seen(store) \in {Seen(s) : s \in InitStores}
  BY <1>1
<1> QED BY <1>1, <1>2, SeenNone, NoneIs DEF Lists!Init

LEMMA ListsAsk ==
    ASSUME HostIs, Ask
    PROVE  Lists!Ask
<1>1. request = None /\ request' \in Requests /\ store' = store /\ answer' = answer
  BY DEF Ask
<1>2. Seen(store)' = Seen(store) /\ SeenAnswer' = SeenAnswer
  BY <1>1 DEF Seen, SeenAnswer
<1> QED BY <1>1, <1>2, NoneIs DEF Lists!Ask

LEMMA ListsDismiss ==
    ASSUME HostIs, Dismiss
    PROVE  Lists!Dismiss
<1>1. answer # None /\ answer' = None /\ request' = None /\ store' = store
  BY DEF Dismiss
<1>2. Seen(store)' = Seen(store)
  BY <1>1 DEF Seen
<1>3. SeenAnswer' = None
  BY <1>1 DEF SeenAnswer
<1> QED BY <1>1, <1>2, <1>3, SeenSome, NoneIs DEF Lists!Dismiss

\* A call is under way for the lists too.
LEMMA ListsBusy ==
    ASSUME Busy
    PROVE  /\ SeenAnswer = None /\ request # None
           /\ (request.api \in {"logical", "typed", "xmp"} => Lists!Editing)
           /\ (request.api \in {"fields", "entries"} => Lists!Creating)
           /\ (Lists!Editing \/ Lists!Creating)
<1>1. request # None /\ answer = None
  BY DEF Busy
<1>2. request.api \in {"logical", "typed", "xmp"} \/ request.api \in {"fields", "entries"}
  BY DEF Busy, IsRequest
<1>3. SeenAnswer = None
  BY <1>1, SeenNone
<1> QED BY <1>1, <1>2, <1>3, NoneIs DEF Lists!Editing, Lists!Creating

LEMMA ListsGo ==
    ASSUME HostIs, Goes
    PROVE  UNCHANGED Lists!vars
<1>1. store' = store /\ request' = request /\ answer' = answer
  BY DEF Goes, Continue
<1> QED BY <1>1 DEF Lists!vars, Seen, SeenAnswer

LEMMA ListsRefuse ==
    ASSUME HostIs, Refuses
    PROVE  Lists!Refuse
<1>1. PICK status, at, entry, typed :
            /\ Reply(store, status, at, entry, typed, NoCounts)
            /\ Just(store, request, status, at, entry, typed)
  BY DEF Refuses
<1>2. /\ SeenAnswer' = [status |-> status, at |-> at,
                        added |-> NoCounts.added, removed |-> NoCounts.removed]
      /\ SeenAnswer' # None /\ store' = store /\ request' = request
  BY <1>1, ReplyShown
<1>3. SeenAnswer'.status = status /\ SeenAnswer'.at = at
  BY <1>2
<1>4. Seen(store)' = Seen(store)
  BY <1>2 DEF Seen
<1>5. /\ status # "Ok" /\ at \in 0..Len(request.ops)
      /\ status \in Lists!NoTarget =>
            /\ at > 0 /\ Lists!After(request, at - 1) # {}
            /\ Lists!After(request, at) = {} \/ Lists!Unheeded(request, at, status)
  BY <1>1, AfterIs, SeenIs DEF Just
<1>6. Lists!Editing \/ Lists!Creating
  BY ListsBusy DEF Refuses
<1> QED BY <1>2, <1>3, <1>4, <1>5, <1>6, NoneIs DEF Lists!Refuse

LEMMA ListsEdit ==
    ASSUME Busy, NEW t, NEW counts, Accept(t, counts), IsStore(t),
           EditedFor(store, request, t, counts)
    PROVE  Lists!Edit
<1>1. Reply(t, "Ok", 0, 0, "Ok", counts)
  BY DEF Accept
<1>2. /\ SeenAnswer' = [status |-> "Ok", at |-> 0, added |-> counts.added,
                        removed |-> counts.removed]
      /\ store' = t /\ request' = request
  BY <1>1, ReplyShown
<1>3. Seen(store)' = Listed(t.entries) /\ Seen(store) = Listed(store.entries)
  <2>1. Seen(store)' = Seen(t)
    BY <1>2 DEF Seen
  <2> QED BY <2>1, SeenIs
<1>4. Listed(t.entries) \in Lists!After(request, Len(request.ops))
  BY <1>3, AfterIs DEF EditedFor
<1>5. /\ IsSequence(t.entries) /\ IsSequence(store.entries)
  BY DEF IsStore, Busy
<1>6. /\ Len(Listed(t.entries)) = Len(t.entries)
      /\ Len(Listed(store.entries)) = Len(store.entries)
      /\ Lists!Dead(Listed(t.entries)) = Dying(t.entries)
      /\ Lists!Dead(Listed(store.entries)) = Dying(store.entries)
  BY <1>5, ListedIs, DyingIs
<1>7. /\ counts.added = Len(Listed(t.entries)) - Len(Listed(store.entries))
      /\ counts.removed = Lists!Dead(Listed(t.entries)) - Lists!Dead(Listed(store.entries))
  BY <1>6 DEF EditedFor
<1>8. Lists!Editing
  BY ListsBusy DEF EditedFor
<1>9. SeenAnswer' = [status |-> "Ok", at |-> 0,
                     added |-> Len(Seen(store)') - Len(Seen(store)),
                     removed |-> Lists!Dead(Seen(store)') - Lists!Dead(Seen(store))]
  BY <1>2, <1>3, <1>7
<1> QED BY <1>2, <1>3, <1>4, <1>8, <1>9 DEF Lists!Edit

LEMMA ListsCreate ==
    ASSUME Busy, NEW t, NEW counts, Accept(t, counts), IsStore(t),
           MadeFor(request, t, counts)
    PROVE  Lists!Create
<1>1. Reply(t, "Ok", 0, 0, "Ok", counts)
  BY DEF Accept
<1>2. /\ SeenAnswer' = [status |-> "Ok", at |-> 0, added |-> counts.added,
                        removed |-> counts.removed]
      /\ store' = t /\ request' = request
  BY <1>1, ReplyShown
<1>3. PICK l : l = Listed(t.entries)
  OBVIOUS
<1>4. Seen(store)' = l
  <2>1. Seen(store)' = Seen(t)
    BY <1>2 DEF Seen
  <2> QED BY <1>3, <2>1, SeenIs
<1>5. /\ request.api \in {"fields", "entries"} /\ MadeOf(request, t)
      /\ counts.added = Len(request.ops) /\ counts.removed = 0
  BY DEF MadeFor
<1>6. Lists!Creating
  BY <1>5, ListsBusy
<1>7. /\ Len(l) = Len(request.ops)
      /\ \A n \in 1..Len(l) :
            IF request.api = "entries"
            THEN l[n] = Lists!Entry(request.ops[n].key, request.ops[n].value, request.ops[n].wire)
            ELSE /\ l[n] = Lists!Entry(l[n].key, request.ops[n].value, "none")
                 /\ Lists!OfField(request.ops[n].field, l[n].key)
      /\ request.api = "fields" \/ request.policy = "RejectExactKeys" =>
            \A m, n \in 1..Len(l) : m # n => l[m].key # l[n].key
  BY <1>3, <1>5 DEF MadeOf
<1>8. SeenAnswer' = [status |-> "Ok", at |-> 0, added |-> Len(l), removed |-> 0]
  BY <1>2, <1>5, <1>7
<1> QED BY <1>2, <1>4, <1>6, <1>7, <1>8 DEF Lists!Create

LEMMA ListsAccept ==
    ASSUME HostIs, Accepts
    PROVE  Lists!Edit \/ Lists!Create
<1>1. PICK t, counts : Accept(t, counts) /\ Done(store, request, t, counts)
  BY DEF Accepts
<1>2. Busy
  BY DEF Accepts
<1>3. /\ IsStore(t)
      /\ EditedFor(store, request, t, counts) \/ MadeFor(request, t, counts)
  BY <1>1 DEF Done
<1> QED BY <1>1, <1>2, <1>3, ListsEdit, ListsCreate

LEMMA ListsStep ==
    ASSUME HostIs, [Next]_vars
    PROVE  [Lists!Next]_(Lists!vars)
<1>1. CASE UNCHANGED vars
  BY <1>1 DEF vars, Lists!vars, Seen, SeenAnswer
<1> QED BY <1>1, StepKinds, ListsAsk, ListsDismiss, ListsGo, ListsRefuse, ListsAccept
        DEF Lists!Next

\* The calls, which look entries up once and then go by predicted ids, do to the list
\* of entries what their operations would do one by one, or change nothing; and they
\* refuse for the lack of a target only at the first operation that has none.
THEOREM ListsAreImplemented == Spec => ImplementsLists
<1>1. ASSUME HostInv, [Next]_vars PROVE [Lists!Next]_(Lists!vars)
  <2>1. HostIs
    BY <1>1 DEF HostInv
  <2> QED BY <1>1, <2>1, ListsStep
<1> QED BY <1>1, HostStaysRight, ListsBegin, PTL DEF Spec, ImplementsLists, Lists!Spec
=============================================================================
