------------------------ MODULE MetadataPatch_proofs ------------------------
(***************************************************************************)
(* Three theorems of prepared patches, for every layout, number of         *)
(* workers, id, epoch span and history: handles are judged right, payloads *)
(* keep their shape, and batches are atomic (MetadataPatch implements      *)
(* PatchForms).                                                            *)
(***************************************************************************)
EXTENDS MetadataPatch, SequenceTheorems, FiniteSetTheorems, TLAPS

-----------------------------------------------------------------------------
(* Handles                                                                  *)

\* Dividing a handle gives back the id and the index it was made of.
LEMMA Parts ==
    ASSUME NEW id \in 1..MaxPlanId, NEW i \in 1..MaxHandles
    PROVE  /\ Token(id, i) # 0
           /\ Token(id, i) \div Radix = id
           /\ Token(id, i) % Radix = i
<1>1. /\ Radix \in Nat /\ MaxHandles \in Nat /\ MaxPlanId \in Nat
      /\ i < Radix /\ Radix > 0
    BY PatchAssumption
<1>2. DEFINE n == id * Radix
             m == (MaxPlanId + 1) * Radix
<1>3. n \in Nat /\ m \in Nat /\ n < m /\ n >= 0
    BY <1>1, SMTT(30)
<1>4. n % m = n
    <2> HIDE DEF n, m
    <2> QED BY <1>3, SMTT(30)
<1>5. Token(id, i) = id * Radix + i
    BY <1>4 DEF Token
<1>6. (id * Radix + i) \div Radix = id /\ (id * Radix + i) % Radix = i
    BY <1>1, SMTT(30)
<1> QED BY <1>1, <1>3, <1>5, <1>6

\* What a handle of the host is after n preparations, and what it has to do with
\* a plan or an instance x: the same id and the same preparation, or neither.
IsHandle(h, n) ==
    \E id \in 1..MaxPlanId, i \in 1..MaxHandles :
        h = Handle(id, h.gen, i) /\ h.gen \in 1..n

Owned(h, x) ==
    /\ PlanIdOf(h) = x.id <=> h.gen = x.gen
    /\ h.gen = x.gen => h.index \in 1..Len(x.slots)

Kin(x, y) ==
    /\ x.id = y.id <=> x.gen = y.gen
    /\ x.gen = y.gen => x.slots = y.slots

Owners == {plans[p] : p \in {q \in Plans : plans[q] # NoPlan}}
          \cup {instances[w] : w \in {v \in Workers : instances[v] # NoInstance}}

Related ==
    /\ \A x, y \in Owners : Kin(x, y)
    /\ \A h \in handles : IsHandle(h, generation) /\ \A x \in Owners : Owned(h, x)

LEMMA HandleParts ==
    ASSUME NEW h, NEW n, IsHandle(h, n)
    PROVE  /\ h.token # 0 /\ IndexOf(h) = h.index
           /\ PlanIdOf(h) \in 1..MaxPlanId /\ h.gen \in 1..n
<1>1. PICK id \in 1..MaxPlanId, i \in 1..MaxHandles :
          h = Handle(id, h.gen, i) /\ h.gen \in 1..n
    BY DEF IsHandle
<1>2. h.token = Token(id, i) /\ h.index = i
    BY <1>1 DEF Handle
<1> QED BY <1>1, <1>2, Parts DEF PlanIdOf, IndexOf

LEMMA NewHandle ==
    ASSUME NEW id \in 1..MaxPlanId, NEW g, NEW i \in 1..MaxHandles,
           NEW h, h = Handle(id, g, i)
    PROVE  PlanIdOf(h) = id /\ h.gen = g /\ h.index = i
BY Parts DEF Handle, PlanIdOf

-----------------------------------------------------------------------------
(* Plans and instances                                                      *)

IsSeq(p) == Len(p) \in Nat /\ p = [i \in 1..Len(p) |-> p[i]]

\* The payloads of an instance have the shape of those it was made with.
Shaped(x) ==
    /\ x.payloads = [f \in Families |-> x.payloads[f]]
    /\ \A f \in Families :
          /\ IsSeq(x.payloads[f]) /\ Len(x.payloads[f]) = Len(x.blank[f])
          /\ \A i \in 1..Len(x.payloads[f]) :
                OutsideSlots(x, f, i) => x.payloads[f][i] = x.blank[f][i]

IsPlan(x, n) ==
    /\ x.id \in 1..MaxPlanId /\ x.gen \in 1..n
    /\ Len(x.slots) <= MaxHandles
    /\ [slots |-> x.slots, payloads |-> x.payloads] \in Layouts

IsInstance(x, n) ==
    /\ x = [id |-> x.id, gen |-> x.gen, slots |-> x.slots, payloads |-> x.payloads,
            blank |-> x.blank, seen |-> x.seen, epoch |-> x.epoch]
    /\ x.id \in 1..MaxPlanId /\ x.gen \in 1..n
    /\ Len(x.slots) <= MaxHandles
    /\ [slots |-> x.slots, payloads |-> x.blank] \in Layouts
    /\ x.seen \in [1..Len(x.slots) -> Nat] /\ x.epoch \in 0..EpochSpan - 1
    /\ \A k \in 1..Len(x.slots) : x.seen[k] <= x.epoch
    /\ Shaped(x)

Typed ==
    /\ generation \in Nat
    /\ plans = [p \in Plans |-> plans[p]]
    /\ instances = [w \in Workers |-> instances[w]]
    /\ calls = [w \in Workers |-> calls[w]]
    /\ \A p \in Plans : plans[p] = NoPlan \/ IsPlan(plans[p], generation)
    /\ \A w \in Workers : instances[w] = NoInstance \/ IsInstance(instances[w], generation)

-----------------------------------------------------------------------------
(* Calls                                                                    *)

\* What a call reads is the host's, or in an instance that nobody patches but,
\* maybe, the call itself.
Readable(w, v) ==
    \/ v.in = Host /\ v \in HostValues
    \/ /\ v.in \in Workers /\ instances[v.in] # NoInstance
       /\ v.slot \in 1..Len(instances[v.in].slots)
       /\ v.in # w => calls[v.in] = NoCall

Passed(w, u) ==
    /\ u.handle.gen = instances[w].gen
    /\ ValueError(instances[w].slots[u.handle.index], u.value) = "None"
    /\ u.value.in = w => BytesOf(u.value) = <<>>

\* The stamps of this call, and no others.
Stamped(w, c) ==
    \A k \in 1..Len(instances[w].slots) :
        instances[w].seen[k] = instances[w].epoch
            <=> \E j \in 1..c.at - 1 : c.batch[j].handle.index = k

IsCall(w, c) ==
    /\ c = [phase |-> c.phase, batch |-> c.batch, at |-> c.at]
    /\ c.phase \in {"check", "write"}
    /\ instances[w] # NoInstance
    /\ Len(c.batch) \in Nat /\ c.at \in 1..Len(c.batch)
    /\ \A i \in 1..Len(c.batch) :
          /\ c.batch[i].handle \in handles \cup {NullHandle}
          /\ Readable(w, c.batch[i].value)
          /\ i < c.at \/ c.phase = "write" => Passed(w, c.batch[i])
    /\ c.phase = "check" => Stamped(w, c)

Calling == \A w \in Workers : calls[w] = NoCall \/ IsCall(w, calls[w])

Inv == Typed /\ Related /\ Calling

-----------------------------------------------------------------------------
(* The invariant gives the first theorem.                                   *)

LEMMA OwnHandle ==
    ASSUME Typed, Related, NEW w \in Workers, instances[w] # NoInstance,
           NEW h \in handles \cup {NullHandle}
    PROVE  /\ h.gen = instances[w].gen =>
                 /\ h \in handles /\ h.token # 0 /\ PlanIdOf(h) = instances[w].id
                 /\ IndexOf(h) = h.index /\ h.index \in 1..Len(instances[w].slots)
           /\ h.token # 0 /\ PlanIdOf(h) = instances[w].id => h.gen = instances[w].gen
<1>1. IsInstance(instances[w], generation) /\ instances[w].gen \in 1..generation
    BY DEF Typed, IsInstance
<1>2. CASE h = NullHandle
    <2>1. h.token = 0 /\ h.gen = 0
        BY <1>2 DEF NullHandle
    <2> QED BY <1>1, <2>1 DEF Typed
<1>3. CASE h \in handles
    <2>1. instances[w] \in Owners
        BY DEF Owners
    <2>2. IsHandle(h, generation) /\ Owned(h, instances[w])
        BY <1>3, <2>1 DEF Related
    <2> QED BY <1>3, <2>2, HandleParts DEF Owned
<1> QED BY <1>2, <1>3

LEMMA SameHandle ==
    ASSUME Typed, Related, NEW w \in Workers, instances[w] # NoInstance,
           NEW h \in handles \cup {NullHandle}, NEW k \in handles \cup {NullHandle},
           h.gen = instances[w].gen, k.gen = instances[w].gen, h.index = k.index
    PROVE  h = k
<1>1. /\ h \in handles /\ k \in handles
      /\ PlanIdOf(h) = instances[w].id /\ PlanIdOf(k) = instances[w].id
    BY OwnHandle
<1>2. IsHandle(h, generation) /\ IsHandle(k, generation)
    BY <1>1 DEF Related
<1>3. PICK a \in 1..MaxPlanId, i \in 1..MaxHandles : h = Handle(a, h.gen, i)
    BY <1>2 DEF IsHandle
<1>4. PICK b \in 1..MaxPlanId, j \in 1..MaxHandles : k = Handle(b, k.gen, j)
    BY <1>2 DEF IsHandle
<1>5. a = instances[w].id /\ b = instances[w].id /\ i = j
    BY <1>1, <1>3, <1>4, NewHandle
<1> QED BY <1>3, <1>4, <1>5

LEMMA JudgedRight == Inv => HandlesJudgedRight
<1> SUFFICES ASSUME Inv, NEW w \in Workers, calls[w].phase = "check"
             PROVE  LET c     == calls[w]
                        h     == c.batch[c.at].handle
                        own   == h.gen = instances[w].gen
                        error == HandleError(instances[w], h)
                    IN  /\ error = "None" <=> own /\ ~Repeated(c.batch, c.at)
                        /\ error = "DuplicateHandle" <=> own /\ Repeated(c.batch, c.at)
    BY DEF HandlesJudgedRight
<1> DEFINE c == calls[w]
           h == c.batch[c.at].handle
           x == instances[w]
<1>1. c # NoCall
    BY DEF NoCall
<1>2. IsCall(w, c)
    BY <1>1 DEF Inv, Calling
<1>3. /\ x # NoInstance /\ c.at \in 1..Len(c.batch) /\ h \in handles \cup {NullHandle}
      /\ Len(c.batch) \in Nat
      /\ Stamped(w, c)
      /\ \A j \in 1..c.at - 1 : /\ c.batch[j].handle.gen = x.gen
                                /\ c.batch[j].handle \in handles \cup {NullHandle}
    BY <1>2 DEF IsCall, Passed
<1>4. CASE h.gen # x.gen
    <2>1. h.token = 0 \/ PlanIdOf(h) # x.id
        BY <1>3, <1>4, OwnHandle DEF Inv
    <2>2. HandleError(x, h) \in {"InvalidHandle", "ForeignHandle"}
        BY <2>1 DEF HandleError
    <2> QED BY <1>4, <2>2
<1>5. CASE h.gen = x.gen
    <2>1. h.token # 0 /\ PlanIdOf(h) = x.id /\ IndexOf(h) = h.index
          /\ h.index \in 1..Len(x.slots)
        BY <1>3, <1>5, OwnHandle DEF Inv
    <2>2. HandleError(x, h) = IF x.seen[h.index] = x.epoch THEN "DuplicateHandle" ELSE "None"
        BY <2>1 DEF HandleError
    <2>3. x.seen[h.index] = x.epoch <=> \E j \in 1..c.at - 1 : c.batch[j].handle.index = h.index
        BY <1>3, <2>1 DEF Stamped
    <2>4. \A j \in 1..c.at - 1 : c.batch[j].handle.index = h.index <=> c.batch[j].handle = h
        BY <1>3, <1>5, SameHandle DEF Inv
    <2>5. Repeated(c.batch, c.at) <=> x.seen[h.index] = x.epoch
        BY <2>3, <2>4 DEF Repeated
    <2> QED BY <1>5, <2>2, <2>5
<1> QED BY <1>4, <1>5

-----------------------------------------------------------------------------
(* Preservation                                                             *)

\* A step that leaves a call, its instance and what it reads alone.
LEMMA KeepsCall ==
    ASSUME NEW w \in Workers, calls[w] # NoCall, IsCall(w, calls[w]),
           calls'[w] = calls[w], instances'[w] = instances[w],
           handles \subseteq handles',
           \A v \in Workers : v # w /\ Borrows(calls[w], v) =>
               instances'[v] = instances[v] /\ calls'[v] = calls[v]
    PROVE  IsCall(w, calls[w])'
<1> DEFINE c == calls[w]
<1>1. Host \notin Workers
    BY PatchAssumption
<1>2. ASSUME NEW i \in 1..Len(c.batch)
      PROVE  /\ Readable(w, c.batch[i].value)'
             /\ BytesOf(c.batch[i].value)' = BytesOf(c.batch[i].value)
    <2> DEFINE v == c.batch[i].value
    <2>1. Readable(w, v)
        BY DEF IsCall
    <2>2. CASE v.in = Host
        BY <1>1, <2>1, <2>2 DEF Readable, BytesOf
    <2>3. CASE v.in \in Workers
        <3>1. Borrows(c, v.in)
            BY DEF Borrows
        <3>2. instances'[v.in] = instances[v.in] /\ (v.in # w => calls'[v.in] = calls[v.in])
            BY <2>3, <3>1
        <3> QED BY <1>1, <2>1, <2>3, <3>2 DEF Readable, BytesOf
    <2> QED BY <2>1, <2>2, <2>3 DEF Readable
<1>3. ASSUME NEW i \in 1..Len(c.batch), Passed(w, c.batch[i])
      PROVE  Passed(w, c.batch[i])'
    BY <1>2, <1>3 DEF Passed, ValueError
<1>4. Stamped(w, c) => Stamped(w, c)'
    BY DEF Stamped
<1> QED BY <1>2, <1>3, <1>4 DEF IsCall

\* Plans and instances may go, be copied or be moved, and handles may go.
LEMMA KeepsRelated ==
    ASSUME Related, generation' = generation, handles' \subseteq handles,
           \A y \in Owners' : \E x \in Owners :
               y.id = x.id /\ y.gen = x.gen /\ y.slots = x.slots
    PROVE  Related'
<1>1. ASSUME NEW y \in Owners', NEW z \in Owners'
      PROVE  Kin(y, z)
    BY DEF Related, Kin
<1>2. ASSUME NEW h \in handles', NEW y \in Owners'
      PROVE  Owned(h, y)
    BY DEF Related, Owned
<1>3. \A h \in handles' : IsHandle(h, generation')
    BY DEF Related
<1> QED BY <1>1, <1>2, <1>3 DEF Related

\* Instances that nobody uses change.
LEMMA KeepsCalling ==
    ASSUME Calling, calls' = calls, handles' = handles,
           \A v \in Workers : Free(v) \/ instances'[v] = instances[v]
    PROVE  Calling'
<1> SUFFICES ASSUME NEW w \in Workers, calls[w] # NoCall
             PROVE  IsCall(w, calls[w])'
    BY DEF Calling
<1>1. IsCall(w, calls[w]) /\ instances'[w] = instances[w]
    BY DEF Calling, Free
<1>2. ASSUME NEW v \in Workers, Borrows(calls[w], v)
      PROVE  instances'[v] = instances[v]
    BY <1>2 DEF Free
<1> QED BY <1>1, <1>2, KeepsCall

LEMMA GrowsOld ==
    ASSUME NEW x, NEW n \in Nat, NEW g \in Nat, g > n
    PROVE  /\ IsPlan(x, n) => IsPlan(x, g)
           /\ IsInstance(x, n) => IsInstance(x, g)
           /\ IsHandle(x, n) => IsHandle(x, g)
BY DEF IsPlan, IsInstance, IsHandle

-----------------------------------------------------------------------------
LEMMA InitInv == Init => Inv
<1> SUFFICES ASSUME Init PROVE Inv
    OBVIOUS
<1>1. Typed
    BY DEF Init, Typed
<1>2. Owners = {} /\ handles = {}
    BY DEF Init, Owners
<1>3. Related
    BY <1>2 DEF Related
<1>4. Calling
    BY DEF Init, Calling
<1> QED BY <1>1, <1>3, <1>4 DEF Inv

LEMMA PrepareInv ==
    ASSUME Inv, NEW p \in Plans, Prepare(p)
    PROVE  Inv'
<1>1. PICK id \in 0..MaxPlanId + 1, l \in Layouts :
          /\ IdAccepted(id) /\ Fresh(id) /\ Len(l.slots) <= MaxHandles
          /\ plans' = [plans EXCEPT ![p] =
                [id |-> id, gen |-> generation', slots |-> l.slots,
                 payloads |-> l.payloads]]
          /\ handles' = handles \cup
                {Handle(id, generation', i) : i \in 1..Len(l.slots)}
          /\ generation' = generation + Len(l.slots)
    BY DEF Prepare
<1>g. PICK n, g : n = generation /\ g = generation'
    OBVIOUS
<1>x. PICK x : x = [id |-> id, gen |-> g, slots |-> l.slots, payloads |-> l.payloads]
    OBVIOUS
<1>n. PICK new : new = {Handle(id, g, i) : i \in 1..Len(l.slots)}
    OBVIOUS
<1>2. /\ plans' = [plans EXCEPT ![p] = x] /\ handles' = handles \cup new
      /\ instances' = instances /\ calls' = calls /\ generation' = g
      /\ n \in Nat /\ g \in Nat /\ g > n /\ g \in 1..g /\ id \in 1..MaxPlanId
    <2>1. plans' = [plans EXCEPT ![p] = x] /\ handles' = handles \cup new
        BY <1>1, <1>g, <1>x, <1>n
    <2>2. instances' = instances /\ calls' = calls /\ generation' = g
        BY <1>g DEF Prepare
    <2>3. n \in Nat /\ g \in Nat /\ g > n /\ g \in 1..g
        <3>1. Len(l.slots) \in Nat \ {0}
            BY LayoutsAssumption DEF Layout
        <3> QED BY <1>1, <1>g, <3>1 DEF Inv, Typed
    <2>4. id \in 1..MaxPlanId
        BY <1>1, PatchAssumption DEF IdAccepted
    <2> QED BY <2>1, <2>2, <2>3, <2>4
<1>3. l.slots \in Seq(Slot) /\ l = [slots |-> l.slots, payloads |-> l.payloads]
    BY LayoutsAssumption DEF Layout
<1>f. x.id = id /\ x.gen = g /\ x.slots = l.slots /\ x.payloads = l.payloads
    BY <1>x
<1>4. IsPlan(x, g) /\ x # NoPlan
    <2>1. [slots |-> x.slots, payloads |-> x.payloads] \in Layouts
        BY <1>3, <1>f
    <2>2. x.id # NoPlan.id
        BY <1>2, <1>f DEF NoPlan
    <2> QED BY <1>1, <1>2, <1>f, <2>1, <2>2 DEF IsPlan
<1>t. /\ \A q \in Plans : plans[q] = NoPlan \/ IsPlan(plans[q], n)
      /\ \A w \in Workers : instances[w] = NoInstance \/ IsInstance(instances[w], n)
      /\ \A h \in handles : IsHandle(h, n)
      /\ plans = [q \in Plans |-> plans[q]]
      /\ instances = [w \in Workers |-> instances[w]]
      /\ calls = [w \in Workers |-> calls[w]]
    BY <1>g DEF Inv, Typed, Related
<1>5. Typed'
    <2>1. \A q \in Plans : plans'[q] = NoPlan \/ IsPlan(plans'[q], g)
        <3> SUFFICES ASSUME NEW q \in Plans PROVE plans'[q] = NoPlan \/ IsPlan(plans'[q], g)
            OBVIOUS
        <3>1. CASE q = p
            BY <1>2, <1>4, <1>t, <3>1
        <3>2. CASE q # p
            BY <1>2, <1>t, <3>2, GrowsOld
        <3> QED BY <3>1, <3>2
    <2>2. \A w \in Workers : instances'[w] = NoInstance \/ IsInstance(instances'[w], g)
        BY <1>2, <1>t, GrowsOld
    <2>3. plans' = [q \in Plans |-> plans'[q]]
        BY <1>2, <1>t
    <2>4. instances' = [w \in Workers |-> instances'[w]] /\ calls' = [w \in Workers |-> calls'[w]]
        BY <1>2, <1>t
    <2> QED BY <1>2, <2>1, <2>2, <2>3, <2>4 DEF Typed
<1>6. Owners' \subseteq Owners \cup {x}
    BY <1>2, <1>t DEF Owners
<1>7. ASSUME NEW y \in Owners
      PROVE  y.id # id /\ y.gen # g
    <2>0. y.gen \in 1..n => y.gen # g
        BY <1>2
    <2>1. CASE \E q \in Plans : plans[q] # NoPlan /\ y = plans[q]
        BY <1>1, <1>t, <2>0, <2>1 DEF Fresh, IsPlan
    <2>2. CASE \E w \in Workers : instances[w] # NoInstance /\ y = instances[w]
        BY <1>1, <1>t, <2>0, <2>2 DEF Fresh, IsInstance
    <2> QED BY <2>1, <2>2 DEF Owners
<1>8. ASSUME NEW h \in handles
      PROVE  IsHandle(h, g) /\ Owned(h, x)
    <2>1. IsHandle(h, n)
        BY <1>t
    <2>2. IsHandle(h, g)
        BY <1>2, <2>1, GrowsOld
    <2>3. PlanIdOf(h) # id
        BY <1>1 DEF Fresh
    <2>4. h.gen \in 1..n
        BY <2>1, HandleParts
    <2>5. h.gen # g
        BY <1>2, <2>4
    <2> QED BY <1>f, <2>2, <2>3, <2>5 DEF Owned
<1>9. ASSUME NEW h \in new
      PROVE  IsHandle(h, g) /\ Owned(h, x) /\ \A y \in Owners : Owned(h, y)
    <2>0. PICK i \in 1..Len(l.slots) : h = Handle(id, g, i)
        BY <1>n
    <2>1. i \in 1..MaxHandles
        BY <1>1, <1>3, PatchAssumption
    <2>3. PlanIdOf(h) = id /\ h.gen = g /\ h.index = i
        BY <1>2, <2>0, <2>1, NewHandle
    <2>4. IsHandle(h, g)
        BY <1>2, <2>0, <2>1, <2>3 DEF IsHandle
    <2>5. Owned(h, x)
        BY <1>f, <2>3 DEF Owned
    <2> QED BY <1>7, <2>3, <2>4, <2>5 DEF Owned
<1>10. Related'
    <2>1. \A y, z \in Owners' : Kin(y, z)
        <3> SUFFICES ASSUME NEW y \in Owners \cup {x}, NEW z \in Owners \cup {x}
                     PROVE  Kin(y, z)
            BY <1>6
        <3>1. CASE y \in Owners /\ z \in Owners
            BY <3>1 DEF Inv, Related
        <3>2. CASE y = x /\ z = x
            BY <3>2 DEF Kin
        <3>3. CASE y = x /\ z \in Owners
            BY <1>7, <1>f, <3>3 DEF Kin
        <3>4. CASE y \in Owners /\ z = x
            BY <1>7, <1>f, <3>4 DEF Kin
        <3> QED BY <3>1, <3>2, <3>3, <3>4
    <2>2. \A h \in handles' : IsHandle(h, g) /\ \A y \in Owners' : Owned(h, y)
        <3> SUFFICES ASSUME NEW h \in handles \cup new
                     PROVE  IsHandle(h, g) /\ \A y \in Owners \cup {x} : Owned(h, y)
            BY <1>2, <1>6
        <3>1. CASE h \in handles
            BY <1>8, <3>1 DEF Inv, Related
        <3>2. CASE h \in new
            BY <1>9, <3>2
        <3> QED BY <3>1, <3>2
    <2> QED BY <1>2, <2>1, <2>2 DEF Related
<1>11. Calling'
    <2> SUFFICES ASSUME NEW w \in Workers, calls[w] # NoCall
                 PROVE  IsCall(w, calls[w])'
        BY <1>2 DEF Calling
    <2>1. IsCall(w, calls[w])
        BY DEF Inv, Calling
    <2> QED BY <1>2, <2>1, KeepsCall
<1> QED BY <1>5, <1>10, <1>11 DEF Inv

LEMMA ResetPlanInv ==
    ASSUME Inv, NEW p \in Plans, ResetPlan(p)
    PROVE  Inv'
<1>1. /\ plans' = [plans EXCEPT ![p] = NoPlan]
      /\ instances' = instances /\ calls' = calls /\ handles' = handles
      /\ generation' = generation
    BY DEF ResetPlan
<1>2. Typed'
    BY <1>1 DEF Inv, Typed
<1>3. Owners' \subseteq Owners
    BY <1>1 DEF Inv, Typed, Owners
<1>4. Related'
    BY <1>1, <1>3, KeepsRelated DEF Inv
<1>5. Calling'
    BY <1>1, KeepsCalling DEF Inv
<1> QED BY <1>2, <1>4, <1>5 DEF Inv

LEMMA MovePlanInv ==
    ASSUME Inv, NEW p \in Plans, NEW q \in Plans, MovePlan(p, q)
    PROVE  Inv'
<1>1. /\ p # q /\ plans' = [plans EXCEPT ![p] = NoPlan, ![q] = plans[p]]
      /\ instances' = instances /\ calls' = calls /\ handles' = handles
      /\ generation' = generation
    BY DEF MovePlan
<1>2. Typed'
    BY <1>1 DEF Inv, Typed
<1>3. Owners' \subseteq Owners
    BY <1>1 DEF Inv, Typed, Owners
<1>4. Related'
    BY <1>1, <1>3, KeepsRelated DEF Inv
<1>5. Calling'
    BY <1>1, KeepsCalling DEF Inv
<1> QED BY <1>2, <1>4, <1>5 DEF Inv

LEMMA DropHandlesInv ==
    ASSUME Inv, NEW g, DropHandles(g)
    PROVE  Inv'
<1>1. /\ handles' \subseteq handles /\ \A w \in Workers : calls[w] = NoCall
      /\ plans' = plans /\ instances' = instances /\ calls' = calls
      /\ generation' = generation
    BY DEF DropHandles
<1>2. Typed'
    BY <1>1 DEF Inv, Typed
<1>3. Owners' = Owners
    BY <1>1 DEF Owners
<1>4. Related'
    BY <1>1, <1>3, KeepsRelated DEF Inv
<1>5. Calling'
    BY <1>1 DEF Calling
<1> QED BY <1>2, <1>4, <1>5 DEF Inv

LEMMA ResetInv ==
    ASSUME Inv, NEW w \in Workers, Reset(w)
    PROVE  Inv'
<1>1. /\ Free(w) /\ instances' = [instances EXCEPT ![w] = NoInstance]
      /\ plans' = plans /\ calls' = calls /\ handles' = handles
      /\ generation' = generation
    BY DEF Reset
<1>2. Typed'
    BY <1>1 DEF Inv, Typed
<1>3. Owners' \subseteq Owners
    BY <1>1 DEF Inv, Typed, Owners
<1>4. Related'
    BY <1>1, <1>3, KeepsRelated DEF Inv
<1>5. \A v \in Workers : Free(v) \/ instances'[v] = instances[v]
    BY <1>1 DEF Inv, Typed
<1>6. Calling'
    BY <1>1, <1>5, KeepsCalling DEF Inv
<1> QED BY <1>2, <1>4, <1>6 DEF Inv

LEMMA MoveInstanceInv ==
    ASSUME Inv, NEW w \in Workers, NEW v \in Workers, MoveInstance(w, v)
    PROVE  Inv'
<1>1. /\ w # v /\ Free(w) /\ Free(v)
      /\ instances' = [instances EXCEPT ![w] = NoInstance, ![v] = instances[w]]
      /\ plans' = plans /\ calls' = calls /\ handles' = handles
      /\ generation' = generation
    BY DEF MoveInstance
<1>2. Typed'
    BY <1>1 DEF Inv, Typed
<1>3. Owners' \subseteq Owners
    BY <1>1 DEF Inv, Typed, Owners
<1>4. Related'
    BY <1>1, <1>3, KeepsRelated DEF Inv
<1>5. \A u \in Workers : Free(u) \/ instances'[u] = instances[u]
    BY <1>1 DEF Inv, Typed
<1>6. Calling'
    BY <1>1, <1>5, KeepsCalling DEF Inv
<1> QED BY <1>2, <1>4, <1>6 DEF Inv

-----------------------------------------------------------------------------
(* An instance is made, or changed in place.                                *)

LEMMA OneInstance ==
    ASSUME Inv, NEW w \in Workers, NEW y, NEW x \in Owners,
           instances' = [instances EXCEPT ![w] = y], IsInstance(y, generation),
           y.id = x.id, y.gen = x.gen, y.slots = x.slots,
           plans' = plans, handles' = handles, generation' = generation,
           calls' = [v \in Workers |-> calls'[v]]
    PROVE  Typed' /\ Related'
<1>1. instances' = [v \in Workers |-> IF v = w THEN y ELSE instances[v]]
    BY DEF Inv, Typed
<1>2. Typed'
    BY <1>1 DEF Inv, Typed
<1>3. Owners' \subseteq Owners \cup {y}
    BY <1>1 DEF Owners
<1>4. \A z \in Owners' : \E a \in Owners : z.id = a.id /\ z.gen = a.gen /\ z.slots = a.slots
    BY <1>3
<1>5. Related'
    BY <1>4, KeepsRelated DEF Inv
<1> QED BY <1>2, <1>5

LEMMA LayoutFacts ==
    ASSUME NEW l \in Layouts
    PROVE  /\ l.slots \in Seq(Slot) /\ l.payloads \in [Families -> Seq(Bytes)]
           /\ Len(l.slots) \in Nat /\ Len(l.slots) > 0
           /\ \A i \in 1..Len(l.slots) :
                 /\ l.slots[i].family \in Families /\ l.slots[i].kind \in ValueKinds
                 /\ l.slots[i].count \in Nat /\ l.slots[i].offset \in Nat
                 /\ l.slots[i].width \in Nat /\ Fits(l, l.slots[i])
<1>1. l \in Layout /\ Len(l.slots) > 0 /\ \A i \in 1..Len(l.slots) : Fits(l, l.slots[i])
    BY LayoutsAssumption
<1>2. l.slots \in Seq(Slot) /\ l.payloads \in [Families -> Seq(Bytes)]
    BY <1>1 DEF Layout, Payloads
<1>3. Len(l.slots) \in Nat /\ \A i \in 1..Len(l.slots) : l.slots[i] \in Slot
    BY <1>2
<1>4. ASSUME NEW s \in Slot
      PROVE  /\ s.family \in Families /\ s.kind \in ValueKinds
             /\ s.count \in Nat /\ s.offset \in Nat /\ s.width \in Nat
    BY DEF Slot
<1> QED BY <1>1, <1>2, <1>3, <1>4

LEMMA CreateInv ==
    ASSUME Inv, NEW w \in Workers, NEW p \in Plans, Create(w, p)
    PROVE  Inv'
<1>x. PICK x : x = plans[p]
    OBVIOUS
<1>y. PICK y : y = [id |-> x.id, gen |-> x.gen, slots |-> x.slots,
                    payloads |-> x.payloads, blank |-> x.payloads,
                    seen |-> [i \in 1..Len(x.slots) |-> 0], epoch |-> 0]
    OBVIOUS
<1>1. /\ Free(w) /\ x # NoPlan /\ instances' = [instances EXCEPT ![w] = y]
      /\ plans' = plans /\ calls' = calls /\ handles' = handles
      /\ generation' = generation
    BY <1>x, <1>y DEF Create
<1>2. x \in Owners /\ IsPlan(x, generation)
    BY <1>x, <1>1 DEF Owners, Inv, Typed
<1>3. /\ y.id = x.id /\ y.gen = x.gen /\ y.slots = x.slots
      /\ y.payloads = x.payloads /\ y.blank = x.payloads
      /\ y.seen = [i \in 1..Len(x.slots) |-> 0] /\ y.epoch = 0
      /\ y = [id |-> y.id, gen |-> y.gen, slots |-> y.slots, payloads |-> y.payloads,
              blank |-> y.blank, seen |-> y.seen, epoch |-> y.epoch]
    BY <1>y
<1>4. Shaped(y)
    <2>1. y.payloads \in [Families -> Seq(Bytes)]
        BY <1>2, <1>3, LayoutFacts DEF IsPlan
    <2>2. ASSUME NEW f \in Families
          PROVE  IsSeq(y.payloads[f])
        BY <2>1 DEF IsSeq
    <2>3. y.payloads = [f \in Families |-> y.payloads[f]]
        BY <2>1
    <2> QED BY <1>3, <2>2, <2>3 DEF Shaped
<1>5. IsInstance(y, generation)
    <2>1. y.seen \in [1..Len(y.slots) -> Nat] /\ \A k \in 1..Len(y.slots) : y.seen[k] <= y.epoch
        BY <1>3
    <2>2. y.epoch \in 0..EpochSpan - 1
        BY <1>3, PatchAssumption
    <2> QED BY <1>2, <1>3, <1>4, <2>1, <2>2 DEF IsInstance, IsPlan
<1>6. Typed' /\ Related'
    <2>1. calls' = [v \in Workers |-> calls'[v]]
        BY <1>1 DEF Inv, Typed
    <2> QED BY <1>1, <1>2, <1>3, <1>5, <2>1, OneInstance
<1>7. \A v \in Workers : Free(v) \/ instances'[v] = instances[v]
    BY <1>1 DEF Inv, Typed
<1>8. Calling'
    BY <1>1, <1>7, KeepsCalling DEF Inv
<1> QED BY <1>6, <1>8 DEF Inv

LEMMA RestampedFacts ==
    ASSUME NEW x, NEW n, IsInstance(x, n)
    PROVE  LET y == Restamped(x)
           IN  /\ IsInstance(y, n)
               /\ y.id = x.id /\ y.gen = x.gen /\ y.slots = x.slots
               /\ y.payloads = x.payloads
               /\ \A k \in 1..Len(x.slots) : y.seen[k] # y.epoch
<1>1. PICK y : y = Restamped(x)
    OBVIOUS
<1>2. /\ x = [id |-> x.id, gen |-> x.gen, slots |-> x.slots, payloads |-> x.payloads,
              blank |-> x.blank, seen |-> x.seen, epoch |-> x.epoch]
      /\ x.seen \in [1..Len(x.slots) -> Nat] /\ x.epoch \in 0..EpochSpan - 1
      /\ \A k \in 1..Len(x.slots) : x.seen[k] <= x.epoch
    BY DEF IsInstance
<1>3. EpochSpan \in Nat /\ EpochSpan > 1
    BY PatchAssumption
<1>4. /\ y = [id |-> y.id, gen |-> y.gen, slots |-> y.slots, payloads |-> y.payloads,
              blank |-> y.blank, seen |-> y.seen, epoch |-> y.epoch]
      /\ y.id = x.id /\ y.gen = x.gen /\ y.slots = x.slots
      /\ y.payloads = x.payloads /\ y.blank = x.blank
    BY <1>1, <1>2 DEF Restamped
<1>5. /\ y.seen \in [1..Len(x.slots) -> Nat] /\ y.epoch \in 0..EpochSpan - 1
      /\ \A k \in 1..Len(x.slots) : y.seen[k] < y.epoch
    <2>1. CASE (x.epoch + 1) % EpochSpan = 0
        <3>1. y.epoch = 1 /\ y.seen = [i \in DOMAIN x.seen |-> 0]
            BY <1>1, <1>2, <2>1 DEF Restamped
        <3> QED BY <1>2, <1>3, <3>1
    <2>2. CASE (x.epoch + 1) % EpochSpan # 0
        <3>1. y.epoch = x.epoch + 1 /\ y.seen = x.seen
            BY <1>1, <1>2, <2>2 DEF Restamped
        <3>2. x.epoch + 1 # EpochSpan
            BY <1>3, <2>2
        <3> QED BY <1>2, <1>3, <3>1, <3>2
    <2> QED BY <2>1, <2>2
<1>6. Shaped(y)
    BY <1>4 DEF IsInstance, Shaped, OutsideSlots
<1>7. IsInstance(y, n)
    BY <1>4, <1>5, <1>6 DEF IsInstance
<1>8. \A k \in 1..Len(x.slots) : y.seen[k] # y.epoch
    BY <1>5
<1> QED BY <1>1, <1>4, <1>7, <1>8

\* What an update of the call of w reads, when w's payloads do not change.
LEMMA SameReads ==
    ASSUME NEW w \in Workers, NEW u, Readable(w, u.value),
           instances'[w] # NoInstance, instances'[w].gen = instances[w].gen,
           instances'[w].slots = instances[w].slots,
           instances'[w].payloads = instances[w].payloads,
           \A v \in Workers : v # w /\ calls[v] = NoCall =>
               instances'[v] = instances[v] /\ calls'[v] = NoCall
    PROVE  /\ Readable(w, u.value)' /\ BytesOf(u.value)' = BytesOf(u.value)
           /\ Passed(w, u) => Passed(w, u)'
<1>1. Host \notin Workers
    BY PatchAssumption
<1>2. Readable(w, u.value)' /\ BytesOf(u.value)' = BytesOf(u.value)
    <2>1. CASE u.value.in = Host
        BY <1>1, <2>1 DEF Readable, BytesOf
    <2>2. CASE u.value.in = w
        BY <1>1, <2>2 DEF Readable, BytesOf, SlotBytes
    <2>3. CASE u.value.in \in Workers \ {w}
        BY <1>1, <2>3 DEF Readable, BytesOf
    <2> QED BY <2>1, <2>2, <2>3 DEF Readable
<1>3. ASSUME Passed(w, u)
      PROVE  Passed(w, u)'
    BY <1>2, <1>3 DEF Passed, ValueError
<1> QED BY <1>2, <1>3

\* A step of the call of w leaves the other calls as they were.
LEMMA OtherCalls ==
    ASSUME Inv, NEW w \in Workers, calls[w] # NoCall \/ Free(w),
           handles' = handles,
           \A v \in Workers : v # w => instances'[v] = instances[v] /\ calls'[v] = calls[v]
    PROVE  \A v \in Workers : v # w /\ calls[v] # NoCall => IsCall(v, calls[v])'
<1> SUFFICES ASSUME NEW v \in Workers, v # w, calls[v] # NoCall
             PROVE  IsCall(v, calls[v])'
    OBVIOUS
<1>1. IsCall(v, calls[v])
    BY DEF Inv, Calling
<1>2. ~Borrows(calls[v], w)
    <2>1. CASE Free(w)
        BY <2>1 DEF Free
    <2>2. CASE calls[w] # NoCall
        <3>1. Host \notin Workers
            BY PatchAssumption
        <3>2. ASSUME NEW i \in 1..Len(calls[v].batch)
              PROVE  calls[v].batch[i].value.in # w
            BY <1>1, <2>2, <3>1 DEF IsCall, Readable
        <3> QED BY <3>2 DEF Borrows
    <2> QED BY <2>1, <2>2
<1> QED BY <1>1, <1>2, KeepsCall

LEMMA BeginInv ==
    ASSUME Inv, NEW w \in Workers, Begin(w)
    PROVE  Inv'
<1>x. PICK x, y : x = instances[w] /\ y = Restamped(x)
    OBVIOUS
<1>1. PICK batch \in Batches(Len(x.slots)) :
          /\ \A i \in 1..Len(batch) :
                batch[i].value.in \in Workers \ {w} => calls[batch[i].value.in] = NoCall
          /\ calls' = [calls EXCEPT ![w] = [phase |-> "check", batch |-> batch, at |-> 1]]
    BY <1>x DEF Begin
<1>c. PICK c : c = [phase |-> "check", batch |-> batch, at |-> 1]
    OBVIOUS
<1>2. /\ Free(w) /\ x # NoInstance /\ instances' = [instances EXCEPT ![w] = y]
      /\ calls' = [calls EXCEPT ![w] = c]
      /\ plans' = plans /\ handles' = handles /\ generation' = generation
    BY <1>x, <1>c, <1>1 DEF Begin
<1>3. /\ instances'[w] = y /\ calls'[w] = c
      /\ \A v \in Workers : v # w => instances'[v] = instances[v] /\ calls'[v] = calls[v]
      /\ calls' = [v \in Workers |-> calls'[v]]
    BY <1>2 DEF Inv, Typed
<1>4. IsInstance(x, generation) /\ x \in Owners
    BY <1>x, <1>2 DEF Inv, Typed, Owners
<1>5. /\ IsInstance(y, generation)
      /\ y.id = x.id /\ y.gen = x.gen /\ y.slots = x.slots /\ y.payloads = x.payloads
      /\ \A k \in 1..Len(x.slots) : y.seen[k] # y.epoch
    BY <1>x, <1>4, RestampedFacts
<1>6. Typed' /\ Related'
    BY <1>2, <1>3, <1>4, <1>5, OneInstance
<1>7. PICK k \in Nat : /\ k > 0
                       /\ batch \in [1..k -> [handle : handles \cup {NullHandle},
                                              value : HostValues \cup Borrowed]]
    <2>1. Len(x.slots) \in Nat
        BY <1>4, LayoutFacts DEF IsInstance
    <2> QED BY <2>1 DEF Batches
<1>8. /\ Len(batch) = k
      /\ \A i \in 1..k : /\ batch[i].handle \in handles \cup {NullHandle}
                         /\ batch[i].value \in HostValues \cup Borrowed
    BY <1>7
<1>9. IsCall(w, calls[w])'
    <2>1. c.phase = "check" /\ c.batch = batch /\ c.at = 1
        BY <1>c
    <2>2. y # NoInstance
        <3>1. y.id \in 1..MaxPlanId
            BY <1>5 DEF IsInstance
        <3> QED BY <3>1 DEF NoInstance
    <2>3. ASSUME NEW i \in 1..k
          PROVE  Readable(w, batch[i].value)'
        <3>1. PICK v : v = batch[i].value
            OBVIOUS
        <3>2. CASE v \in HostValues
            <4>1. v.in = Host
                BY <3>2, PatchAssumption
            <4> QED BY <3>1, <3>2, <4>1 DEF Readable
        <3>3. CASE v \in Borrowed
            <4>1. PICK u \in Workers : /\ instances[u] # NoInstance /\ v.in = u
                                       /\ v.slot \in 1..Len(instances[u].slots)
                BY <3>3 DEF Borrowed
            <4>2. CASE u = w
                BY <1>3, <1>5, <1>x, <2>2, <3>1, <4>1, <4>2 DEF Readable
            <4>3. CASE u # w
                BY <1>1, <1>3, <1>8, <3>1, <4>1, <4>3 DEF Readable
            <4> QED BY <4>2, <4>3
        <3> QED BY <1>8, <3>1, <3>2, <3>3
    <2>4. Stamped(w, c)'
        BY <1>3, <1>5, <2>1 DEF Stamped
    <2> QED BY <1>2, <1>3, <1>7, <1>8, <1>c, <2>1, <2>2, <2>3, <2>4 DEF IsCall
<1>10. Calling'
    BY <1>2, <1>3, <1>9, OtherCalls DEF Calling
<1> QED BY <1>6, <1>10 DEF Inv

LEMMA CheckInv ==
    ASSUME Inv, NEW w \in Workers, Check(w)
    PROVE  Inv'
<1>x. PICK x, c : x = instances[w] /\ c = calls[w]
    OBVIOUS
<1>u. PICK u, h : u = c.batch[c.at] /\ h = u.handle
    OBVIOUS
<1>1. c.phase = "check" /\ c # NoCall
    BY <1>x DEF Check, NoCall
<1>2. IsCall(w, c) /\ x # NoInstance /\ x \in Owners /\ IsInstance(x, generation)
    BY <1>x, <1>1 DEF Inv, Calling, IsCall, Owners, Typed
<1>3. /\ c = [phase |-> c.phase, batch |-> c.batch, at |-> c.at]
      /\ Len(c.batch) \in Nat /\ c.at \in 1..Len(c.batch)
      /\ h \in handles \cup {NullHandle} /\ Readable(w, u.value)
    BY <1>2, <1>u DEF IsCall
<1>4. plans' = plans /\ handles' = handles /\ generation' = generation
    BY DEF Check
<1>5. /\ calls = [v \in Workers |-> calls[v]]
      /\ instances = [v \in Workers |-> instances[v]]
    BY DEF Inv, Typed
<1>6. CASE HandleError(x, h) # "None"
    <2>1. calls' = [calls EXCEPT ![w] = NoCall] /\ instances' = instances
        BY <1>6, <1>x, <1>u DEF Check
    <2>2. /\ calls' = [v \in Workers |-> calls'[v]] /\ calls'[w] = NoCall
          /\ \A v \in Workers : v # w => calls'[v] = calls[v]
        BY <1>5, <2>1
    <2>3. Typed'
        BY <1>4, <2>1, <2>2 DEF Inv, Typed
    <2>4. Related'
        BY <1>4, <2>1, KeepsRelated DEF Inv, Owners
    <2>5. Calling'
        BY <1>1, <1>4, <1>x, <2>1, <2>2, OtherCalls DEF Calling
    <2> QED BY <2>3, <2>4, <2>5 DEF Inv
<1>7. CASE HandleError(x, h) = "None"
    <2>1. /\ h.gen = x.gen /\ IndexOf(h) = h.index /\ h.index \in 1..Len(x.slots)
        <3>1. h.token # 0 /\ PlanIdOf(h) = x.id
            BY <1>7 DEF HandleError
        <3> QED BY <1>2, <1>3, <1>x, <3>1, OwnHandle DEF Inv
    <2>y. PICK y : y = [x EXCEPT !.seen[h.index] = x.epoch]
        OBVIOUS
    <2>d. PICK d : d = IF ValueError(x.slots[h.index], u.value) # "None"
                          \/ AliasError(w, u.value) # "None"
                       THEN NoCall ELSE Onward(c)
        OBVIOUS
    <2>2. instances' = [instances EXCEPT ![w] = y] /\ calls' = [calls EXCEPT ![w] = d]
        <3>1. instances' = [instances EXCEPT ![w].seen[h.index] = x.epoch]
            BY <1>7, <1>x, <1>u, <2>1 DEF Check
        <3>2. calls' = [calls EXCEPT ![w] = d]
            BY <1>7, <1>x, <1>u, <2>1, <2>d DEF Check
        <3> QED BY <1>5, <1>x, <2>y, <3>1, <3>2
    <2>3. /\ instances'[w] = y /\ calls'[w] = d
          /\ \A v \in Workers : v # w => instances'[v] = instances[v] /\ calls'[v] = calls[v]
          /\ calls' = [v \in Workers |-> calls'[v]]
        BY <1>5, <2>2
    <2>4. /\ x = [id |-> x.id, gen |-> x.gen, slots |-> x.slots, payloads |-> x.payloads,
                  blank |-> x.blank, seen |-> x.seen, epoch |-> x.epoch]
          /\ x.seen \in [1..Len(x.slots) -> Nat] /\ x.epoch \in 0..EpochSpan - 1
          /\ \A k \in 1..Len(x.slots) : x.seen[k] <= x.epoch
        BY <1>2 DEF IsInstance
    <2>5. /\ y = [id |-> y.id, gen |-> y.gen, slots |-> y.slots, payloads |-> y.payloads,
                  blank |-> y.blank, seen |-> y.seen, epoch |-> y.epoch]
          /\ y.id = x.id /\ y.gen = x.gen /\ y.slots = x.slots
          /\ y.payloads = x.payloads /\ y.blank = x.blank /\ y.epoch = x.epoch
          /\ y.seen = [x.seen EXCEPT ![h.index] = x.epoch]
        BY <2>y, <2>4
    <2>6. IsInstance(y, generation)
        <3>1. /\ y.seen \in [1..Len(y.slots) -> Nat]
              /\ \A k \in 1..Len(y.slots) : y.seen[k] <= y.epoch
            <4>1. x.epoch \in Nat
                BY <2>4
            <4>2. y.seen \in [1..Len(x.slots) -> Nat]
                BY <2>1, <2>4, <2>5, <4>1
            <4>3. \A k \in 1..Len(x.slots) : y.seen[k] = x.epoch \/ y.seen[k] = x.seen[k]
                BY <2>4, <2>5
            <4> QED BY <2>4, <2>5, <4>1, <4>2, <4>3
        <3>2. Shaped(y)
            BY <1>2, <2>5 DEF IsInstance, Shaped, OutsideSlots
        <3> QED BY <1>2, <2>5, <3>1, <3>2 DEF IsInstance
    <2>7. Typed' /\ Related'
        BY <1>2, <1>4, <2>2, <2>3, <2>5, <2>6, OneInstance
    <2>8. ASSUME d # NoCall
          PROVE  IsCall(w, d)'
        <3>1. /\ d = Onward(c) /\ ValueError(x.slots[h.index], u.value) = "None"
              /\ AliasError(w, u.value) = "None"
            BY <2>8, <2>d
        <3>2. Passed(w, u)
            BY <1>u, <1>x, <2>1, <3>1 DEF Passed, AliasError
        <3>3. \A i \in 1..c.at : Passed(w, c.batch[i])
            BY <1>2, <1>3, <1>u, <3>2 DEF IsCall
        <3>4. y # NoInstance
            <4>1. y.id \in 1..MaxPlanId
                BY <2>6 DEF IsInstance
            <4> QED BY <4>1 DEF NoInstance
        <3>5. ASSUME NEW i \in 1..Len(c.batch)
              PROVE  /\ Readable(w, c.batch[i].value)'
                     /\ i <= c.at => Passed(w, c.batch[i])'
            <4>1. Readable(w, c.batch[i].value)
                BY <1>2 DEF IsCall
            <4>2. \A v \in Workers : v # w /\ calls[v] = NoCall =>
                      instances'[v] = instances[v] /\ calls'[v] = NoCall
                BY <2>3
            <4> QED BY <1>3, <1>x, <2>3, <2>5, <3>3, <3>4, <4>1, <4>2, SameReads
        <3>6. \A k \in 1..Len(x.slots) :
                  y.seen[k] = y.epoch <=> \E j \in 1..c.at : c.batch[j].handle.index = k
            <4>1. \A k \in 1..Len(x.slots) :
                      x.seen[k] = x.epoch <=> \E j \in 1..c.at - 1 : c.batch[j].handle.index = k
                BY <1>1, <1>2, <1>x DEF IsCall, Stamped
            <4>2. c.batch[c.at].handle.index = h.index
                BY <1>u
            <4> QED BY <1>3, <2>1, <2>4, <2>5, <4>1, <4>2
        <3>7. CASE c.at < Len(c.batch)
            <4>1. /\ d = [phase |-> d.phase, batch |-> d.batch, at |-> d.at]
                  /\ d.phase = "check" /\ d.batch = c.batch /\ d.at = c.at + 1
                BY <1>1, <1>3, <3>1, <3>7 DEF Onward
            <4>2. Stamped(w, d)'
                BY <1>3, <2>3, <2>5, <3>6, <4>1 DEF Stamped
            <4>3. d.at \in 1..Len(d.batch)
                BY <1>3, <3>7, <4>1
            <4>4. \A i \in 1..Len(d.batch) : i < d.at => i <= c.at
                BY <1>3, <4>1
            <4>5. \A i \in 1..Len(d.batch) : d.batch[i].handle \in handles \cup {NullHandle}
                BY <1>2, <4>1 DEF IsCall
            <4> QED BY <1>3, <1>4, <2>3, <3>4, <3>5, <4>1, <4>2, <4>3, <4>4, <4>5 DEF IsCall
        <3>8. CASE ~(c.at < Len(c.batch))
            <4>1. /\ d = [phase |-> d.phase, batch |-> d.batch, at |-> d.at]
                  /\ d.phase = "write" /\ d.batch = c.batch /\ d.at = 1
                BY <1>1, <1>3, <3>1, <3>8 DEF Onward
            <4>2. \A i \in 1..Len(d.batch) : i <= c.at
                BY <1>3, <3>8, <4>1
            <4>3. d.at \in 1..Len(d.batch)
                BY <1>3, <4>1
            <4>4. \A i \in 1..Len(d.batch) : d.batch[i].handle \in handles \cup {NullHandle}
                BY <1>2, <4>1 DEF IsCall
            <4> QED BY <1>3, <1>4, <2>3, <3>4, <3>5, <4>1, <4>2, <4>3, <4>4 DEF IsCall
        <3> QED BY <3>7, <3>8
    <2>9. Calling'
        BY <1>1, <1>4, <1>x, <2>3, <2>8, OtherCalls DEF Calling
    <2> QED BY <2>7, <2>9 DEF Inv
<1> QED BY <1>6, <1>7

-----------------------------------------------------------------------------
(* Writing                                                                  *)

LEMMA SlotWidth ==
    ASSUME NEW x, NEW n, IsInstance(x, n), NEW i \in 1..Len(x.slots)
    PROVE  /\ \E S : SlotBytes(x, i) \in Seq(S)
           /\ Len(SlotBytes(x, i)) = x.slots[i].width
           /\ SlotBytes(x, i) = <<>> <=> x.slots[i].width = 0
<1>1. PICK l \in Layouts : l.slots = x.slots /\ l.payloads = x.blank
    BY DEF IsInstance
<1>s. PICK s : s = x.slots[i]
    OBVIOUS
<1>2. /\ s.family \in Families /\ s.offset \in Nat /\ s.width \in Nat
      /\ s.offset + s.width <= Len(x.blank[s.family])
    BY <1>1, <1>s, LayoutFacts DEF Fits
<1>p. PICK p : p = x.payloads[s.family]
    OBVIOUS
<1>3. IsSeq(p) /\ Len(p) = Len(x.blank[s.family])
    BY <1>2, <1>p DEF IsInstance, Shaped
<1>4. PICK S : S = {p[j] : j \in 1..Len(p)}
    OBVIOUS
<1>5. PICK a, b : a = s.offset + 1 /\ b = s.offset + s.width
    OBVIOUS
<1>6. a \in Int /\ b \in Int /\ \A j \in a..b : p[j] \in S
    BY <1>2, <1>3, <1>4, <1>5 DEF IsSeq
<1>7. PICK q : q = SubSeq(p, a, b)
    OBVIOUS
<1>w. (IF a <= b THEN b - a + 1 ELSE 0) = s.width
    BY <1>2, <1>5
<1>8. SlotBytes(x, i) = q
    BY <1>s, <1>p, <1>5, <1>7 DEF SlotBytes
<1>9. q \in Seq(S) /\ Len(q) = s.width
    BY <1>6, <1>7, <1>w, SubSeqProperties
<1>10. q = <<>> <=> Len(q) = 0
    BY <1>9
<1> QED BY <1>8, <1>9, <1>10, <1>s

\* What the checks let through is as wide as the slot.
LEMMA EncodedWidth ==
    ASSUME NEW x, NEW n, IsInstance(x, n), NEW i \in 1..Len(x.slots),
           NEW kind, NEW bytes, NEW S, bytes \in Seq(S),
           IF x.slots[i].family = "Xmp" THEN Len(Escaped(bytes)) = x.slots[i].width
           ELSE kind = x.slots[i].kind /\ Len(bytes) = x.slots[i].count
    PROVE  Len(Encoded(x.slots[i], kind, bytes)) = x.slots[i].width
<1>1. PICK l \in Layouts : l.slots = x.slots /\ l.payloads = x.blank
    BY DEF IsInstance
<1>s. PICK s : s = x.slots[i]
    OBVIOUS
<1>2. /\ s.family \in Families /\ s.kind \in ValueKinds /\ s.count \in Nat
      /\ s.family = "Exif" => s.width = s.count + (IF s.kind = "Text" THEN 1 ELSE 0)
      /\ s.family = "Iptc" => s.width = s.count
    BY <1>1, <1>s, LayoutFacts DEF Fits
<1>3. CASE s.family = "Xmp"
    BY <1>3, <1>s DEF Encoded
<1>4. CASE s.family = "Exif" /\ kind = "Text"
    <2>1. Len(Append(bytes, 0)) = Len(bytes) + 1
        <3>1. bytes \in Seq(S \cup {0})
            OBVIOUS
        <3> QED BY <3>1
    <2>2. s.kind = "Text" /\ Len(bytes) = s.count
        BY <1>4, <1>s
    <2> QED BY <1>2, <1>4, <1>s, <2>1, <2>2 DEF Encoded
<1>5. CASE s.family # "Xmp" /\ ~(s.family = "Exif" /\ kind = "Text")
    <2>1. Encoded(s, kind, bytes) = bytes /\ kind = s.kind /\ Len(bytes) = s.count
        BY <1>5, <1>s DEF Encoded
    <2>2. s.width = s.count
        BY <1>2, <1>5, <2>1 DEF Families
    <2> QED BY <1>s, <2>1, <2>2
<1> QED BY <1>3, <1>4, <1>5

\* memcpy within the payload.
LEMMA OverlayKeeps ==
    ASSUME NEW p, IsSeq(p), NEW o \in Nat, NEW bytes, Len(bytes) \in Nat,
           o + Len(bytes) <= Len(p)
    PROVE  LET q == Overlay(p, o, bytes)
           IN  /\ IsSeq(q) /\ Len(q) = Len(p)
               /\ \A i \in 1..Len(p) : i <= o \/ i > o + Len(bytes) => q[i] = p[i]
<1>q. PICK q : q = Overlay(p, o, bytes)
    OBVIOUS
<1>1. Len(p) \in Nat
    BY DEF IsSeq
<1>2. q = [i \in 1..Len(p) |-> IF i > o /\ i <= o + Len(bytes) THEN bytes[i - o] ELSE p[i]]
    BY <1>1, <1>q DEF Overlay
<1>3. q \in Seq({q[i] : i \in 1..Len(p)}) /\ Len(q) = Len(p)
    BY <1>1, <1>2
<1>4. IsSeq(q)
    BY <1>1, <1>2, <1>3 DEF IsSeq
<1>5. \A i \in 1..Len(p) : i <= o \/ i > o + Len(bytes) => q[i] = p[i]
    BY <1>1, <1>2
<1> QED BY <1>q, <1>3, <1>4, <1>5

\* The value of an update that passed is a sequence of the width of its slot,
\* once it is written as the slot asks.
LEMMA PassedWidth ==
    ASSUME Inv, NEW w \in Workers, NEW x, x = instances[w], x # NoInstance,
           NEW u, Readable(w, u.value), Passed(w, u), u.handle.index \in 1..Len(x.slots)
    PROVE  Len(Encoded(x.slots[u.handle.index], u.value.kind, BytesOf(u.value)))
               = x.slots[u.handle.index].width
<1>i. PICK i : i = u.handle.index
    OBVIOUS
<1>v. PICK v, bytes : v = u.value /\ bytes = BytesOf(v)
    OBVIOUS
<1>1. IsInstance(x, generation)
    BY DEF Inv, Typed
<1>2. \E S : bytes \in Seq(S)
    <2>1. CASE v.in = Host /\ v \in HostValues
        <3>1. v.bytes \in Seq(Bytes)
            BY <2>1, PatchAssumption
        <3> QED BY <1>v, <2>1, <3>1 DEF BytesOf
    <2>2. CASE v.in \in Workers /\ instances[v.in] # NoInstance
               /\ v.slot \in 1..Len(instances[v.in].slots)
        <3>1. IsInstance(instances[v.in], generation)
            BY <2>2 DEF Inv, Typed
        <3>2. \E S : SlotBytes(instances[v.in], v.slot) \in Seq(S)
            BY <2>2, <3>1, SlotWidth
        <3>3. Host \notin Workers
            BY PatchAssumption
        <3> QED BY <1>v, <2>2, <3>2, <3>3 DEF BytesOf
    <2> QED BY <1>v, <2>1, <2>2 DEF Readable
<1>3. PICK S : bytes \in Seq(S)
    BY <1>2
<1>4. ValueError(x.slots[i], v) = "None"
    BY <1>i, <1>v DEF Passed
<1>5. IF x.slots[i].family = "Xmp" THEN Len(Escaped(bytes)) = x.slots[i].width
      ELSE v.kind = x.slots[i].kind /\ Len(bytes) = x.slots[i].count
    BY <1>4, <1>v DEF ValueError
<1>6. Len(Encoded(x.slots[i], v.kind, bytes)) = x.slots[i].width
    BY <1>1, <1>3, <1>5, <1>i, EncodedWidth
<1> QED BY <1>6, <1>i, <1>v

LEMMA WriteInv ==
    ASSUME Inv, NEW w \in Workers, Write(w)
    PROVE  Inv'
<1>x. PICK x, c : x = instances[w] /\ c = calls[w]
    OBVIOUS
<1>u. PICK u, h : u = c.batch[c.at] /\ h = u.handle
    OBVIOUS
<1>1. c.phase = "write" /\ c # NoCall
    <2>1. calls[w].phase = "write"
        BY DEF Write
    <2> QED BY <1>x, <2>1 DEF NoCall
<1>2. IsCall(w, c) /\ x # NoInstance /\ x \in Owners /\ IsInstance(x, generation)
    BY <1>x, <1>1 DEF Inv, Calling, IsCall, Owners, Typed
<1>3. /\ c = [phase |-> c.phase, batch |-> c.batch, at |-> c.at]
      /\ Len(c.batch) \in Nat /\ c.at \in 1..Len(c.batch)
      /\ h \in handles \cup {NullHandle} /\ Readable(w, u.value) /\ Passed(w, u)
    BY <1>1, <1>2, <1>u DEF IsCall
<1>4. plans' = plans /\ handles' = handles /\ generation' = generation
    BY DEF Write
<1>5. /\ calls = [v \in Workers |-> calls[v]]
      /\ instances = [v \in Workers |-> instances[v]]
    BY DEF Inv, Typed
<1>6. IndexOf(h) = h.index /\ h.index \in 1..Len(x.slots)
    <2>1. h.gen = x.gen
        BY <1>3, <1>u, <1>x DEF Passed
    <2> QED BY <1>2, <1>3, <1>x, <2>1, OwnHandle DEF Inv
<1>s. PICK s, new : /\ s = x.slots[h.index]
                    /\ new = Encoded(s, u.value.kind, BytesOf(u.value))
    OBVIOUS
<1>y. PICK y : y = [x EXCEPT !.payloads[s.family] = Overlay(x.payloads[s.family], s.offset, new)]
    OBVIOUS
<1>7. instances' = [instances EXCEPT ![w] = y] /\ calls' = [calls EXCEPT ![w] = Onward(c)]
    <2>1. instances' = [instances EXCEPT ![w].payloads[s.family] =
                           Overlay(x.payloads[s.family], s.offset, new)]
        BY <1>x, <1>u, <1>6, <1>s DEF Write
    <2>2. calls' = [calls EXCEPT ![w] = Onward(c)]
        BY <1>x DEF Write
    <2> QED BY <1>5, <1>x, <1>y, <2>1, <2>2
<1>8. /\ instances'[w] = y /\ calls'[w] = Onward(c)
      /\ \A v \in Workers : v # w => instances'[v] = instances[v] /\ calls'[v] = calls[v]
      /\ calls' = [v \in Workers |-> calls'[v]]
    BY <1>5, <1>7
<1>9. /\ x = [id |-> x.id, gen |-> x.gen, slots |-> x.slots, payloads |-> x.payloads,
              blank |-> x.blank, seen |-> x.seen, epoch |-> x.epoch]
      /\ x.payloads = [f \in Families |-> x.payloads[f]]
    BY <1>2 DEF IsInstance, Shaped
<1>10. /\ y = [id |-> y.id, gen |-> y.gen, slots |-> y.slots, payloads |-> y.payloads,
               blank |-> y.blank, seen |-> y.seen, epoch |-> y.epoch]
       /\ y.id = x.id /\ y.gen = x.gen /\ y.slots = x.slots
       /\ y.blank = x.blank /\ y.epoch = x.epoch /\ y.seen = x.seen
       /\ y.payloads = [x.payloads EXCEPT ![s.family] =
                           Overlay(x.payloads[s.family], s.offset, new)]
    BY <1>y, <1>9
<1>11. /\ s.family \in Families /\ s.offset \in Nat /\ s.width \in Nat
       /\ s.offset + s.width <= Len(x.blank[s.family])
    <2>1. PICK l \in Layouts : l.slots = x.slots /\ l.payloads = x.blank
        BY <1>2 DEF IsInstance
    <2> QED BY <1>6, <1>s, <2>1, LayoutFacts DEF Fits
<1>12. Len(new) = s.width
    <2>0. u.handle.index \in 1..Len(x.slots)
        BY <1>6, <1>u
    <2>1. Len(Encoded(x.slots[u.handle.index], u.value.kind, BytesOf(u.value)))
              = x.slots[u.handle.index].width
        <3>1. x = instances[w] /\ x # NoInstance /\ Readable(w, u.value) /\ Passed(w, u)
            BY <1>2, <1>3, <1>x
        <3> QED BY <2>0, <3>1, PassedWidth
    <2> QED BY <1>s, <1>u, <2>1
<1>13. Shaped(y)
    <2>1. y.payloads = [f \in Families |-> y.payloads[f]]
        BY <1>9, <1>10
    <2>2. ASSUME NEW f \in Families
          PROVE  /\ IsSeq(y.payloads[f]) /\ Len(y.payloads[f]) = Len(y.blank[f])
                 /\ \A i \in 1..Len(y.payloads[f]) :
                       OutsideSlots(y, f, i) => y.payloads[f][i] = y.blank[f][i]
        <3>p. PICK p, q, b : p = x.payloads[f] /\ q = y.payloads[f] /\ b = x.blank[f]
            OBVIOUS
        <3>1. /\ IsSeq(p) /\ Len(p) = Len(b)
              /\ \A i \in 1..Len(p) : OutsideSlots(x, f, i) => p[i] = b[i]
            BY <1>2, <3>p DEF IsInstance, Shaped
        <3>2. \A i \in 1..Len(p) : OutsideSlots(y, f, i) <=> OutsideSlots(x, f, i)
            BY <1>10 DEF OutsideSlots
        <3>3. CASE f # s.family
            <4>1. q = p
                BY <1>9, <1>10, <3>3, <3>p
            <4> QED BY <1>10, <3>1, <3>2, <3>p, <4>1
        <3>4. CASE f = s.family
            <4>1. q = Overlay(p, s.offset, new)
                BY <1>9, <1>10, <3>4, <3>p
            <4>2. /\ IsSeq(q) /\ Len(q) = Len(p)
                  /\ \A i \in 1..Len(p) : i <= s.offset \/ i > s.offset + s.width => q[i] = p[i]
                <5>1. s.offset + Len(new) <= Len(p) /\ Len(new) \in Nat
                    BY <1>11, <1>12, <3>1, <3>4, <3>p
                <5> QED BY <1>11, <1>12, <3>1, <4>1, <5>1, OverlayKeeps
            <4>3. \A i \in 1..Len(p) : OutsideSlots(x, f, i) =>
                      i <= s.offset \/ i > s.offset + s.width
                BY <1>6, <1>s, <3>4 DEF OutsideSlots
            <4> QED BY <1>10, <3>1, <3>2, <3>p, <4>2, <4>3
        <3> QED BY <3>3, <3>4
    <2> QED BY <2>1, <2>2 DEF Shaped
<1>14. IsInstance(y, generation)
    BY <1>2, <1>10, <1>13 DEF IsInstance
<1>15. Typed' /\ Related'
    BY <1>2, <1>4, <1>7, <1>8, <1>10, <1>14, OneInstance
<1>16. y # NoInstance
    <2>1. y.id \in 1..MaxPlanId
        BY <1>14 DEF IsInstance
    <2> QED BY <2>1 DEF NoInstance
<1>17. ASSUME NEW a, Readable(w, a.value), Passed(w, a)
       PROVE  Readable(w, a.value)' /\ Passed(w, a)'
    <2>1. Host \notin Workers
        BY PatchAssumption
    <2>2. Readable(w, a.value)' /\ BytesOf(a.value)' = BytesOf(a.value)
        <3>1. CASE a.value.in = Host
            BY <1>17, <2>1, <3>1 DEF Readable, BytesOf
        <3>2. CASE a.value.in = w
            <4>1. a.value.slot \in 1..Len(x.slots) /\ a.value.slot \in 1..Len(y.slots)
                BY <1>17, <1>10, <1>x, <2>1, <3>2 DEF Readable
            <4>2. SlotBytes(x, a.value.slot) = <<>>
                BY <1>17, <1>x, <2>1, <3>2 DEF Passed, BytesOf
            <4>3. SlotBytes(y, a.value.slot) = <<>>
                BY <1>2, <1>10, <1>14, <4>1, <4>2, SlotWidth
            <4>4. BytesOf(a.value)' = SlotBytes(y, a.value.slot)
                BY <1>8, <2>1, <3>2 DEF BytesOf
            <4>5. BytesOf(a.value) = SlotBytes(x, a.value.slot)
                BY <1>x, <2>1, <3>2 DEF BytesOf
            <4>6. Readable(w, a.value)'
                BY <1>8, <1>16, <2>1, <3>2, <4>1 DEF Readable
            <4> QED BY <4>2, <4>3, <4>4, <4>5, <4>6
        <3>3. CASE a.value.in \in Workers \ {w}
            BY <1>17, <1>8, <2>1, <3>3 DEF Readable, BytesOf
        <3> QED BY <1>17, <3>1, <3>2, <3>3 DEF Readable
    <2>3. instances'[w].gen = instances[w].gen /\ instances'[w].slots = instances[w].slots
        BY <1>8, <1>10, <1>x
    <2>4. ValueError(instances[w].slots[a.handle.index], a.value)'
              = ValueError(instances[w].slots[a.handle.index], a.value)
        BY <2>2, <2>3 DEF ValueError
    <2>5. Passed(w, a)'
        BY <1>17, <2>2, <2>3, <2>4 DEF Passed
    <2> QED BY <2>2, <2>5
<1>18. ASSUME Onward(c) # NoCall
       PROVE  IsCall(w, Onward(c))'
    <2>d. PICK d : d = Onward(c)
        OBVIOUS
    <2>1. /\ c.at < Len(c.batch) /\ d.phase = "write" /\ d.batch = c.batch
          /\ d.at = c.at + 1 /\ d = [phase |-> d.phase, batch |-> d.batch, at |-> d.at]
        BY <1>1, <1>3, <1>18, <2>d DEF Onward
    <2>2. d.at \in 1..Len(d.batch)
        BY <1>3, <2>1
    <2>3. \A i \in 1..Len(d.batch) :
              /\ d.batch[i].handle \in handles \cup {NullHandle}
              /\ Readable(w, d.batch[i].value) /\ Passed(w, d.batch[i])
        BY <1>1, <1>2, <2>1 DEF IsCall
    <2>4. \A i \in 1..Len(d.batch) : Readable(w, d.batch[i].value)' /\ Passed(w, d.batch[i])'
        BY <1>17, <2>3
    <2>5. IsCall(w, d)'
        BY <1>3, <1>4, <1>8, <1>16, <2>1, <2>2, <2>3, <2>4 DEF IsCall
    <2> QED BY <2>d, <2>5
<1>19. Calling'
    BY <1>1, <1>4, <1>8, <1>18, <1>x, OtherCalls DEF Calling
<1> QED BY <1>15, <1>19 DEF Inv

-----------------------------------------------------------------------------
LEMMA NextInv == Inv /\ [Next]_vars => Inv'
<1> SUFFICES ASSUME Inv, [Next]_vars PROVE Inv'
    OBVIOUS
<1>1. ASSUME NEW p \in Plans, Prepare(p) PROVE Inv'
    BY <1>1, PrepareInv
<1>2. ASSUME NEW p \in Plans, ResetPlan(p) PROVE Inv'
    BY <1>2, ResetPlanInv
<1>3. ASSUME NEW p \in Plans, NEW q \in Plans, MovePlan(p, q) PROVE Inv'
    BY <1>3, MovePlanInv
<1>4. ASSUME NEW g \in 1..MaxSlots, DropHandles(g) PROVE Inv'
    BY <1>4, DropHandlesInv
<1>5. ASSUME NEW w \in Workers, NEW p \in Plans, Create(w, p) PROVE Inv'
    BY <1>5, CreateInv
<1>6. ASSUME NEW w \in Workers, Reset(w) PROVE Inv'
    BY <1>6, ResetInv
<1>7. ASSUME NEW w \in Workers, Begin(w) PROVE Inv'
    BY <1>7, BeginInv
<1>8. ASSUME NEW w \in Workers, Check(w) PROVE Inv'
    BY <1>8, CheckInv
<1>9. ASSUME NEW w \in Workers, Write(w) PROVE Inv'
    BY <1>9, WriteInv
<1>10. ASSUME NEW w \in Workers, NEW v \in Workers, MoveInstance(w, v) PROVE Inv'
    BY <1>10, MoveInstanceInv
<1>11. CASE UNCHANGED vars
    <2>1. /\ plans' = plans /\ instances' = instances /\ calls' = calls
          /\ handles' = handles /\ generation' = generation
        BY <1>11 DEF vars
    <2>2. Typed'
        BY <2>1 DEF Inv, Typed
    <2>3. Owners' = Owners
        BY <2>1 DEF Owners
    <2>4. Related'
        BY <2>1, <2>3, KeepsRelated DEF Inv
    <2>5. Calling'
        BY <2>1, KeepsCalling DEF Inv
    <2> QED BY <2>2, <2>4, <2>5 DEF Inv
<1> QED BY <1>1, <1>2, <1>3, <1>4, <1>5, <1>6, <1>7, <1>8, <1>9, <1>10, <1>11 DEF Next

LEMMA AlwaysInv == Spec => []Inv
BY InitInv, NextInv, PTL DEF Spec

-----------------------------------------------------------------------------
(* The theorems                                                             *)

\* A handle is accepted exactly by an instance of the preparation that issued
\* it, once per batch, whatever ids are used again and however often seen_epoch
\* has wrapped.
THEOREM HandlesAlwaysJudgedRight == Spec => []HandlesJudgedRight
BY AlwaysInv, JudgedRight, PTL

LEMMA KeptShape == Inv => PayloadsKeepTheirShape
<1> SUFFICES ASSUME Inv, NEW w \in Workers, instances[w] # NoInstance, NEW f \in Families
             PROVE  LET p == instances[w].payloads[f]
                        b == instances[w].blank[f]
                    IN  /\ Len(p) = Len(b)
                        /\ \A i \in 1..Len(p) :
                              OutsideSlots(instances[w], f, i) => p[i] = b[i]
    BY DEF PayloadsKeepTheirShape
<1>1. Shaped(instances[w])
    BY DEF Inv, Typed, IsInstance
<1> QED BY <1>1 DEF Shaped

\* The writes of a batch stay in the slots: what was checked of an update before
\* the first write of the batch still holds when its own turn comes.
THEOREM PayloadsAlwaysKeepTheirShape == Spec => []PayloadsKeepTheirShape
BY AlwaysInv, KeptShape, PTL


-----------------------------------------------------------------------------
(* What is written is bytes                                                 *)

\* The principle of induction, from the minimal element of a set of numbers.
LEMMA Induction ==
    ASSUME NEW S, 0 \in S, \A n \in Nat : n \in S => n + 1 \in S
    PROVE  Nat \subseteq S
<1> SUFFICES ASSUME NEW n \in Nat, n \notin S PROVE FALSE
    OBVIOUS
<1> DEFINE F == {0..k : k \in {j \in 0..n : j \notin S}}
           R == StrictSubsetOrdering(0..n)
<1>1. IsWellFoundedOn(R, FiniteSubsetsOf(0..n))
    BY FS_StrictSubsetOrderingWellFounded
<1>2. FiniteSubsetsOf(0..n) = SUBSET (0..n)
    <2>1. IsFiniteSet(0..n)
        BY FS_Interval
    <2> QED BY <2>1, FS_FiniteSubsetsOfFinite
<1>3. F \subseteq SUBSET (0..n) /\ F # {}
    OBVIOUS
<1>4. PICK x \in F : \A y \in F : ~(<<y, x>> \in R)
    <2> HIDE DEF F, R
    <2> QED BY <1>1, <1>2, <1>3, WFMin
<1>5. PICK k \in 0..n : k \notin S /\ x = 0..k
    OBVIOUS
<1>6. k # 0 /\ k - 1 \in Nat /\ k - 1 \in 0..n /\ k - 1 \notin S
    BY <1>5
<1>7. 0..k - 1 \in F
    BY <1>6
<1>8. <<0..k - 1, x>> \in R
    <2>1. 0..k - 1 \subseteq 0..k /\ k \in 0..k /\ k \notin 0..k - 1
        BY <1>6
    <2>2. 0..k - 1 \in SUBSET (0..n) /\ x \in SUBSET (0..n)
        BY <1>3, <1>7
    <2> QED BY <1>5, <2>1, <2>2 DEF StrictSubsetOrdering
<1> QED BY <1>4, <1>7, <1>8


\* The n parts of FlattenSeq, each the one before with another sequence added.
IsFlattening(seqs, n, f) == f = [i \in 1..n |-> IF i = 1 THEN seqs[i] ELSE f[i - 1] \o seqs[i]]
HasFlattening(seqs, n) == \E f : IsFlattening(seqs, n, f)

LEMMA FlatteningExists ==
    ASSUME NEW seqs, NEW n \in Nat
    PROVE  HasFlattening(seqs, n)
<1> DEFINE S == {m \in Nat : HasFlattening(seqs, m)}
<1>1. 0 \in S
    <2>1. PICK f : f = [i \in 1..0 |-> 0]
        OBVIOUS
    <2>2. IsFlattening(seqs, 0, f)
        BY <2>1 DEF IsFlattening
    <2> QED BY <2>2 DEF HasFlattening
<1>2. ASSUME NEW m \in Nat, m \in S
      PROVE  m + 1 \in S
    <2>1. PICK f : IsFlattening(seqs, m, f)
        BY <1>2 DEF HasFlattening
    <2>2. PICK g : g = [i \in 1..m + 1 |-> IF i = m + 1
                           THEN IF i = 1 THEN seqs[i] ELSE f[i - 1] \o seqs[i]
                           ELSE f[i]]
        OBVIOUS
    <2>3. \A i \in 1..m : g[i] = f[i]
        BY <2>2
    <2>4. ASSUME NEW i \in 1..m + 1
          PROVE  g[i] = IF i = 1 THEN seqs[i] ELSE g[i - 1] \o seqs[i]
        <3>1. i # 1 => i - 1 \in 1..m
            OBVIOUS
        <3>2. i # m + 1 => f[i] = IF i = 1 THEN seqs[i] ELSE f[i - 1] \o seqs[i]
            <4>1. i # m + 1 => i \in 1..m
                OBVIOUS
            <4> QED BY <2>1, <4>1 DEF IsFlattening
        <3>3. g[i] = IF i = 1 THEN seqs[i] ELSE f[i - 1] \o seqs[i]
            BY <2>2, <3>2
        <3> QED BY <2>3, <3>1, <3>3
    <2>5. g = [i \in 1..m + 1 |-> g[i]]
        BY <2>2
    <2>6. IsFlattening(seqs, m + 1, g)
        BY <2>4, <2>5 DEF IsFlattening
    <2>7. HasFlattening(seqs, m + 1)
        BY <2>6 DEF HasFlattening
    <2> QED BY <2>7
<1> HIDE DEF S
<1>3. n \in S
    BY <1>1, <1>2, Induction
<1> QED BY <1>3 DEF S

\* Sequences of members of T make a sequence of members of T.
LEMMA FlattenType ==
    ASSUME NEW T, NEW seqs, Len(seqs) \in Nat, \A i \in 1..Len(seqs) : seqs[i] \in Seq(T),
           Len(seqs) = 0 => seqs = <<>>
    PROVE  FlattenSeq(seqs) \in Seq(T)
<1>1. CASE Len(seqs) = 0
    BY <1>1 DEF FlattenSeq
<1>2. CASE Len(seqs) # 0
    <2> DEFINE n == Len(seqs)
               flatten[i \in 1..n] == IF i = 1 THEN seqs[i] ELSE flatten[i - 1] \o seqs[i]
               S == {m \in Nat : m \in 1..n => flatten[m] \in Seq(T)}
    <2>1. FlattenSeq(seqs) = flatten[n]
        BY <1>2 DEF FlattenSeq
    <2>2. flatten = CHOOSE f : IsFlattening(seqs, n, f)
        BY DEF IsFlattening
    <2>3. IsFlattening(seqs, n, flatten)
        <3> HIDE DEF flatten
        <3> QED BY <2>2, FlatteningExists DEF HasFlattening
    <2> HIDE DEF flatten
    <2>4. \A i \in 1..n : flatten[i] = IF i = 1 THEN seqs[i] ELSE flatten[i - 1] \o seqs[i]
        BY <2>3 DEF IsFlattening
    <2>5. 0 \in S
        OBVIOUS
    <2>6. ASSUME NEW m \in Nat, m \in S
          PROVE  m + 1 \in S
        <3> SUFFICES ASSUME m + 1 \in 1..n PROVE flatten[m + 1] \in Seq(T)
            OBVIOUS
        <3>1. CASE m = 0
            BY <2>4, <3>1
        <3>2. CASE m # 0
            <4>1. m \in 1..n /\ m + 1 # 1 /\ (m + 1) - 1 = m
                BY <3>2
            <4>2. flatten[m + 1] = flatten[m] \o seqs[m + 1]
                BY <2>4, <4>1
            <4>3. flatten[m] \in Seq(T) /\ seqs[m + 1] \in Seq(T)
                BY <2>6, <4>1
            <4> QED BY <4>2, <4>3
        <3> QED BY <3>1, <3>2
    <2>7. n \in S
        <3> HIDE DEF S
        <3> QED BY <2>5, <2>6, Induction
    <2> QED BY <1>2, <2>1, <2>7
<1> QED BY <1>1, <1>2

-----------------------------------------------------------------------------
(* The forms                                                                *)

FieldOf(w, n) ==
    LET writes == {i \in Pending(w) : calls[w].batch[i].handle.index = n}
    IN  IF writes = {} THEN SlotBytes(instances[w], n)
        ELSE NewBytes(w, CHOOSE i \in writes : \A j \in writes : j <= i)

Named(w) == {calls[w].batch[i].handle.index : i \in 1..Len(calls[w].batch)}

Asked(w) ==
    [n \in Named(w) |->
        NewBytes(w, CHOOSE i \in 1..Len(calls[w].batch) : calls[w].batch[i].handle.index = n)]

LEMMA FormIs ==
    \A w \in Workers :
        /\ instances[w] = NoInstance => FormOf(w) = <<>>
        /\ instances[w] # NoInstance =>
              FormOf(w) = [n \in 1..Len(instances[w].slots) |-> FieldOf(w, n)]
BY DEF FormOf, FieldOf

LEMMA PlainField ==
    \A w \in Workers : calls[w].phase # "write" =>
        \A n : FieldOf(w, n) = SlotBytes(instances[w], n)
BY DEF FieldOf, Pending

LEMMA CallIs ==
    \A w \in Workers :
        /\ calls[w] = NoCall => CallOf(w) = Forms!Idle
        /\ calls[w].phase = "write" => CallOf(w) = Forms!Settled
        /\ calls[w].phase = "check" => CallOf(w) = IF Acceptable(w) THEN Forms!Asked(Asked(w))
                                                   ELSE Forms!Bad
BY DEF CallOf, NoCall, Asked, Named, Forms!Idle, Forms!Settled, Forms!Asked, Forms!Bad

Same(w) == FormOf(w)' = FormOf(w) /\ CallOf(w)' = CallOf(w)

LEMMA AllSame ==
    ASSUME \A w \in Workers : Same(w)
    PROVE  UNCHANGED Forms!vars
BY DEF Same, Forms!vars

LEMMA NextForms ==
    \A w \in Workers : Forms!Ask(w) \/ Forms!Settle(w) \/ Forms!Refuse(w) \/ Forms!Finish(w)
                       \/ Forms!Own(w) => Forms!Next
BY DEF Forms!Next

LEMMA NotBorrowed ==
    ASSUME Inv, NEW w \in Workers, calls[w] # NoCall \/ Free(w), NEW v \in Workers, v # w
    PROVE  ~Borrows(calls[v], w)
<1>1. CASE calls[v] = NoCall \/ Free(w)
    BY <1>1 DEF Free, Borrows
<1>2. CASE calls[v] # NoCall /\ calls[w] # NoCall
    <2>1. IsCall(v, calls[v]) /\ Host \notin Workers
        BY <1>2, PatchAssumption DEF Inv, Calling
    <2>2. ASSUME NEW i \in 1..Len(calls[v].batch)
          PROVE  calls[v].batch[i].value.in # w
        BY <1>2, <2>1 DEF IsCall, Readable
    <2> QED BY <2>2 DEF Borrows
<1> QED BY <1>1, <1>2

\* What a call reads of instances that do not change.
LEMMA SameBytes ==
    ASSUME Inv, NEW v \in Workers, calls[v] # NoCall,
           NEW i \in 1..Len(calls[v].batch), NEW a, a = calls[v].batch[i].value,
           a.in \in Workers => instances'[a.in] = instances[a.in]
    PROVE  BytesOf(a)' = BytesOf(a)
<1>1. Readable(v, a) /\ Host \notin Workers
    BY PatchAssumption DEF Inv, Calling, IsCall
<1>2. CASE a.in = Host
    BY <1>1, <1>2 DEF BytesOf
<1>3. CASE a.in \in Workers
    BY <1>1, <1>3 DEF BytesOf
<1> QED BY <1>1, <1>2, <1>3 DEF Readable


-----------------------------------------------------------------------------
(* What the three steps of a call do                                        *)

\* A step of w's call, seen from the other workers and the host.
Alone(w) ==
    /\ \A v \in Workers : v # w => instances'[v] = instances[v] /\ calls'[v] = calls[v]
    /\ handles' = handles

\* The instance of w is as it was, up to the stamps.
Unpatched(w) ==
    /\ instances[w] # NoInstance /\ instances'[w] # NoInstance
    /\ instances'[w].gen = instances[w].gen
    /\ instances'[w].slots = instances[w].slots
    /\ instances'[w].payloads = instances[w].payloads

LEMMA BeginStep ==
    ASSUME Inv, NEW w \in Workers, Begin(w)
    PROVE  /\ calls[w] = NoCall /\ Free(w) /\ Alone(w) /\ Unpatched(w)
           /\ calls'[w].phase = "check" /\ calls'[w].at = 1 /\ calls'[w] # NoCall
<1>x. PICK x, y : x = instances[w] /\ y = Restamped(x)
    OBVIOUS
<1>1. PICK batch : calls' = [calls EXCEPT ![w] = [phase |-> "check", batch |-> batch, at |-> 1]]
    BY DEF Begin
<1>2. /\ Free(w) /\ x # NoInstance /\ instances' = [instances EXCEPT ![w] = y]
      /\ handles' = handles
    BY <1>x DEF Begin
<1>3. /\ instances'[w] = y
      /\ calls'[w] = [phase |-> "check", batch |-> batch, at |-> 1]
      /\ \A v \in Workers : v # w => instances'[v] = instances[v] /\ calls'[v] = calls[v]
    BY <1>1, <1>2 DEF Inv, Typed
<1>4. IsInstance(x, generation)
    BY <1>x, <1>2 DEF Inv, Typed
<1>5. /\ y.id = x.id /\ y.gen = x.gen /\ y.slots = x.slots /\ y.payloads = x.payloads
    BY <1>x, <1>4, RestampedFacts
<1>6. y # NoInstance
    <2>1. y.id # 0
        BY <1>4, <1>5 DEF IsInstance
    <2> QED BY <2>1 DEF NoInstance
<1>7. calls'[w].phase = "check" /\ calls'[w].at = 1
    BY <1>3
<1>8. calls'[w] # NoCall
    BY <1>7 DEF NoCall
<1> QED BY <1>2, <1>3, <1>5, <1>6, <1>7, <1>8, <1>x DEF Alone, Unpatched, Free

\* A check refuses the batch for a fault of its update, or goes on.
Faultless(w) ==
    LET c == calls[w] IN ~Repeated(c.batch, c.at) /\ Passed(w, c.batch[c.at])

LEMMA CheckStep ==
    ASSUME Inv, NEW w \in Workers, Check(w)
    PROVE  LET c == calls[w]
           IN  /\ c.phase = "check" /\ c # NoCall /\ IsCall(w, c)
               /\ Alone(w) /\ Unpatched(w)
               /\ calls'[w] = IF Faultless(w) THEN Onward(c) ELSE NoCall
<1>x. PICK x, c : x = instances[w] /\ c = calls[w]
    OBVIOUS
<1>u. PICK u, h : u = c.batch[c.at] /\ h = u.handle
    OBVIOUS
<1>1. c.phase = "check" /\ c # NoCall
    BY <1>x DEF Check, NoCall
<1>2. IsCall(w, c) /\ x # NoInstance /\ IsInstance(x, generation)
    BY <1>x, <1>1 DEF Inv, Calling, IsCall, Typed
<1>3. h \in handles \cup {NullHandle} /\ c.at \in 1..Len(c.batch)
    BY <1>2, <1>u DEF IsCall
<1>5. /\ calls = [v \in Workers |-> calls[v]]
      /\ instances = [v \in Workers |-> instances[v]]
      /\ handles' = handles
    BY DEF Inv, Typed, Check
<1>6. HandleError(x, h) = "None" <=> h.gen = x.gen /\ ~Repeated(c.batch, c.at)
    BY <1>1, <1>x, <1>u, JudgedRight DEF HandlesJudgedRight
<1>7. CASE HandleError(x, h) # "None"
    <2>1. calls' = [calls EXCEPT ![w] = NoCall] /\ instances' = instances
        BY <1>7, <1>x, <1>u DEF Check
    <2>2. Alone(w) /\ Unpatched(w) /\ calls'[w] = NoCall
        BY <1>2, <1>5, <1>x, <2>1 DEF Alone, Unpatched
    <2>3. ~Faultless(w)
        BY <1>6, <1>7, <1>u, <1>x DEF Faultless, Passed
    <2> QED BY <1>1, <1>2, <1>x, <2>2, <2>3
<1>8. CASE HandleError(x, h) = "None"
    <2>1. IndexOf(h) = h.index /\ h.index \in 1..Len(x.slots) /\ h.gen = x.gen
        BY <1>2, <1>3, <1>6, <1>8, <1>x, OwnHandle DEF Inv
    <2>d. PICK d : d = IF ValueError(x.slots[h.index], u.value) # "None"
                          \/ AliasError(w, u.value) # "None"
                       THEN NoCall ELSE Onward(c)
        OBVIOUS
    <2>y. PICK y : y = [x EXCEPT !.seen[h.index] = x.epoch]
        OBVIOUS
    <2>2. instances' = [instances EXCEPT ![w] = y] /\ calls' = [calls EXCEPT ![w] = d]
        <3>1. instances' = [instances EXCEPT ![w].seen[h.index] = x.epoch]
            BY <1>8, <1>x, <1>u, <2>1 DEF Check
        <3>2. calls' = [calls EXCEPT ![w] = d]
            BY <1>8, <1>x, <1>u, <2>1, <2>d DEF Check
        <3> QED BY <1>5, <1>x, <2>y, <3>1, <3>2
    <2>3. /\ instances'[w] = y /\ calls'[w] = d
          /\ \A v \in Workers : v # w => instances'[v] = instances[v] /\ calls'[v] = calls[v]
        BY <1>5, <2>2
    <2>4. /\ y.id = x.id /\ y.gen = x.gen /\ y.slots = x.slots /\ y.payloads = x.payloads
          /\ x.id # 0
        BY <1>2, <2>y DEF IsInstance
    <2>5. y # NoInstance
        BY <2>4 DEF NoInstance
    <2>6. Passed(w, u) <=> ValueError(x.slots[h.index], u.value) = "None"
                           /\ AliasError(w, u.value) = "None"
        BY <1>u, <1>x, <2>1 DEF Passed, AliasError
    <2>7. Alone(w) /\ Unpatched(w)
        BY <1>2, <1>5, <1>x, <2>3, <2>4, <2>5 DEF Alone, Unpatched
    <2>8. calls'[w] = IF Faultless(w) THEN Onward(c) ELSE NoCall
        <3>1. Faultless(w) <=> Passed(w, u)
            BY <1>6, <1>8, <1>u, <1>x DEF Faultless
        <3> QED BY <2>3, <2>6, <2>d, <3>1
    <2> QED BY <1>1, <1>2, <1>x, <2>7, <2>8
<1> QED BY <1>7, <1>8

LEMMA WriteStep ==
    ASSUME Inv, NEW w \in Workers, Write(w)
    PROVE  LET c   == calls[w]
               x   == instances[w]
               u   == c.batch[c.at]
               s   == x.slots[u.handle.index]
               new == Encoded(s, u.value.kind, BytesOf(u.value))
           IN  /\ c.phase = "write" /\ c # NoCall /\ IsCall(w, c) /\ Alone(w)
               /\ x # NoInstance /\ instances'[w] # NoInstance
               /\ instances'[w].gen = x.gen /\ instances'[w].slots = x.slots
               /\ u.handle.index \in 1..Len(x.slots)
               /\ instances'[w].payloads = [x.payloads EXCEPT ![s.family] =
                                               Overlay(@, s.offset, new)]
               /\ calls'[w] = Onward(c)
<1>x. PICK x, c : x = instances[w] /\ c = calls[w]
    OBVIOUS
<1>u. PICK u, h : u = c.batch[c.at] /\ h = u.handle
    OBVIOUS
<1>1. c.phase = "write" /\ c # NoCall
    <2>1. calls[w].phase = "write"
        BY DEF Write
    <2> QED BY <1>x, <2>1 DEF NoCall
<1>2. IsCall(w, c) /\ x # NoInstance /\ IsInstance(x, generation)
    BY <1>x, <1>1 DEF Inv, Calling, IsCall, Typed
<1>3. h \in handles \cup {NullHandle} /\ Passed(w, u)
    BY <1>1, <1>2, <1>u DEF IsCall
<1>4. /\ calls = [v \in Workers |-> calls[v]]
      /\ instances = [v \in Workers |-> instances[v]]
      /\ handles' = handles
    BY DEF Inv, Typed, Write
<1>5. IndexOf(h) = h.index /\ h.index \in 1..Len(x.slots)
    <2>1. h.gen = x.gen
        BY <1>3, <1>u, <1>x DEF Passed
    <2> QED BY <1>2, <1>3, <1>x, <2>1, OwnHandle DEF Inv
<1>s. PICK s, new : /\ s = x.slots[h.index]
                    /\ new = Encoded(s, u.value.kind, BytesOf(u.value))
    OBVIOUS
<1>y. PICK y : y = [x EXCEPT !.payloads[s.family] = Overlay(x.payloads[s.family], s.offset, new)]
    OBVIOUS
<1>6. instances' = [instances EXCEPT ![w] = y] /\ calls' = [calls EXCEPT ![w] = Onward(c)]
    <2>1. instances' = [instances EXCEPT ![w].payloads[s.family] =
                           Overlay(x.payloads[s.family], s.offset, new)]
        BY <1>x, <1>u, <1>5, <1>s DEF Write
    <2>2. calls' = [calls EXCEPT ![w] = Onward(c)]
        BY <1>x DEF Write
    <2> QED BY <1>4, <1>x, <1>y, <2>1, <2>2
<1>7. /\ instances'[w] = y /\ calls'[w] = Onward(c) /\ Alone(w)
    BY <1>4, <1>6 DEF Alone
<1>8. /\ y.id = x.id /\ y.gen = x.gen /\ y.slots = x.slots /\ x.id # 0
      /\ y.payloads = [x.payloads EXCEPT ![s.family] =
                          Overlay(x.payloads[s.family], s.offset, new)]
    <2>1. x = [id |-> x.id, gen |-> x.gen, slots |-> x.slots, payloads |-> x.payloads,
               blank |-> x.blank, seen |-> x.seen, epoch |-> x.epoch]
        BY <1>2 DEF IsInstance
    <2>2. x.id # 0
        BY <1>2 DEF IsInstance
    <2> QED BY <1>y, <2>1, <2>2
<1>9. y # NoInstance
    BY <1>8 DEF NoInstance
<1> QED BY <1>1, <1>2, <1>5, <1>7, <1>8, <1>9, <1>s, <1>u, <1>x

-----------------------------------------------------------------------------
(* The bytes of slots                                                       *)

LEMMA OverlayType ==
    ASSUME NEW T, NEW p \in Seq(T), NEW b \in Seq(T), NEW o \in Nat, o + Len(b) <= Len(p)
    PROVE  LET q == Overlay(p, o, b)
           IN  /\ q \in Seq(T) /\ Len(q) = Len(p)
               /\ \A i \in 1..Len(p) : q[i] = IF i > o /\ i <= o + Len(b) THEN b[i - o] ELSE p[i]
<1>q. PICK q : q = Overlay(p, o, b)
    OBVIOUS
<1>1. q = [i \in 1..Len(p) |-> IF i > o /\ i <= o + Len(b) THEN b[i - o] ELSE p[i]]
    BY <1>q DEF Overlay
<1>2. \A i \in 1..Len(p) : (IF i > o /\ i <= o + Len(b) THEN b[i - o] ELSE p[i]) \in T
    OBVIOUS
<1>3. q \in Seq(T) /\ Len(q) = Len(p)
    BY <1>1, <1>2
<1> QED BY <1>1, <1>3, <1>q

\* The n members of p after the t-th.
Piece(p, t, n) == SubSeq(p, t + 1, t + n)

LEMMA Window ==
    ASSUME NEW T, NEW q \in Seq(T), NEW t \in Nat, NEW n \in Nat, t + n <= Len(q)
    PROVE  /\ Piece(q, t, n) \in Seq(T) /\ Len(Piece(q, t, n)) = n
           /\ \A i \in 1..n : Piece(q, t, n)[i] = q[t + i]
<1>a. PICK a, b : a = t + 1 /\ b = t + n
    OBVIOUS
<1>r. PICK r : r = SubSeq(q, a, b)
    OBVIOUS
<1>1. a \in Int /\ b \in Int /\ b - a + 1 = n /\ \A i \in a..b : q[i] \in T
    BY <1>a
<1>2. /\ r \in Seq(T) /\ Len(r) = (IF a <= b THEN b - a + 1 ELSE 0)
      /\ \A i \in 1..b - a + 1 : r[i] = q[a + i - 1]
    BY <1>1, <1>r, SubSeqProperties
<1>3. Len(r) = n
    BY <1>1, <1>2, <1>a
<1>4. \A i \in 1..n : r[i] = q[t + i]
    <2>1. \A i \in 1..n : a + i - 1 = t + i
        BY <1>a
    <2> QED BY <1>1, <1>2, <2>1
<1>5. r = Piece(q, t, n)
    BY <1>a, <1>r DEF Piece
<1> QED BY <1>2, <1>3, <1>4, <1>5

\* The range that was written.
LEMMA OverlayWritten ==
    ASSUME NEW T, NEW p \in Seq(T), NEW b \in Seq(T), NEW o \in Nat, o + Len(b) <= Len(p)
    PROVE  Piece(Overlay(p, o, b), o, Len(b)) = b
<1>q. PICK q, r : q = Overlay(p, o, b) /\ r = Piece(q, o, Len(b))
    OBVIOUS
<1>1. /\ q \in Seq(T) /\ Len(q) = Len(p)
      /\ \A i \in 1..Len(p) : q[i] = IF i > o /\ i <= o + Len(b) THEN b[i - o] ELSE p[i]
    BY <1>q, OverlayType
<1>2. r \in Seq(T) /\ Len(r) = Len(b) /\ \A i \in 1..Len(b) : r[i] = q[o + i]
    <2>1. PICK n : n = Len(b)
        OBVIOUS
    <2>2. q \in Seq(T) /\ n \in Nat /\ o + n <= Len(q)
        BY <1>1, <2>1
    <2>3. /\ Piece(q, o, n) \in Seq(T) /\ Len(Piece(q, o, n)) = n
          /\ \A i \in 1..n : Piece(q, o, n)[i] = q[o + i]
        BY <2>2, Window
    <2> QED BY <1>q, <2>1, <2>3
<1>3. ASSUME NEW i \in 1..Len(b)
      PROVE  r[i] = b[i]
    <2>1. o + i \in 1..Len(p) /\ o + i > o /\ o + i <= o + Len(b) /\ (o + i) - o = i
        OBVIOUS
    <2>2. q[o + i] = b[(o + i) - o]
        BY <1>1, <2>1
    <2> QED BY <1>2, <2>1, <2>2
<1> QED BY <1>2, <1>3, <1>q, SeqEqual

\* A range apart from it.
LEMMA OverlayApart ==
    ASSUME NEW T, NEW p \in Seq(T), NEW b \in Seq(T), NEW o \in Nat, o + Len(b) <= Len(p),
           NEW t \in Nat, NEW n \in Nat, t + n <= Len(p), t + n <= o \/ o + Len(b) <= t
    PROVE  Piece(Overlay(p, o, b), t, n) = Piece(p, t, n)
<1>q. PICK q, r, s : q = Overlay(p, o, b) /\ r = Piece(q, t, n) /\ s = Piece(p, t, n)
    OBVIOUS
<1>1. /\ q \in Seq(T) /\ Len(q) = Len(p)
      /\ \A i \in 1..Len(p) : q[i] = IF i > o /\ i <= o + Len(b) THEN b[i - o] ELSE p[i]
    BY <1>q, OverlayType
<1>2. r \in Seq(T) /\ Len(r) = n /\ \A i \in 1..n : r[i] = q[t + i]
    <2>1. q \in Seq(T) /\ t + n <= Len(q)
        BY <1>1
    <2>2. /\ Piece(q, t, n) \in Seq(T) /\ Len(Piece(q, t, n)) = n
          /\ \A i \in 1..n : Piece(q, t, n)[i] = q[t + i]
        BY <2>1, Window
    <2> QED BY <1>q, <2>2
<1>3. s \in Seq(T) /\ Len(s) = n /\ \A i \in 1..n : s[i] = p[t + i]
    BY <1>q, Window
<1>4. ASSUME NEW i \in 1..n
      PROVE  r[i] = s[i]
    <2>1. t + i \in 1..Len(p) /\ ~(t + i > o /\ t + i <= o + Len(b))
        OBVIOUS
    <2>2. q[t + i] = p[t + i]
        BY <1>1, <2>1
    <2> QED BY <1>2, <1>3, <2>2
<1>5. r = s
    BY <1>2, <1>3, <1>4, SeqEqual
<1> QED BY <1>5, <1>q

-----------------------------------------------------------------------------
(* What the forms need besides: payloads are bytes, and the updates that    *)
(* passed name different slots.                                             *)

Written ==
    \A w \in Workers : instances[w] # NoInstance =>
        instances[w].payloads \in [Families -> Seq(Bytes)]

Once ==
    \A w \in Workers : calls[w] # NoCall =>
        \A i \in 1..Len(calls[w].batch) :
            i < calls[w].at \/ calls[w].phase = "write" => ~Repeated(calls[w].batch, i)

LEMMA SlotPlace ==
    ASSUME Inv, NEW w \in Workers, NEW x, x = instances[w], x # NoInstance,
           NEW n \in 1..Len(x.slots), NEW s, s = x.slots[n]
    PROVE  /\ s.family \in Families /\ s.offset \in Nat /\ s.width \in Nat
           /\ s.offset + s.width <= Len(x.payloads[s.family])
           /\ Len(x.slots) \in Nat /\ Len(x.slots) > 0
           /\ \A m \in 1..Len(x.slots) : m # n => Apart(x.slots[m], s)
<1>1. IsInstance(x, generation)
    BY DEF Inv, Typed
<1>2. PICK l \in Layouts : l.slots = x.slots /\ l.payloads = x.blank
    BY <1>1 DEF IsInstance
<1>3. /\ s.family \in Families /\ s.offset \in Nat /\ s.width \in Nat
      /\ s.offset + s.width <= Len(x.blank[s.family])
      /\ Len(x.slots) \in Nat /\ Len(x.slots) > 0
    BY <1>2, LayoutFacts DEF Fits
<1>4. Len(x.payloads[s.family]) = Len(x.blank[s.family])
    BY <1>1, <1>3 DEF IsInstance, Shaped
<1>5. \A m \in 1..Len(x.slots) : m # n => Apart(x.slots[m], s)
    BY <1>2, LayoutsAssumption
<1> QED BY <1>3, <1>4, <1>5

LEMMA SlotType ==
    ASSUME Inv, Written, NEW w \in Workers, NEW x, x = instances[w], x # NoInstance,
           NEW n \in 1..Len(x.slots)
    PROVE  SlotBytes(x, n) \in Seq(Bytes) /\ Len(SlotBytes(x, n)) = x.slots[n].width
<1>s. PICK s, p : s = x.slots[n] /\ p = x.payloads[s.family]
    OBVIOUS
<1>1. /\ s.family \in Families /\ s.offset \in Nat /\ s.width \in Nat
      /\ s.offset + s.width <= Len(p)
    BY <1>s, SlotPlace
<1>2. p \in Seq(Bytes)
    BY <1>1, <1>s DEF Written
<1>3. SlotBytes(x, n) = SubSeq(p, s.offset + 1, s.offset + s.width)
    BY <1>s DEF SlotBytes
<1>4. PICK o, k : o = s.offset /\ k = s.width
    OBVIOUS
<1>5. Piece(p, o, k) \in Seq(Bytes) /\ Len(Piece(p, o, k)) = k
    BY <1>1, <1>2, <1>4, Window
<1> QED BY <1>3, <1>4, <1>5, <1>s DEF Piece

LEMMA ReadType ==
    ASSUME Inv, Written, NEW w \in Workers, NEW v, Readable(w, v)
    PROVE  BytesOf(v) \in Seq(Bytes)
<1>1. Host \notin Workers
    BY PatchAssumption
<1>2. CASE v.in = Host /\ v \in HostValues
    <2>1. v.bytes \in Seq(Bytes)
        BY <1>2, PatchAssumption
    <2> QED BY <1>2, <2>1 DEF BytesOf
<1>3. CASE /\ v.in \in Workers /\ instances[v.in] # NoInstance
           /\ v.slot \in 1..Len(instances[v.in].slots)
    <2>1. SlotBytes(instances[v.in], v.slot) \in Seq(Bytes)
        BY <1>3, SlotType
    <2> QED BY <1>1, <1>3, <2>1 DEF BytesOf
<1> QED BY <1>2, <1>3 DEF Readable

LEMMA EncodedType ==
    ASSUME NEW s, NEW kind, NEW bytes \in Seq(Bytes)
    PROVE  Encoded(s, kind, bytes) \in Seq(Bytes)
<1>0. Escape \in [Bytes -> Seq(Bytes)] /\ 0 \in Bytes
    BY PatchAssumption
<1>1. Escaped(bytes) \in Seq(Bytes)
    <2>1. PICK seqs : seqs = [i \in 1..Len(bytes) |-> Escape[bytes[i]]]
        OBVIOUS
    <2>2. Len(seqs) = Len(bytes) /\ seqs \in Seq(Seq(Bytes))
        <3>1. \A i \in 1..Len(bytes) : Escape[bytes[i]] \in Seq(Bytes)
            BY <1>0
        <3> QED BY <2>1, <3>1
    <2>3. Len(seqs) = 0 => seqs = <<>>
        BY <2>2
    <2>4. FlattenSeq(seqs) \in Seq(Bytes)
        BY <2>2, <2>3, FlattenType
    <2> QED BY <2>1, <2>4 DEF Escaped
<1>2. Append(bytes, 0) \in Seq(Bytes)
    BY <1>0
<1> QED BY <1>1, <1>2 DEF Encoded

\* The value of an update that passed: bytes, as many as the slot has.
LEMMA NewType ==
    ASSUME Inv, Written, NEW w \in Workers, NEW x, x = instances[w], x # NoInstance,
           NEW u, Readable(w, u.value), Passed(w, u), u.handle.index \in 1..Len(x.slots),
           NEW new, new = Encoded(x.slots[u.handle.index], u.value.kind, BytesOf(u.value))
    PROVE  new \in Seq(Bytes) /\ Len(new) = x.slots[u.handle.index].width
<1>1. BytesOf(u.value) \in Seq(Bytes)
    BY ReadType
<1>2. new \in Seq(Bytes)
    BY <1>1, EncodedType
<1> QED BY <1>2, PassedWidth

\* A write sets its slot and no other.
LEMMA WriteSlots ==
    ASSUME Inv, Written, NEW w \in Workers, Write(w)
    PROVE  LET x   == instances[w]
               u   == calls[w].batch[calls[w].at]
               new == Encoded(x.slots[u.handle.index], u.value.kind, BytesOf(u.value))
               y   == instances'[w]
           IN  /\ y.payloads \in [Families -> Seq(Bytes)]
               /\ SlotBytes(y, u.handle.index) = new
               /\ \A n \in 1..Len(x.slots) : n # u.handle.index =>
                      SlotBytes(y, n) = SlotBytes(x, n)
<1>x. PICK x, y, u : x = instances[w] /\ y = instances'[w] /\ u = calls[w].batch[calls[w].at]
    OBVIOUS
<1>s. PICK k, s : k = u.handle.index /\ s = x.slots[k]
    OBVIOUS
<1>n. PICK new, p : /\ new = Encoded(s, u.value.kind, BytesOf(u.value))
                    /\ p = x.payloads[s.family]
    OBVIOUS
<1>1. /\ calls[w].phase = "write" /\ IsCall(w, calls[w])
      /\ x # NoInstance /\ y.slots = x.slots /\ k \in 1..Len(x.slots)
      /\ y.payloads = [x.payloads EXCEPT ![s.family] = Overlay(p, s.offset, new)]
    BY <1>x, <1>s, <1>n, WriteStep
<1>2. /\ s.family \in Families /\ s.offset \in Nat /\ s.width \in Nat
      /\ s.offset + s.width <= Len(p)
      /\ \A m \in 1..Len(x.slots) : m # k => Apart(x.slots[m], s)
    <2>1. w \in Workers /\ x = instances[w] /\ x # NoInstance /\ k \in 1..Len(x.slots)
          /\ s = x.slots[k]
        BY <1>1, <1>x, <1>s
    <2>2. /\ s.family \in Families /\ s.offset \in Nat /\ s.width \in Nat
          /\ s.offset + s.width <= Len(x.payloads[s.family])
          /\ \A m \in 1..Len(x.slots) : m # k => Apart(x.slots[m], s)
        BY <2>1, SlotPlace
    <2> QED BY <1>n, <2>2
<1>3. new \in Seq(Bytes) /\ Len(new) = s.width
    <2>1. Readable(w, u.value) /\ Passed(w, u)
        BY <1>1, <1>x DEF IsCall
    <2>2. /\ x = instances[w] /\ x # NoInstance /\ u.handle.index \in 1..Len(x.slots)
          /\ new = Encoded(x.slots[u.handle.index], u.value.kind, BytesOf(u.value))
        BY <1>1, <1>x, <1>s, <1>n
    <2>3. new \in Seq(Bytes) /\ Len(new) = x.slots[u.handle.index].width
        BY <2>1, <2>2, NewType
    <2> QED BY <1>s, <2>3
<1>4. x.payloads \in [Families -> Seq(Bytes)] /\ p \in Seq(Bytes)
    BY <1>1, <1>2, <1>x, <1>n DEF Written
<1>5. Overlay(p, s.offset, new) \in Seq(Bytes)
    BY <1>2, <1>3, <1>4, OverlayType
<1>6. y.payloads \in [Families -> Seq(Bytes)]
    BY <1>1, <1>2, <1>4, <1>5
<1>7. SlotBytes(y, k) = new
    <2>1. SlotBytes(y, k) = Piece(Overlay(p, s.offset, new), s.offset, s.width)
        BY <1>1, <1>2, <1>4, <1>s DEF SlotBytes, Piece
    <2> QED BY <1>2, <1>3, <1>4, <2>1, OverlayWritten
<1>8. ASSUME NEW n \in 1..Len(x.slots), n # k
      PROVE  SlotBytes(y, n) = SlotBytes(x, n)
    <2>t. PICK t : t = x.slots[n]
        OBVIOUS
    <2>1. /\ t.family \in Families /\ t.offset \in Nat /\ t.width \in Nat
          /\ t.offset + t.width <= Len(x.payloads[t.family])
        BY <1>1, <1>x, <2>t, SlotPlace
    <2>2. Apart(t, s)
        BY <1>2, <1>8, <2>t
    <2>3. CASE t.family # s.family
        BY <1>1, <1>4, <2>1, <2>3, <2>t DEF SlotBytes
    <2>4. CASE t.family = s.family
        <3>1. t.offset + t.width <= s.offset \/ s.offset + Len(new) <= t.offset
            BY <1>3, <2>2, <2>4 DEF Apart
        <3>2. Piece(Overlay(p, s.offset, new), t.offset, t.width) = Piece(p, t.offset, t.width)
            <4>1. t.offset + t.width <= Len(p) /\ s.offset + Len(new) <= Len(p)
                BY <1>2, <1>3, <1>n, <2>1, <2>4
            <4>2. PICK a, b, o : a = t.offset /\ b = t.width /\ o = s.offset
                OBVIOUS
            <4>3. /\ a \in Nat /\ b \in Nat /\ o \in Nat
                  /\ a + b <= Len(p) /\ o + Len(new) <= Len(p)
                  /\ a + b <= o \/ o + Len(new) <= a
                BY <1>2, <2>1, <3>1, <4>1, <4>2
            <4>4. Piece(Overlay(p, o, new), a, b) = Piece(p, a, b)
                BY <1>3, <1>4, <4>3, OverlayApart
            <4> QED BY <4>2, <4>4
        <3>3. y.payloads[t.family] = Overlay(p, s.offset, new)
            BY <1>1, <1>2, <1>4, <2>4
        <3> QED BY <1>1, <1>n, <2>4, <2>t, <3>2, <3>3 DEF SlotBytes, Piece
    <2> QED BY <2>3, <2>4
<1> QED BY <1>6, <1>7, <1>8, <1>n, <1>s, <1>x

-----------------------------------------------------------------------------
(* Preservation                                                             *)

LEMMA CreateStep ==
    ASSUME Inv, NEW w \in Workers, NEW p \in Plans, Create(w, p)
    PROVE  /\ Free(w) /\ calls' = calls /\ instances'[w] # NoInstance
           /\ \A v \in Workers : v # w => instances'[v] = instances[v]
           /\ \E l \in Layouts : /\ l.slots = instances'[w].slots
                                 /\ l.payloads = instances'[w].payloads
<1>x. PICK x : x = plans[p]
    OBVIOUS
<1>y. PICK y : y = [id |-> x.id, gen |-> x.gen, slots |-> x.slots,
                    payloads |-> x.payloads, blank |-> x.payloads,
                    seen |-> [i \in 1..Len(x.slots) |-> 0], epoch |-> 0]
    OBVIOUS
<1>1. Free(w) /\ x # NoPlan /\ instances' = [instances EXCEPT ![w] = y] /\ calls' = calls
    BY <1>x, <1>y DEF Create
<1>2. instances'[w] = y /\ \A v \in Workers : v # w => instances'[v] = instances[v]
    BY <1>1 DEF Inv, Typed
<1>3. IsPlan(x, generation)
    BY <1>1, <1>x DEF Inv, Typed
<1>4. y.id = x.id /\ y.slots = x.slots /\ y.payloads = x.payloads /\ x.id # 0
    BY <1>3, <1>y DEF IsPlan
<1>5. y # NoInstance
    BY <1>4 DEF NoInstance
<1>6. PICK l : l = [slots |-> x.slots, payloads |-> x.payloads]
    OBVIOUS
<1>7. l \in Layouts /\ l.slots = y.slots /\ l.payloads = y.payloads
    BY <1>3, <1>4, <1>6 DEF IsPlan
<1> QED BY <1>1, <1>2, <1>5, <1>7

LEMMA MoveStep ==
    ASSUME Inv, NEW w \in Workers, NEW v \in Workers, MoveInstance(w, v)
    PROVE  /\ w # v /\ Free(w) /\ Free(v) /\ calls' = calls
           /\ instances'[w] = NoInstance /\ instances'[v] = instances[w]
           /\ \A u \in Workers : u \notin {w, v} => instances'[u] = instances[u]
BY DEF MoveInstance, Inv, Typed

LEMMA ResetStep ==
    ASSUME Inv, NEW w \in Workers, Reset(w)
    PROVE  /\ Free(w) /\ calls' = calls /\ instances'[w] = NoInstance
           /\ \A u \in Workers : u # w => instances'[u] = instances[u]
BY DEF Reset, Inv, Typed

\* The other steps are those of the host.
LEMMA HostStep ==
    ASSUME \/ UNCHANGED vars
           \/ \E p \in Plans : Prepare(p) \/ ResetPlan(p) \/ \E q \in Plans : MovePlan(p, q)
           \/ \E g \in 1..MaxSlots : DropHandles(g)
    PROVE  instances' = instances /\ calls' = calls
BY DEF vars, Prepare, ResetPlan, MovePlan, DropHandles

LEMMA OnceKept ==
    ASSUME Inv, Once, NEW w \in Workers, NEW c, c = calls[w], c # NoCall,
           ~Repeated(c.batch, c.at) \/ c.phase = "write",
           calls'[w] \in {NoCall, Onward(c)},
           \A v \in Workers : v # w => calls'[v] = calls[v]
    PROVE  Once'
<1>1. /\ c = [phase |-> c.phase, batch |-> c.batch, at |-> c.at]
      /\ c.phase \in {"check", "write"} /\ Len(c.batch) \in Nat /\ c.at \in 1..Len(c.batch)
    BY DEF Inv, Calling, IsCall
<1>2. \A i \in 1..Len(c.batch) : i < c.at \/ c.phase = "write" => ~Repeated(c.batch, i)
    BY DEF Once
<1>3. \A i \in 1..Len(c.batch) : i <= c.at => ~Repeated(c.batch, i)
    BY <1>1, <1>2
<1>4. ASSUME NEW d, d = Onward(c), d # NoCall
      PROVE  /\ d.batch = c.batch
             /\ \A i \in 1..Len(c.batch) :
                    i < d.at \/ d.phase = "write" => i <= c.at \/ c.phase = "write"
    BY <1>1, <1>4 DEF Onward
<1>5. ASSUME calls'[w] # NoCall, NEW i \in 1..Len(calls'[w].batch),
             i < calls'[w].at \/ calls'[w].phase = "write"
      PROVE  ~Repeated(calls'[w].batch, i)
    BY <1>2, <1>3, <1>4, <1>5
<1> QED BY <1>5 DEF Once

LEMMA FormInvNext ==
    ASSUME Inv, Written, Once, [Next]_vars
    PROVE  Written' /\ Once'
<1>1. CASE instances' = instances /\ calls' = calls
    BY <1>1 DEF Written, Once
<1>2. ASSUME NEW w \in Workers, NEW p \in Plans, Create(w, p)
      PROVE  Written' /\ Once'
    <2>1. PICK l \in Layouts : l.payloads = instances'[w].payloads
        BY <1>2, CreateStep
    <2>2. instances'[w].payloads \in [Families -> Seq(Bytes)]
        BY <2>1, LayoutFacts
    <2>3. calls' = calls /\ \A v \in Workers : v # w => instances'[v] = instances[v]
        BY <1>2, CreateStep
    <2> QED BY <2>2, <2>3 DEF Written, Once
<1>3. ASSUME NEW w \in Workers, Reset(w)
      PROVE  Written' /\ Once'
    BY <1>3, ResetStep DEF Written, Once
<1>4. ASSUME NEW w \in Workers, NEW v \in Workers, MoveInstance(w, v)
      PROVE  Written' /\ Once'
    <2>1. /\ calls' = calls
          /\ instances'[w] = NoInstance /\ instances'[v] = instances[w]
          /\ \A u \in Workers : u \notin {w, v} => instances'[u] = instances[u]
        BY <1>4, MoveStep
    <2> QED BY <2>1 DEF Written, Once
<1>5. ASSUME NEW w \in Workers, Begin(w)
      PROVE  Written' /\ Once'
    <2>1. /\ Alone(w) /\ Unpatched(w) /\ calls'[w].phase = "check" /\ calls'[w].at = 1
        BY <1>5, BeginStep
    <2>2. Written'
        BY <2>1 DEF Written, Alone, Unpatched
    <2>3. \A i \in 1..Len(calls'[w].batch) : ~(i < calls'[w].at \/ calls'[w].phase = "write")
        BY <2>1
    <2>4. ASSUME NEW v \in Workers, calls'[v] # NoCall, NEW i \in 1..Len(calls'[v].batch),
                 i < calls'[v].at \/ calls'[v].phase = "write"
          PROVE  ~Repeated(calls'[v].batch, i)
        <3>1. v # w
            BY <2>3, <2>4
        <3>2. calls'[v] = calls[v]
            BY <2>1, <3>1 DEF Alone
        <3> QED BY <2>4, <3>2 DEF Once
    <2>5. Once'
        BY <2>4 DEF Once
    <2> QED BY <2>2, <2>5
<1>6. ASSUME NEW w \in Workers, Check(w)
      PROVE  Written' /\ Once'
    <2>c. PICK c : c = calls[w]
        OBVIOUS
    <2>1. /\ Alone(w) /\ Unpatched(w) /\ c # NoCall
          /\ calls'[w] = IF Faultless(w) THEN Onward(c) ELSE NoCall
        BY <1>6, <2>c, CheckStep
    <2>2. Written'
        BY <2>1 DEF Written, Alone, Unpatched
    <2>3. CASE calls'[w] = NoCall
        BY <2>1, <2>2, <2>3 DEF Once, Alone
    <2>4. CASE Faultless(w)
        <3>1. calls'[w] = Onward(c) /\ ~Repeated(c.batch, c.at)
            BY <2>1, <2>4, <2>c DEF Faultless
        <3>2. Once'
            BY <2>1, <3>1, <2>c, OnceKept DEF Alone
        <3> QED BY <2>2, <3>2
    <2> QED BY <2>1, <2>3, <2>4
<1>7. ASSUME NEW w \in Workers, Write(w)
      PROVE  Written' /\ Once'
    <2>c. PICK c : c = calls[w]
        OBVIOUS
    <2>1. /\ Alone(w) /\ c # NoCall /\ c.phase = "write" /\ calls'[w] = Onward(c)
        BY <1>7, <2>c, WriteStep
    <2>2. instances'[w].payloads \in [Families -> Seq(Bytes)]
        BY <1>7, WriteSlots
    <2>3. Written'
        BY <2>1, <2>2 DEF Written, Alone
    <2>4. Once'
        BY <2>1, <2>c, OnceKept DEF Alone
    <2> QED BY <2>3, <2>4
<1>8. \/ instances' = instances /\ calls' = calls
      \/ \E w \in Workers, p \in Plans : Create(w, p)
      \/ \E w \in Workers : Reset(w) \/ Begin(w) \/ Check(w) \/ Write(w)
      \/ \E w, v \in Workers : MoveInstance(w, v)
    BY HostStep DEF Next
<1> QED BY <1>1, <1>2, <1>3, <1>4, <1>5, <1>6, <1>7, <1>8

LEMMA AlwaysFormInv == Spec => [](Written /\ Once)
<1>1. Init => Written /\ Once
    BY DEF Init, Written, Once
<1>2. Inv /\ (Written /\ Once) /\ [Next]_vars => (Written /\ Once)'
    BY FormInvNext
<1> QED BY <1>1, <1>2, AlwaysInv, PTL DEF Spec

-----------------------------------------------------------------------------
(* What the form shows                                                      *)

LEMMA OneIndex ==
    ASSUME Inv, NEW w \in Workers, NEW c, c = calls[w], c # NoCall,
           NEW i \in 1..Len(c.batch), NEW j \in 1..Len(c.batch),
           Passed(w, c.batch[i]), Passed(w, c.batch[j]),
           ~Repeated(c.batch, i), ~Repeated(c.batch, j),
           c.batch[i].handle.index = c.batch[j].handle.index
    PROVE  i = j
<1>1. /\ instances[w] # NoInstance /\ Len(c.batch) \in Nat
      /\ c.batch[i].handle \in handles \cup {NullHandle}
      /\ c.batch[j].handle \in handles \cup {NullHandle}
    BY DEF Inv, Calling, IsCall
<1>2. c.batch[i].handle.gen = instances[w].gen /\ c.batch[j].handle.gen = instances[w].gen
    BY DEF Passed
<1>3. c.batch[i].handle = c.batch[j].handle
    BY <1>1, <1>2, SameHandle DEF Inv
<1>4. ~(i < j) /\ ~(j < i)
    BY <1>1, <1>3 DEF Repeated
<1> QED BY <1>1, <1>4

LEMMA PendingPassed ==
    ASSUME Inv, Once, NEW w \in Workers, NEW i \in Pending(w)
    PROVE  /\ calls[w].phase = "write" /\ calls[w] # NoCall
           /\ i \in calls[w].at..Len(calls[w].batch) /\ i \in 1..Len(calls[w].batch)
           /\ Passed(w, calls[w].batch[i]) /\ ~Repeated(calls[w].batch, i)
<1>1. calls[w].phase = "write" /\ i \in calls[w].at..Len(calls[w].batch)
    BY DEF Pending
<1>2. calls[w] # NoCall
    BY <1>1 DEF NoCall
<1>3. IsCall(w, calls[w])
    BY <1>2 DEF Inv, Calling
<1>4. i \in 1..Len(calls[w].batch)
    BY <1>1, <1>3 DEF IsCall
<1> QED BY <1>1, <1>2, <1>3, <1>4 DEF IsCall, Once

\* A field shows its slot, or the write that waits for it.
Shows ==
    \A w \in Workers : \A n :
        /\ (\A i \in Pending(w) : calls[w].batch[i].handle.index # n) =>
               FieldOf(w, n) = SlotBytes(instances[w], n)
        /\ \A i \in Pending(w) :
               calls[w].batch[i].handle.index = n => FieldOf(w, n) = NewBytes(w, i)

LEMMA Fields == Inv /\ Once => Shows
<1> SUFFICES ASSUME Inv, Once, NEW w \in Workers, NEW n
             PROVE  /\ (\A i \in Pending(w) : calls[w].batch[i].handle.index # n) =>
                           FieldOf(w, n) = SlotBytes(instances[w], n)
                    /\ \A i \in Pending(w) :
                           calls[w].batch[i].handle.index = n => FieldOf(w, n) = NewBytes(w, i)
    BY DEF Shows
<1>w. PICK writes : writes = {i \in Pending(w) : calls[w].batch[i].handle.index = n}
    OBVIOUS
<1>f. FieldOf(w, n) = IF writes = {} THEN SlotBytes(instances[w], n)
                      ELSE NewBytes(w, CHOOSE i \in writes : \A j \in writes : j <= i)
    BY <1>w DEF FieldOf
<1>1. ASSUME NEW i \in Pending(w), calls[w].batch[i].handle.index = n
      PROVE  FieldOf(w, n) = NewBytes(w, i)
    <2>1. \A j \in writes : j = i
        BY <1>1, <1>w, OneIndex, PendingPassed
    <2>2. i \in writes /\ i <= i
        <3>1. IsCall(w, calls[w]) /\ i \in calls[w].at..Len(calls[w].batch)
            BY PendingPassed DEF Inv, Calling
        <3>2. i \in Int
            BY <3>1 DEF IsCall
        <3> QED BY <1>1, <1>w, <3>2
    <2>3. (CHOOSE j \in writes : \A k \in writes : k <= j) = i
        BY <2>1, <2>2
    <2> QED BY <1>f, <2>2, <2>3
<1> QED BY <1>1, <1>f, <1>w

LEMMA FieldsNext == Inv' /\ Once' => Shows'
BY Fields, PTL

\* A step after which the call of w, if it is the same, reads and names the same.
LEMMA Reread ==
    ASSUME Inv, NEW w \in Workers, NEW c, c = calls[w], c # NoCall,
           calls'[w].batch = c.batch, Unpatched(w),
           \A i \in 1..Len(c.batch) : c.batch[i].value.in \in Workers \ {w} =>
               instances'[c.batch[i].value.in] = instances[c.batch[i].value.in]
    PROVE  /\ \A i \in 1..Len(c.batch) : /\ NewBytes(w, i)' = NewBytes(w, i)
                                         /\ Passed(w, c.batch[i])' <=> Passed(w, c.batch[i])
           /\ Acceptable(w)' <=> Acceptable(w)
           /\ Asked(w)' = Asked(w)
<1>x. PICK x : x = instances[w]
    OBVIOUS
<1>1. Host \notin Workers
    BY PatchAssumption
<1>2. ASSUME NEW i \in 1..Len(c.batch)
      PROVE  BytesOf(c.batch[i].value)' = BytesOf(c.batch[i].value)
    <2>a. PICK a : a = c.batch[i].value
        OBVIOUS
    <2>1. Readable(w, a)
        BY <2>a DEF Inv, Calling, IsCall
    <2>2. CASE a.in = Host
        BY <1>1, <2>2, <2>a DEF BytesOf
    <2>3. CASE a.in = w
        BY <1>1, <2>3, <2>a DEF BytesOf, SlotBytes, Unpatched
    <2>4. CASE a.in \in Workers \ {w}
        BY <1>1, <2>4, <2>a DEF BytesOf
    <2> QED BY <2>1, <2>2, <2>3, <2>4 DEF Readable
<1>3. ASSUME NEW i \in 1..Len(c.batch)
      PROVE  NewBytes(w, i)' = NewBytes(w, i)
    BY <1>2 DEF NewBytes, Unpatched
<1>4. ASSUME NEW i \in 1..Len(c.batch)
      PROVE  Passed(w, c.batch[i])' <=> Passed(w, c.batch[i])
    BY <1>2 DEF Passed, ValueError, Unpatched
<1>5. Acceptable(w) <=> \A i \in 1..Len(c.batch) : Passed(w, c.batch[i]) /\ ~Repeated(c.batch, i)
    BY DEF Acceptable, Passed
<1>6. Acceptable(w)' <=> \A i \in 1..Len(c.batch) : Passed(w, c.batch[i])' /\ ~Repeated(c.batch, i)
    BY DEF Acceptable, Passed
<1>7. Acceptable(w)' <=> Acceptable(w)
    BY <1>4, <1>5, <1>6
<1>8. Asked(w)' = Asked(w)
    <2>1. Named(w)' = Named(w)
        BY DEF Named
    <2>2. ASSUME NEW n \in Named(w)
          PROVE  (CHOOSE i \in 1..Len(c.batch) : c.batch[i].handle.index = n) \in 1..Len(c.batch)
        BY DEF Named
    <2>3. ASSUME NEW n \in Named(w)
          PROVE  NewBytes(w, CHOOSE i \in 1..Len(c.batch) : c.batch[i].handle.index = n)'
                     = NewBytes(w, CHOOSE i \in 1..Len(c.batch) : c.batch[i].handle.index = n)
        BY <1>3, <2>2
    <2>4. Asked(w) = [n \in Named(w) |->
              NewBytes(w, CHOOSE i \in 1..Len(c.batch) : c.batch[i].handle.index = n)]
        BY DEF Asked
    <2>5. Asked(w)' = [n \in Named(w) |->
              NewBytes(w, CHOOSE i \in 1..Len(c.batch) : c.batch[i].handle.index = n)']
        BY <2>1 DEF Asked
    <2> QED BY <2>3, <2>4, <2>5
<1> QED BY <1>3, <1>4, <1>7, <1>8

\* A worker that a step leaves alone shows the same.
LEMMA KeepsView ==
    ASSUME Inv, Once, Inv', Once', NEW v \in Workers,
           calls'[v] = calls[v], instances'[v] = instances[v],
           \A u \in Workers : Borrows(calls[v], u) => instances'[u] = instances[u]
    PROVE  Same(v)
<1>1. CASE calls[v] = NoCall
    <2>1. calls[v].phase = "none" /\ calls'[v].phase = "none"
        BY <1>1 DEF NoCall
    <2>2. Pending(v) = {} /\ Pending(v)' = {}
        BY <2>1 DEF Pending
    <2>3. FormOf(v)' = FormOf(v)
        BY <2>2 DEF FormOf, SlotBytes
    <2>4. CallOf(v)' = CallOf(v)
        BY <2>1 DEF CallOf
    <2> QED BY <2>3, <2>4 DEF Same
<1>2. CASE calls[v] # NoCall
    <2>c. PICK c, x : c = calls[v] /\ x = instances[v]
        OBVIOUS
    <2>1. IsCall(v, c) /\ x # NoInstance /\ Unpatched(v)
        BY <1>2, <2>c DEF Inv, Calling, IsCall, Unpatched
    <2>2. \A i \in 1..Len(c.batch) : c.batch[i].value.in \in Workers \ {v} =>
              instances'[c.batch[i].value.in] = instances[c.batch[i].value.in]
        BY <1>2, <2>c DEF Borrows
    <2>3. /\ \A i \in 1..Len(c.batch) : NewBytes(v, i)' = NewBytes(v, i)
          /\ Acceptable(v)' <=> Acceptable(v)
          /\ Asked(v)' = Asked(v)
        BY <1>2, <2>1, <2>2, <2>c, Reread
    <2>4. Pending(v)' = Pending(v)
        BY DEF Pending
    <2>5. ASSUME NEW n
          PROVE  FieldOf(v, n)' = FieldOf(v, n)
        <3>1. CASE \A i \in Pending(v) : c.batch[i].handle.index # n
            <4>1. FieldOf(v, n) = SlotBytes(x, n)
                BY <2>c, <3>1, Fields DEF Shows
            <4>2. FieldOf(v, n)' = SlotBytes(instances'[v], n)
                <5>1. \A i \in Pending(v)' : calls'[v].batch[i].handle.index # n
                    BY <2>4, <2>c, <3>1
                <5> QED BY <5>1, FieldsNext DEF Shows, SlotBytes
            <4> QED BY <2>c, <4>1, <4>2
        <3>2. ASSUME NEW i \in Pending(v), c.batch[i].handle.index = n
              PROVE  FieldOf(v, n)' = FieldOf(v, n)
            <4>0. i \in 1..Len(c.batch)
                BY <2>c, PendingPassed
            <4>1. FieldOf(v, n) = NewBytes(v, i)
                BY <2>c, <3>2, Fields DEF Shows
            <4>2. FieldOf(v, n)' = NewBytes(v, i)'
                BY <2>4, <2>c, <3>2, FieldsNext DEF Shows
            <4> QED BY <2>3, <4>0, <4>1, <4>2
        <3> QED BY <3>1, <3>2
    <2>6. FormOf(v) = [n \in 1..Len(x.slots) |-> FieldOf(v, n)]
        BY <2>1, <2>c, FormIs
    <2>7. FormOf(v)' = [n \in 1..Len(x.slots) |-> FieldOf(v, n)']
        BY <2>1, <2>c DEF FormOf, FieldOf
    <2>8. CallOf(v)' = CallOf(v)
        BY <2>3, <2>c DEF CallOf, Asked, Named
    <2> QED BY <2>5, <2>6, <2>7, <2>8 DEF Same
<1> QED BY <1>1, <1>2

-----------------------------------------------------------------------------
(* Every step maps to a step of the forms, or to none                       *)

PlainForms ==
    \A w \in Workers : calls[w].phase # "write" =>
        FormOf(w) = IF instances[w] = NoInstance THEN <<>> ELSE FieldsOf(instances[w])

LEMMA Plain == PlainForms
BY FormIs, PlainField DEF PlainForms, FieldsOf

LEMMA PlainNext == PlainForms'
BY Plain, PTL

CallShows ==
    \A w \in Workers :
        /\ calls[w] = NoCall => CallOf(w) = Forms!Idle
        /\ calls[w].phase = "write" => CallOf(w) = Forms!Settled
        /\ calls[w].phase = "check" => CallOf(w) = IF Acceptable(w) THEN Forms!Asked(Asked(w))
                                                   ELSE Forms!Bad

LEMMA Calls == CallShows
BY CallIs DEF CallShows

LEMMA CallsNext == CallShows'
BY Calls, PTL

WidthsFit ==
    \A w \in Workers : calls[w] # NoCall =>
        \A i \in 1..Len(calls[w].batch) :
            LET u == calls[w].batch[i]
            IN  Passed(w, u) =>
                    /\ u.handle.index \in 1..Len(instances[w].slots)
                    /\ Len(NewBytes(w, i)) = instances[w].slots[u.handle.index].width

LEMMA Widths == Inv => WidthsFit
<1> SUFFICES ASSUME Inv, NEW w \in Workers, calls[w] # NoCall,
                    NEW i \in 1..Len(calls[w].batch), NEW u, u = calls[w].batch[i],
                    Passed(w, u)
             PROVE  /\ u.handle.index \in 1..Len(instances[w].slots)
                    /\ Len(NewBytes(w, i)) = instances[w].slots[u.handle.index].width
    BY DEF WidthsFit
<1>1. /\ instances[w] # NoInstance /\ u.handle \in handles \cup {NullHandle}
      /\ Readable(w, u.value)
    BY DEF Inv, Calling, IsCall
<1>2. u.handle.index \in 1..Len(instances[w].slots)
    BY <1>1, OwnHandle DEF Inv, Passed
<1>3. Len(NewBytes(w, i)) = instances[w].slots[u.handle.index].width
    BY <1>1, <1>2, PassedWidth DEF NewBytes
<1> QED BY <1>2, <1>3

LEMMA WidthsNext == Inv' => WidthsFit'
BY Widths, PTL

LEMMA FormLength ==
    ASSUME Inv, NEW w \in Workers, NEW x, x = instances[w], x # NoInstance
    PROVE  /\ FieldsOf(x) # <<>> /\ DOMAIN FieldsOf(x) = 1..Len(x.slots)
           /\ \A n \in 1..Len(x.slots) : /\ FieldsOf(x)[n] = SlotBytes(x, n)
                                         /\ Len(FieldsOf(x)[n]) = x.slots[n].width
<1>1. IsInstance(x, generation)
    BY DEF Inv, Typed
<1>2. Len(x.slots) \in Nat /\ Len(x.slots) > 0
    BY <1>1, LayoutFacts DEF IsInstance
<1>3. DOMAIN FieldsOf(x) = 1..Len(x.slots)
    BY DEF FieldsOf
<1>4. 1 \in DOMAIN FieldsOf(x)
    BY <1>2, <1>3
<1>5. \A n \in 1..Len(x.slots) : FieldsOf(x)[n] = SlotBytes(x, n)
    BY DEF FieldsOf
<1>6. \A n \in 1..Len(x.slots) : Len(SlotBytes(x, n)) = x.slots[n].width
    BY <1>1, SlotWidth
<1> QED BY <1>3, <1>4, <1>5, <1>6

LEMMA OthersSame ==
    ASSUME Inv, Once, Inv', Once', NEW w \in Workers, calls[w] # NoCall \/ Free(w),
           \A v \in Workers : v # w => instances'[v] = instances[v] /\ calls'[v] = calls[v]
    PROVE  \A v \in Workers : v # w => Same(v)
<1> SUFFICES ASSUME NEW v \in Workers, v # w PROVE Same(v)
    OBVIOUS
<1>1. ~Borrows(calls[v], w)
    BY NotBorrowed
<1> QED BY <1>1, KeepsView

LEMMA BeginAsks ==
    ASSUME Inv, Once, Inv', Once', NEW w \in Workers, Begin(w)
    PROVE  Forms!Ask(w)
<1>x. PICK x, c : x = instances[w] /\ c = calls'[w]
    OBVIOUS
<1>1. /\ calls[w] = NoCall /\ Free(w) /\ Alone(w) /\ Unpatched(w)
      /\ c.phase = "check" /\ c # NoCall
    BY <1>x, BeginStep
<1>2. \A v \in Workers : v # w => Same(v)
    BY <1>1, OthersSame DEF Alone
<1>3. CallOf(w) = Forms!Idle
    BY <1>1, Calls DEF CallShows
<1>4. FormOf(w) = FieldsOf(x) /\ FormOf(w)' = FormOf(w)
    <2>1. calls[w].phase # "write"
        BY <1>1 DEF NoCall
    <2>2. FormOf(w) = FieldsOf(x)
        BY <1>1, <1>x, <2>1, Plain DEF PlainForms, Unpatched
    <2>3. FormOf(w)' = FieldsOf(instances'[w])
        BY <1>1, <1>x, PlainNext DEF PlainForms, Unpatched, FieldsOf, SlotBytes
    <2>4. FieldsOf(instances'[w]) = FieldsOf(x)
        BY <1>1, <1>x DEF Unpatched, FieldsOf, SlotBytes
    <2> QED BY <2>2, <2>3, <2>4
<1>5. CallOf(w)' = Forms!Bad \/ Forms!IsRequest(FormOf(w), CallOf(w)')
    <2>1. CASE ~Acceptable(w)'
        BY <1>1, <1>x, <2>1, CallsNext DEF CallShows, Forms!Bad
    <2>2. CASE Acceptable(w)'
        <3>a. PICK fields : fields = Asked(w)'
            OBVIOUS
        <3>1. CallOf(w)' = Forms!Asked(fields)
            BY <1>1, <1>x, <2>2, <3>a, CallsNext DEF CallShows, Forms!Asked
        <3>2. ASSUME NEW i \in 1..Len(c.batch)
              PROVE  /\ c.batch[i].handle.index \in 1..Len(x.slots)
                     /\ Len(NewBytes(w, i)') = x.slots[c.batch[i].handle.index].width
            <4>1. Passed(w, c.batch[i])'
                BY <1>x, <2>2 DEF Acceptable, Passed
            <4>2. /\ c.batch[i].handle.index \in 1..Len(instances'[w].slots)
                  /\ Len(NewBytes(w, i)') = instances'[w].slots[c.batch[i].handle.index].width
                BY <1>1, <1>x, <4>1, WidthsNext DEF WidthsFit
            <4> QED BY <1>1, <1>x, <4>2 DEF Unpatched
        <3>3. DOMAIN fields = {c.batch[i].handle.index : i \in 1..Len(c.batch)}
            BY <1>x, <3>a DEF Asked, Named
        <3>4. 1 \in 1..Len(c.batch)
            <4>1. IsCall(w, calls[w])'
                BY <1>1, <1>x DEF Inv, Calling
            <4>2. Len(c.batch) \in Nat /\ c.at \in 1..Len(c.batch)
                BY <1>x, <4>1 DEF IsCall
            <4> QED BY <4>2
        <3>5. ASSUME NEW n \in DOMAIN fields
              PROVE  n \in 1..Len(x.slots) /\ Len(fields[n]) = x.slots[n].width
            <4>k. PICK k : k = CHOOSE i \in 1..Len(c.batch) : c.batch[i].handle.index = n
                OBVIOUS
            <4>1. k \in 1..Len(c.batch) /\ c.batch[k].handle.index = n
                BY <3>3, <4>k
            <4>2. fields[n] = NewBytes(w, k)'
                BY <1>x, <3>3, <3>a, <4>k DEF Asked, Named
            <4> QED BY <3>2, <4>1, <4>2
        <3>6. Forms!IsRequest(FormOf(w), Forms!Asked(fields))
            <4>1. /\ DOMAIN FormOf(w) = 1..Len(x.slots)
                  /\ \A n \in 1..Len(x.slots) : Len(FormOf(w)[n]) = x.slots[n].width
                BY <1>1, <1>4, <1>x, FormLength DEF Unpatched
            <4>2. DOMAIN fields # {}
                BY <3>3, <3>4
            <4>3. PICK a : a = Forms!Asked(fields)
                OBVIOUS
            <4>4. a.state = "asked" /\ a.fields = fields
                BY <4>3 DEF Forms!Asked
            <4> QED BY <3>5, <4>1, <4>2, <4>3, <4>4 DEF Forms!IsRequest
        <3> QED BY <3>1, <3>6
    <2> QED BY <2>1, <2>2
<1>6. FormOf(w) # <<>>
    BY <1>1, <1>4, <1>x, FormLength DEF Unpatched
<1> QED BY <1>2, <1>3, <1>4, <1>5, <1>6 DEF Forms!Ask, Same

\* The call is settled by its last check, and refused by a check that fails.
LEMMA CheckView ==
    ASSUME Inv, Once, Inv', Once', NEW w \in Workers, Check(w)
    PROVE  Forms!Settle(w) \/ Forms!Refuse(w) \/ UNCHANGED Forms!vars
<1>x. PICK x, c, d : x = instances[w] /\ c = calls[w] /\ d = calls'[w]
    OBVIOUS
<1>1. /\ c.phase = "check" /\ c # NoCall /\ IsCall(w, c) /\ Alone(w) /\ Unpatched(w)
      /\ d = IF Faultless(w) THEN Onward(c) ELSE NoCall
    BY <1>x, CheckStep
<1>2. \A v \in Workers : v # w => Same(v)
    BY <1>1, <1>x, OthersSame DEF Alone
<1>3. FormOf(w) = FieldsOf(x)
    BY <1>1, <1>x, Plain DEF PlainForms, Unpatched
<1>4. /\ c = [phase |-> c.phase, batch |-> c.batch, at |-> c.at]
      /\ Len(c.batch) \in Nat /\ c.at \in 1..Len(c.batch)
    BY <1>1 DEF IsCall
<1>5. Acceptable(w) <=> \A i \in 1..Len(c.batch) : Passed(w, c.batch[i]) /\ ~Repeated(c.batch, i)
    BY <1>x DEF Acceptable, Passed
<1>6. ASSUME d.phase # "write"
      PROVE  FormOf(w)' = FormOf(w)
    <2>1. FormOf(w)' = FieldsOf(instances'[w])
        BY <1>1, <1>6, <1>x, PlainNext DEF PlainForms, Unpatched, FieldsOf, SlotBytes
    <2>2. FieldsOf(instances'[w]) = FieldsOf(x)
        BY <1>1, <1>x DEF Unpatched, FieldsOf, SlotBytes
    <2> QED BY <1>3, <2>1, <2>2
<1>7. CASE ~Faultless(w)
    <2>1. d = NoCall /\ d.phase = "none"
        BY <1>1, <1>7 DEF NoCall
    <2>2. ~Acceptable(w)
        BY <1>4, <1>5, <1>7, <1>x DEF Faultless
    <2>3. CallOf(w) = Forms!Bad /\ CallOf(w)' = Forms!Idle
        BY <1>1, <1>x, <2>1, <2>2, Calls, CallsNext DEF CallShows
    <2>4. FormOf(w)' = FormOf(w)
        BY <1>6, <2>1
    <2> QED BY <1>2, <2>3, <2>4 DEF Forms!Refuse, Same
<1>8. CASE Faultless(w)
    <2>0. d = Onward(c) /\ Passed(w, c.batch[c.at]) /\ ~Repeated(c.batch, c.at)
        BY <1>1, <1>8, <1>x DEF Faultless
    <2>1. d.batch = c.batch /\ d # NoCall /\ d.phase \in {"check", "write"}
        BY <1>1, <1>4, <2>0 DEF Onward, NoCall
    <2>2. /\ \A i \in 1..Len(c.batch) : NewBytes(w, i)' = NewBytes(w, i)
          /\ Acceptable(w)' <=> Acceptable(w)
          /\ Asked(w)' = Asked(w)
        <3>1. \A i \in 1..Len(c.batch) : c.batch[i].value.in \in Workers \ {w} =>
                  instances'[c.batch[i].value.in] = instances[c.batch[i].value.in]
            BY <1>1 DEF Alone
        <3> QED BY <1>1, <1>x, <2>1, <3>1, Reread
    <2>3. CASE c.at < Len(c.batch)
        <3>1. d.phase = "check"
            BY <1>1, <1>4, <2>0, <2>3 DEF Onward
        <3>2. CallOf(w)' = CallOf(w)
            BY <1>1, <1>x, <2>2, <3>1, Calls, CallsNext DEF CallShows, Forms!Asked, Forms!Bad
        <3>3. FormOf(w)' = FormOf(w)
            BY <1>6, <3>1
        <3> QED BY <1>2, <3>2, <3>3, AllSame DEF Same
    <2>4. CASE ~(c.at < Len(c.batch))
        <3>1. d.phase = "write" /\ d.at = 1
            BY <1>1, <1>4, <2>0, <2>4 DEF Onward
        <3>2. \A i \in 1..Len(c.batch) : Passed(w, c.batch[i]) /\ ~Repeated(c.batch, i)
            <4>1. \A i \in 1..Len(c.batch) : i < c.at \/ i = c.at
                BY <1>4, <2>4
            <4>2. \A i \in 1..Len(c.batch) : i < c.at => Passed(w, c.batch[i])
                                                         /\ ~Repeated(c.batch, i)
                BY <1>1, <1>x DEF IsCall, Once
            <4> QED BY <2>0, <4>1, <4>2
        <3>3. CallOf(w) = Forms!Asked(Asked(w)) /\ CallOf(w)' = Forms!Settled
            BY <1>1, <1>5, <1>x, <3>1, <3>2, Calls, CallsNext DEF CallShows
        <3>a. PICK fields : fields = Asked(w)
            OBVIOUS
        <3>4. DOMAIN fields = {c.batch[i].handle.index : i \in 1..Len(c.batch)}
            BY <1>x, <3>a DEF Asked, Named
        <3>5. Pending(w)' = 1..Len(c.batch)
            BY <1>x, <2>1, <3>1 DEF Pending
        <3>6. ASSUME NEW n \in 1..Len(x.slots)
              PROVE  FieldOf(w, n)' = IF n \in DOMAIN fields THEN fields[n] ELSE SlotBytes(x, n)
            <4>1. CASE n \notin DOMAIN fields
                <5>1. \A i \in Pending(w)' : calls'[w].batch[i].handle.index # n
                    BY <1>x, <2>1, <3>4, <3>5, <4>1
                <5>2. FieldOf(w, n)' = SlotBytes(instances'[w], n)
                    BY <5>1, FieldsNext DEF Shows, SlotBytes
                <5> QED BY <1>1, <1>x, <4>1, <5>2 DEF Unpatched, SlotBytes
            <4>2. CASE n \in DOMAIN fields
                <5>k. PICK k : k = CHOOSE i \in 1..Len(c.batch) : c.batch[i].handle.index = n
                    OBVIOUS
                <5>1. k \in 1..Len(c.batch) /\ c.batch[k].handle.index = n
                    BY <3>4, <4>2, <5>k
                <5>2. fields[n] = NewBytes(w, k)
                    BY <1>x, <3>4, <3>a, <4>2, <5>k DEF Asked, Named
                <5>3. FieldOf(w, n)' = NewBytes(w, k)'
                    BY <1>x, <2>1, <3>5, <5>1, FieldsNext DEF Shows
                <5> QED BY <2>2, <4>2, <5>1, <5>2, <5>3
            <4> QED BY <4>1, <4>2
        <3>7. FormOf(w)' = [n \in 1..Len(x.slots) |-> FieldOf(w, n)']
            BY <1>1, <1>x DEF FormOf, FieldOf, Unpatched
        <3>8. /\ DOMAIN FieldsOf(x) = 1..Len(x.slots)
              /\ \A n \in 1..Len(x.slots) : FieldsOf(x)[n] = SlotBytes(x, n)
            BY <1>1, <1>x, FormLength DEF Unpatched
        <3>9. FormOf(w)' = [n \in DOMAIN FormOf(w) |-> IF n \in DOMAIN fields THEN fields[n]
                                                       ELSE FormOf(w)[n]]
            BY <1>3, <3>6, <3>7, <3>8
        <3>10. PICK a : a = Forms!Asked(fields)
            OBVIOUS
        <3>11. CallOf(w) = a /\ a.state = "asked" /\ a.fields = fields
            BY <3>3, <3>a, <3>10 DEF Forms!Asked
        <3> QED BY <1>2, <3>3, <3>9, <3>11 DEF Forms!Settle, Same
    <2> QED BY <2>3, <2>4
<1> QED BY <1>7, <1>8

\* A write leaves alone what the writes after it read: of the instance it
\* patches they read nothing but slots without a byte.
LEMMA WriteReads ==
    ASSUME Inv, Written, NEW w \in Workers, Write(w), NEW i \in 1..Len(calls[w].batch),
           calls'[w].batch = calls[w].batch
    PROVE  NewBytes(w, i)' = NewBytes(w, i)
<1>x. PICK x, y, c, u : x = instances[w] /\ y = instances'[w] /\ c = calls[w] /\ u = c.batch[c.at]
    OBVIOUS
<1>a. PICK a, k : a = c.batch[i].value /\ k = u.handle.index
    OBVIOUS
<1>1. /\ c.phase = "write" /\ c # NoCall /\ IsCall(w, c) /\ Alone(w)
      /\ x # NoInstance /\ y.slots = x.slots /\ k \in 1..Len(x.slots)
    BY <1>x, <1>a, WriteStep
<1>2. Readable(w, a) /\ Passed(w, c.batch[i]) /\ Host \notin Workers
    BY <1>1, <1>x, <1>a, PatchAssumption DEF IsCall
<1>3. BytesOf(a)' = BytesOf(a)
    <2>1. CASE a.in = Host
        BY <1>2, <2>1 DEF BytesOf
    <2>2. CASE a.in \in Workers \ {w}
        BY <1>1, <1>2, <2>2 DEF BytesOf, Alone
    <2>3. CASE a.in = w
        <3>n. PICK n : n = a.slot
            OBVIOUS
        <3>1. n \in 1..Len(x.slots)
            BY <1>2, <1>x, <2>3, <3>n DEF Readable
        <3>2. SlotBytes(x, n) = <<>>
            BY <1>2, <1>a, <1>x, <2>3, <3>n DEF Passed, BytesOf
        <3>3. SlotBytes(y, n) = <<>>
            <4>1. CASE n # k
                BY <1>a, <1>x, <3>1, <3>2, <4>1, WriteSlots
            <4>2. CASE n = k
                <5>v. PICK new : new = Encoded(x.slots[k], u.value.kind, BytesOf(u.value))
                    OBVIOUS
                <5>1. SlotBytes(y, k) = new
                    BY <1>a, <1>x, <5>v, WriteSlots
                <5>2. x.slots[k].width = 0
                    <6>1. IsInstance(x, generation)
                        BY <1>1, <1>x DEF Inv, Typed
                    <6> QED BY <3>1, <3>2, <4>2, <6>1, SlotWidth
                <5>3. Readable(w, u.value) /\ Passed(w, u)
                    BY <1>1, <1>x DEF IsCall
                <5>4. new \in Seq(Bytes) /\ Len(new) = 0
                    BY <1>1, <1>a, <1>x, <5>v, <5>2, <5>3, NewType
                <5> QED BY <4>2, <5>1, <5>4
            <4> QED BY <4>1, <4>2
        <3> QED BY <1>2, <1>x, <2>3, <3>2, <3>3, <3>n DEF BytesOf
    <2> QED BY <1>2, <2>1, <2>2, <2>3 DEF Readable
<1>4. NewBytes(w, i) = Encoded(x.slots[c.batch[i].handle.index], a.kind, BytesOf(a))
    BY <1>x, <1>a DEF NewBytes
<1>5. NewBytes(w, i)' = Encoded(y.slots[c.batch[i].handle.index], a.kind, BytesOf(a)')
    BY <1>x, <1>a DEF NewBytes
<1> QED BY <1>1, <1>3, <1>4, <1>5

\* The form shows a write before it is made.
LEMMA WriteView ==
    ASSUME Inv, Once, Written, Inv', Once', NEW w \in Workers, Write(w)
    PROVE  Forms!Finish(w) \/ UNCHANGED Forms!vars
<1>x. PICK x, y, c, d, u : /\ x = instances[w] /\ y = instances'[w] /\ c = calls[w]
                           /\ d = calls'[w] /\ u = c.batch[c.at]
    OBVIOUS
<1>k. PICK k, new : /\ k = u.handle.index
                    /\ new = Encoded(x.slots[k], u.value.kind, BytesOf(u.value))
    OBVIOUS
<1>1. /\ c.phase = "write" /\ c # NoCall /\ IsCall(w, c) /\ Alone(w) /\ d = Onward(c)
      /\ x # NoInstance /\ y # NoInstance /\ y.slots = x.slots /\ k \in 1..Len(x.slots)
    BY <1>x, <1>k, WriteStep
<1>2. \A v \in Workers : v # w => Same(v)
    BY <1>1, <1>x, OthersSame DEF Alone
<1>3. /\ c = [phase |-> c.phase, batch |-> c.batch, at |-> c.at]
      /\ Len(c.batch) \in Nat /\ c.at \in 1..Len(c.batch)
    BY <1>1 DEF IsCall
<1>4. /\ SlotBytes(y, k) = new
      /\ \A n \in 1..Len(x.slots) : n # k => SlotBytes(y, n) = SlotBytes(x, n)
    BY <1>x, <1>k, WriteSlots
<1>5. Pending(w) = c.at..Len(c.batch) /\ c.at \in Pending(w)
    BY <1>1, <1>3, <1>x DEF Pending
<1>6. /\ Pending(w)' = Pending(w) \ {c.at}
      /\ Pending(w)' # {} => d.batch = c.batch
      /\ d = NoCall \/ d.phase = "write"
    <2>1. CASE c.at < Len(c.batch)
        <3>1. d.phase = "write" /\ d.batch = c.batch /\ d.at = c.at + 1
            BY <1>1, <1>3, <2>1 DEF Onward
        <3>2. Pending(w)' = c.at + 1..Len(c.batch)
            BY <1>x, <3>1 DEF Pending
        <3> QED BY <1>3, <1>5, <3>1, <3>2
    <2>2. CASE ~(c.at < Len(c.batch))
        <3>1. d = NoCall
            BY <1>1, <1>3, <2>2 DEF Onward
        <3>2. Pending(w)' = {}
            BY <1>x, <3>1 DEF Pending, NoCall
        <3> QED BY <1>3, <1>5, <2>2, <3>1, <3>2
    <2> QED BY <2>1, <2>2
<1>7. ASSUME NEW n \in 1..Len(x.slots)
      PROVE  FieldOf(w, n)' = FieldOf(w, n)
    <2>1. ASSUME NEW i \in Pending(w)', c.batch[i].handle.index = n
          PROVE  FieldOf(w, n)' = FieldOf(w, n)
        <3>1. d.batch = c.batch /\ i \in Pending(w)
            BY <1>6, <2>1
        <3>2. i \in 1..Len(c.batch)
            BY <1>x, <3>1, PendingPassed
        <3>3. NewBytes(w, i)' = NewBytes(w, i)
            BY <1>x, <3>1, <3>2, WriteReads
        <3>4. FieldOf(w, n) = NewBytes(w, i)
            BY <1>x, <2>1, <3>1, Fields DEF Shows
        <3>5. FieldOf(w, n)' = NewBytes(w, i)'
            BY <1>x, <2>1, <3>1, FieldsNext DEF Shows
        <3> QED BY <3>3, <3>4, <3>5
    <2>2. CASE \A i \in Pending(w)' : c.batch[i].handle.index # n
        <3>1. \A i \in Pending(w)' : calls'[w].batch[i].handle.index # n
            BY <1>6, <1>x, <2>2
        <3>2. FieldOf(w, n)' = SlotBytes(y, n)
            BY <1>x, <3>1, FieldsNext DEF Shows, SlotBytes
        <3>3. CASE n = k
            <4>1. FieldOf(w, n) = NewBytes(w, c.at)
                BY <1>5, <1>k, <1>x, <3>3, Fields DEF Shows
            <4>2. NewBytes(w, c.at) = new
                BY <1>k, <1>x DEF NewBytes
            <4> QED BY <1>4, <3>2, <3>3, <4>1, <4>2
        <3>4. CASE n # k
            <4>1. \A i \in Pending(w) : calls[w].batch[i].handle.index # n
                BY <1>6, <1>k, <1>x, <2>2, <3>4
            <4>2. FieldOf(w, n) = SlotBytes(x, n)
                BY <1>x, <4>1, Fields DEF Shows
            <4> QED BY <1>4, <3>2, <3>4, <4>2
        <3> QED BY <3>3, <3>4
    <2> QED BY <2>1, <2>2
<1>8. FormOf(w)' = FormOf(w)
    <2>1. FormOf(w) = [n \in 1..Len(x.slots) |-> FieldOf(w, n)]
        BY <1>1, <1>x, FormIs
    <2>2. FormOf(w)' = [n \in 1..Len(x.slots) |-> FieldOf(w, n)']
        BY <1>1, <1>x DEF FormOf, FieldOf
    <2> QED BY <1>7, <2>1, <2>2
<1>9. CallOf(w) = Forms!Settled
    BY <1>1, <1>x, Calls DEF CallShows
<1>10. CASE d = NoCall
    <2>1. CallOf(w)' = Forms!Idle
        BY <1>10, <1>x, CallsNext DEF CallShows
    <2> QED BY <1>2, <1>8, <1>9, <2>1 DEF Forms!Finish, Same
<1>11. CASE d.phase = "write"
    <2>1. CallOf(w)' = Forms!Settled
        BY <1>11, <1>x, CallsNext DEF CallShows
    <2>2. CallOf(w)' = CallOf(w)
        BY <1>9, <2>1 DEF Forms!Settled
    <2> QED BY <1>2, <1>8, <2>2, AllSame DEF Same
<1> QED BY <1>6, <1>10, <1>11

\* Workers come and go between their calls.
LEMMA OwnView ==
    ASSUME Inv, Once, Inv', Once', NEW w \in Workers,
           Reset(w) \/ \E p \in Plans : Create(w, p)
    PROVE  Forms!Own(w)
<1>1. /\ Free(w) /\ calls' = calls
      /\ \A v \in Workers : v # w => instances'[v] = instances[v]
      /\ \/ instances'[w] = NoInstance
         \/ /\ instances'[w] # NoInstance
            /\ \E l \in Layouts : /\ l.slots = instances'[w].slots
                                  /\ l.payloads = instances'[w].payloads
    BY ResetStep, CreateStep
<1>2. \A v \in Workers : v # w => Same(v)
    BY <1>1, OthersSame
<1>3. calls[w] = NoCall /\ calls'[w] = NoCall /\ calls'[w].phase # "write"
    BY <1>1 DEF Free, NoCall
<1>4. CallOf(w) = Forms!Idle /\ CallOf(w)' = Forms!Idle
    BY <1>3, Calls, CallsNext DEF CallShows
<1>5. FormOf(w)' \in {FieldsOf(l) : l \in Layouts} \cup {<<>>}
    <2>1. CASE instances'[w] = NoInstance
        BY <1>3, <2>1, PlainNext DEF PlainForms
    <2>2. CASE instances'[w] # NoInstance
        <3>1. PICK l \in Layouts : /\ l.slots = instances'[w].slots
                                   /\ l.payloads = instances'[w].payloads
            BY <1>1, <2>2
        <3>2. FormOf(w)' = FieldsOf(instances'[w])
            BY <1>3, <2>2, PlainNext DEF PlainForms, FieldsOf, SlotBytes
        <3>3. FieldsOf(instances'[w]) = FieldsOf(l)
            BY <3>1 DEF FieldsOf, SlotBytes
        <3> QED BY <3>1, <3>2, <3>3
    <2> QED BY <2>1, <2>2
<1>6. PICK f \in {FieldsOf(l) : l \in Layouts} \cup {<<>>} : FormOf(w)' = f
    BY <1>5
<1> QED BY <1>2, <1>4, <1>6 DEF Forms!Own, Forms!Idle, Same

LEMMA MoveView ==
    ASSUME Inv, Once, Inv', Once', NEW w \in Workers, NEW v \in Workers, MoveInstance(w, v)
    PROVE  Forms!Move(w, v)
<1>1. /\ w # v /\ Free(w) /\ Free(v) /\ calls' = calls
      /\ instances'[w] = NoInstance /\ instances'[v] = instances[w]
      /\ \A u \in Workers : u \notin {w, v} => instances'[u] = instances[u]
    BY MoveStep
<1>2. ASSUME NEW u \in Workers, u \notin {w, v}
      PROVE  Same(u)
    <2>1. ~Borrows(calls[u], w) /\ ~Borrows(calls[u], v)
        BY <1>1 DEF Free
    <2>2. \A t \in Workers : Borrows(calls[u], t) => instances'[t] = instances[t]
        BY <1>1, <2>1
    <2> QED BY <1>1, <1>2, <2>2, KeepsView
<1>3. /\ calls[w] = NoCall /\ calls[v] = NoCall /\ calls'[w] = NoCall /\ calls'[v] = NoCall
      /\ NoCall.phase # "write"
    BY <1>1 DEF Free, NoCall
<1>4. /\ CallOf(w) = Forms!Idle /\ CallOf(w)' = Forms!Idle
      /\ CallOf(v) = Forms!Idle /\ CallOf(v)' = Forms!Idle
    BY <1>3, Calls, CallsNext DEF CallShows
<1>5. FormOf(w)' = <<>>
    BY <1>1, <1>3, PlainNext DEF PlainForms
<1>6. FormOf(v)' = FormOf(w)
    <2>1. FormOf(w) = IF instances[w] = NoInstance THEN <<>> ELSE FieldsOf(instances[w])
        BY <1>3, Plain DEF PlainForms
    <2>2. FormOf(v)' = IF instances'[v] = NoInstance THEN <<>> ELSE FieldsOf(instances'[v])
        BY <1>3, PlainNext DEF PlainForms, FieldsOf, SlotBytes
    <2> QED BY <1>1, <2>1, <2>2
<1> QED BY <1>1, <1>2, <1>4, <1>5, <1>6 DEF Forms!Move, Forms!Idle, Same

LEMMA InitForms == Init => Forms!Init
<1> SUFFICES ASSUME Init PROVE Forms!Init
    OBVIOUS
<1>1. ASSUME NEW w \in Workers
      PROVE  FormOf(w) = <<>> /\ CallOf(w) = Forms!Idle
    <2>1. instances[w] = NoInstance /\ calls[w] = NoCall
        BY DEF Init
    <2> QED BY <2>1, FormIs, Calls DEF CallShows
<1> QED BY <1>1 DEF Forms!Init

LEMMA StepForms ==
    ASSUME Inv, Once, Written, Inv', Once', [Next]_vars
    PROVE  [Forms!Next]_(Forms!vars)
<1>1. CASE instances' = instances /\ calls' = calls
    <2>1. \A w \in Workers : Same(w)
        BY <1>1, KeepsView
    <2> QED BY <2>1, AllSame
<1>2. ASSUME NEW w \in Workers, Reset(w) \/ \E p \in Plans : Create(w, p)
      PROVE  Forms!Next
    BY <1>2, OwnView, NextForms
<1>3. ASSUME NEW w \in Workers, Begin(w)
      PROVE  Forms!Next
    BY <1>3, BeginAsks, NextForms
<1>4. ASSUME NEW w \in Workers, Check(w)
      PROVE  Forms!Next \/ UNCHANGED Forms!vars
    BY <1>4, CheckView, NextForms
<1>5. ASSUME NEW w \in Workers, Write(w)
      PROVE  Forms!Next \/ UNCHANGED Forms!vars
    BY <1>5, WriteView, NextForms
<1>6. ASSUME NEW w \in Workers, NEW v \in Workers, MoveInstance(w, v)
      PROVE  Forms!Next
    BY <1>6, MoveView DEF Forms!Next
<1>7. \/ instances' = instances /\ calls' = calls
      \/ \E w \in Workers, p \in Plans : Create(w, p)
      \/ \E w \in Workers : Reset(w) \/ Begin(w) \/ Check(w) \/ Write(w)
      \/ \E w, v \in Workers : MoveInstance(w, v)
    BY HostStep DEF Next
<1> QED BY <1>1, <1>2, <1>3, <1>4, <1>5, <1>6, <1>7

\* A batch is done as a whole or not at all, to the values it had when the call
\* began, whatever other workers patch meanwhile; it is refused for a fault it
\* has, and what it reads out of its own instance it never changes.
THEOREM PatchesAreAtomic == Spec => ImplementsForms
<1>1. Inv /\ Inv' /\ (Written /\ Once) /\ (Written /\ Once)' /\ [Next]_vars
          => [Forms!Next]_(Forms!vars)
    BY StepForms
<1> QED BY <1>1, InitForms, AlwaysInv, AlwaysFormInv, PTL DEF Spec, ImplementsForms, Forms!Spec
====
