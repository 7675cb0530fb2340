---------------------------- MODULE MetadataPatch ----------------------------
(***************************************************************************)
(* Prepared metadata patches (openmeta/metadata_patch.cc).                 *)
(*                                                                         *)
(* prepare_metadata_patch_plan() serializes payloads once and compiles the *)
(* requested fields to slots, byte ranges of the payloads.  It gives the   *)
(* host a handle per slot.  Each worker gets a copy of the payloads and    *)
(* patches slots in place, in batches: a call first checks every update,   *)
(* then writes them all.  The checks find repeated handles with a stamp    *)
(* per slot that is never cleared but when the 32-bit epoch wraps.         *)
(*                                                                         *)
(* The checks and the writes take one action per update.  A call that      *)
(* fails before it starts to check (no instance, no updates, more updates  *)
(* than slots) changes nothing and is no action.                           *)
(***************************************************************************)
EXTENDS SequencesExt, Integers

CONSTANTS Workers,        \* instances, each used by one thread at a time
          Plans,          \* plan objects of the host
          Bytes,
          Escape,         \* what XML escaping makes of a byte (xml_escape)
          Illegal,        \* bytes of no legal text, and zero denominators
          HostValues,     \* values the host has outside every payload
          BorrowedKinds,  \* kinds of the values it reads out of instances
          Layouts,        \* what the serializers may lay out for a plan
          MaxPlanId,      \* kMaxMetadataPatchPlanId
          Radix,          \* 2^16: a handle is its plan's id times this ...
          MaxHandles,     \* kMaxPreparedMetadataPatchHandles
          EpochSpan,      \* 2^32: seen_epoch wraps here
          MaxSlots,       \* bound: slots of all preparations, and of all instances
          MaxBatch,       \* bound: updates of a call
          Host            \* where a value is that no instance holds

Families == {"Exif", "Xmp", "Iptc"}
ValueKinds == {"Text", "Array"}

\* struct CompiledMetadataPatchSlot.  kind and count are the exact shape that
\* EXIF and IPTC updates must have; a slot of XMP has a width only.
Slot == [family : Families, kind : ValueKinds, count : Nat, offset : Nat, width : Nat]

Payloads == [Families -> Seq(Bytes)]

\* build_exif_tiff_payload, dump_xmp_portable_for_patch and
\* build_iptc_iim_payload give every selected entry bytes of its own, of the
\* width its shape is written in (compile_exif_patch_payload, compile_iptc).
Fits(l, s) ==
    /\ s.offset + s.width <= Len(l.payloads[s.family])
    /\ s.family = "Exif" => s.width = s.count + (IF s.kind = "Text" THEN 1 ELSE 0)
    /\ s.family = "Iptc" => s.width = s.count

Apart(s, t) ==
    \/ s.family # t.family
    \/ s.offset + s.width <= t.offset
    \/ t.offset + t.width <= s.offset

Layout == [slots : Seq(Slot), payloads : Payloads]

ASSUME PatchAssumption ==
    /\ Escape \in [Bytes -> Seq(Bytes)] /\ 0 \in Bytes
    /\ MaxPlanId \in Nat \ {0} /\ Radix \in Nat /\ MaxHandles \in Nat
    /\ MaxHandles + 1 < Radix
    /\ EpochSpan \in Nat /\ EpochSpan > 1
    /\ MaxSlots \in Nat /\ MaxBatch \in Nat /\ BorrowedKinds \subseteq ValueKinds
    /\ Host \notin Workers
    /\ HostValues \subseteq [kind : ValueKinds, in : {Host}, bytes : Seq(Bytes)]

ASSUME LayoutsAssumption ==
    /\ Layouts \subseteq Layout
    /\ \A l \in Layouts :
          /\ Len(l.slots) > 0
          /\ \A i \in 1..Len(l.slots) : Fits(l, l.slots[i])
          /\ \A i, j \in 1..Len(l.slots) : i # j => Apart(l.slots[i], l.slots[j])

VARIABLES plans,     \* [Plans -> plan or NoPlan]
          instances, \* [Workers -> instance or NoInstance]
          calls,     \* [Workers -> the patch call in progress, or NoCall]
          handles,   \* the handles the host still holds
          generation \* slots prepared so far: the number of the last preparation

vars == <<plans, instances, calls, handles, generation>>

\* A plan and an instance share a form (struct MetadataPatchState).  gen and
\* blank record where it comes from: no code reads them.
NoPlan == [id |-> 0, gen |-> 0]
NoInstance == [id |-> 0, gen |-> 0]
NoCall == [phase |-> "none"]

-----------------------------------------------------------------------------
(* struct MetadataPatchHandleAccess.  gen and index say what the handle was *)
(* issued for: no code reads them.                                          *)

Token(id, index) == ((id * Radix) % ((MaxPlanId + 1) * Radix)) + index

Handle(id, gen, index) == [token |-> Token(id, index), gen |-> gen, index |-> index]

NullHandle == [token |-> 0, gen |-> 0, index |-> 0]

PlanIdOf(h) == h.token \div Radix
IndexOf(h) == h.token % Radix                     \* from 1; 0 is no index

-----------------------------------------------------------------------------
(* prepare_metadata_patch_plan.  A refused preparation changes nothing.     *)

\* The host never reuses an id while a plan, a worker or a handle with that id
\* may still be used.
Fresh(id) ==
    /\ \A p \in Plans : plans[p].id # id
    /\ \A w \in Workers : instances[w].id # id
    /\ \A h \in handles : PlanIdOf(h) # id

IdAccepted(id) == id # 0 /\ id <= MaxPlanId

Prepare(p) ==
    /\ \E id \in 0..MaxPlanId + 1, l \in Layouts :
          /\ IdAccepted(id) /\ Fresh(id)
          /\ Len(l.slots) <= MaxHandles /\ generation + Len(l.slots) <= MaxSlots
          /\ generation' = generation + Len(l.slots)
          /\ plans' = [plans EXCEPT ![p] =
                [id |-> id, gen |-> generation', slots |-> l.slots,
                 payloads |-> l.payloads]]
          /\ handles' = handles \cup
                {Handle(id, generation', i) : i \in 1..Len(l.slots)}
    /\ UNCHANGED <<instances, calls>>

ResetPlan(p) ==
    /\ plans' = [plans EXCEPT ![p] = NoPlan]
    /\ UNCHANGED <<instances, calls, handles, generation>>

MovePlan(p, q) ==
    /\ p # q
    /\ plans' = [plans EXCEPT ![p] = NoPlan, ![q] = plans[p]]
    /\ UNCHANGED <<instances, calls, handles, generation>>

\* The host forgets the handles of one preparation.
DropHandles(gen) ==
    /\ handles' = {h \in handles : h.gen # gen}
    /\ \A w \in Workers : calls[w] = NoCall
    /\ UNCHANGED <<plans, instances, calls, generation>>

-----------------------------------------------------------------------------
(* Instances                                                                *)

\* Nobody is patching the instance, or reading values out of it for another.
Borrows(c, w) ==
    c # NoCall /\ \E i \in 1..Len(c.batch) : c.batch[i].value.in = w

Free(w) == calls[w] = NoCall /\ \A v \in Workers : ~Borrows(calls[v], w)

SlotsOf(w) == IF instances[w] = NoInstance THEN 0 ELSE Len(instances[w].slots)

\* create_prepared_metadata_patch_instance
Create(w, p) ==
    /\ Free(w) /\ plans[p] # NoPlan
    /\ Len(plans[p].slots) + SumFunction([v \in Workers \ {w} |-> SlotsOf(v)]) <= MaxSlots
    /\ instances' = [instances EXCEPT ![w] =
          [id |-> plans[p].id, gen |-> plans[p].gen, slots |-> plans[p].slots,
           payloads |-> plans[p].payloads, blank |-> plans[p].payloads,
           seen |-> [i \in 1..Len(plans[p].slots) |-> 0], epoch |-> 0]]
    /\ UNCHANGED <<plans, calls, handles, generation>>

Reset(w) ==
    /\ Free(w)
    /\ instances' = [instances EXCEPT ![w] = NoInstance]
    /\ UNCHANGED <<plans, calls, handles, generation>>

MoveInstance(w, v) ==
    /\ w # v /\ Free(w) /\ Free(v)
    /\ instances' = [instances EXCEPT ![w] = NoInstance, ![v] = instances[w]]
    /\ UNCHANGED <<plans, calls, handles, generation>>

-----------------------------------------------------------------------------
(* Values and how they are written                                          *)

\* A value is of the host's or borrows the bytes of a slot of some instance.
Borrowed ==
    UNION {{[kind |-> k, in |-> w, slot |-> i] :
               k \in BorrowedKinds, i \in 1..Len(instances[w].slots)} :
           w \in {x \in Workers : instances[x] # NoInstance}}

SlotBytes(inst, i) ==
    LET s == inst.slots[i]
    IN  SubSeq(inst.payloads[s.family], s.offset + 1, s.offset + s.width)

BytesOf(v) == IF v.in = Host THEN v.bytes ELSE SlotBytes(instances[v.in], v.slot)

Escaped(bytes) == FlattenSeq([i \in 1..Len(bytes) |-> Escape[bytes[i]]])

\* write_xmp_value, patch_write_value: what the slot's bytes become.
Encoded(s, kind, bytes) ==
    IF s.family = "Xmp" THEN Escaped(bytes)
    ELSE IF s.family = "Exif" /\ kind = "Text" THEN Append(bytes, 0)
    ELSE bytes

Legal(bytes) == \A i \in 1..Len(bytes) : bytes[i] \notin Illegal

ValueError_Unescaped(s, v) ==                                    \* mutant
    IF s.family = "Xmp"
    THEN IF v.kind # "Text" \/ ~Legal(BytesOf(v)) THEN "InvalidValue"
         ELSE IF Len(BytesOf(v)) # s.width THEN "WidthMismatch"
         ELSE "None"
    ELSE IF v.kind # s.kind \/ Len(BytesOf(v)) # s.count THEN "ValueTypeMismatch"
         ELSE IF s.family = "Exif" /\ ~Legal(BytesOf(v)) THEN "InvalidValue"
         ELSE "None"

ValueError(s, v) ==
    IF s.family = "Xmp"
    THEN IF v.kind # "Text" \/ ~Legal(BytesOf(v)) THEN "InvalidValue"
         ELSE IF Len(Escaped(BytesOf(v))) # s.width THEN "WidthMismatch"
         ELSE "None"
    ELSE IF v.kind # s.kind \/ Len(BytesOf(v)) # s.count THEN "ValueTypeMismatch"
         ELSE IF s.family = "Exif" /\ ~Legal(BytesOf(v)) THEN "InvalidValue"
         ELSE "None"

\* exif_patch_ranges_overlap: a value of no bytes overlaps nothing.
AliasError_Never(w, v) == "None"                                 \* mutant

AliasError(w, v) ==
    IF v.in = w /\ BytesOf(v) # <<>> THEN "ValueAliasesInstance" ELSE "None"

HandleError_NoPlan(inst, h) ==                                   \* mutant
    IF h.token = 0 THEN "InvalidHandle"
    ELSE IF IndexOf(h) \notin 1..Len(inst.slots) THEN "InvalidHandle"
    ELSE IF inst.seen[IndexOf(h)] = inst.epoch THEN "DuplicateHandle"
    ELSE "None"

HandleError(inst, h) ==
    IF h.token = 0 THEN "InvalidHandle"
    ELSE IF PlanIdOf(h) # inst.id THEN "ForeignHandle"
    ELSE IF IndexOf(h) \notin 1..Len(inst.slots) THEN "InvalidHandle"
    ELSE IF inst.seen[IndexOf(h)] = inst.epoch THEN "DuplicateHandle"
    ELSE "None"

-----------------------------------------------------------------------------
(* patch_prepared_metadata_instance                                         *)

Batches(n) == UNION {[1..k -> [handle : handles \cup {NullHandle},
                               value : HostValues \cup Borrowed]] :
                      k \in {m \in 1..n : m <= MaxBatch}}

\* ++seen_epoch, and when it wraps every stamp is cleared.
Restamped_NoClear(inst) ==                                       \* mutant
    [inst EXCEPT !.epoch = IF @ + 1 = EpochSpan THEN 1 ELSE @ + 1]

Restamped(inst) ==
    IF (inst.epoch + 1) % EpochSpan = 0
    THEN [inst EXCEPT !.epoch = 1, !.seen = [i \in DOMAIN @ |-> 0]]
    ELSE [inst EXCEPT !.epoch = @ + 1]

Begin(w) ==
    /\ Free(w) /\ instances[w] # NoInstance
    /\ \E batch \in Batches(Len(instances[w].slots)) :
          /\ \A i \in 1..Len(batch) :      \* what it reads nobody is writing
                batch[i].value.in \in Workers \ {w} => calls[batch[i].value.in] = NoCall
          /\ calls' = [calls EXCEPT ![w] = [phase |-> "check", batch |-> batch, at |-> 1]]
    /\ instances' = [instances EXCEPT ![w] = Restamped(@)]
    /\ UNCHANGED <<plans, handles, generation>>

Onward_OneTooMany(c) == IF c.at <= Len(c.batch) THEN [c EXCEPT !.at = @ + 1]  \* mutant
                        ELSE IF c.phase = "check" THEN [c EXCEPT !.phase = "write", !.at = 1]
                        ELSE NoCall

\* The call goes on to the next update, or from the checks to the writes.
Onward(c) == IF c.at < Len(c.batch) THEN [c EXCEPT !.at = @ + 1]
             ELSE IF c.phase = "check" THEN [c EXCEPT !.phase = "write", !.at = 1]
             ELSE NoCall

Check_NoStamp(w) ==                                              \* mutant
    /\ calls[w].phase = "check"
    /\ LET inst == instances[w]
           u    == calls[w].batch[calls[w].at]
           slot == inst.slots[IndexOf(u.handle)]
       IN  calls' = [calls EXCEPT ![w] =
              IF HandleError(inst, u.handle) # "None"
              THEN NoCall
              ELSE IF ValueError(slot, u.value) # "None"
                      \/ AliasError(w, u.value) # "None"
              THEN NoCall ELSE Onward(@)]
    /\ UNCHANGED <<plans, instances, handles, generation>>

Check(w) ==
    /\ calls[w].phase = "check"
    /\ LET inst == instances[w]
           u    == calls[w].batch[calls[w].at]
           slot == inst.slots[IndexOf(u.handle)]
       IN  IF HandleError(inst, u.handle) # "None"
           THEN calls' = [calls EXCEPT ![w] = NoCall] /\ UNCHANGED instances
           ELSE /\ instances' = [instances EXCEPT
                                    ![w].seen[IndexOf(u.handle)] = inst.epoch]
                /\ calls' = [calls EXCEPT ![w] =
                      IF ValueError(slot, u.value) # "None"
                         \/ AliasError(w, u.value) # "None"
                      THEN NoCall ELSE Onward(@)]
    /\ UNCHANGED <<plans, handles, generation>>

\* memcpy: bytes that leave the payload would make it longer.
Overlay(p, offset, bytes) ==
    LET end == offset + Len(bytes)
    IN  [i \in 1..(IF end > Len(p) THEN end ELSE Len(p)) |->
            IF i > offset /\ i <= end THEN bytes[i - offset] ELSE p[i]]

Write(w) ==
    /\ calls[w].phase = "write"
    /\ LET u    == calls[w].batch[calls[w].at]
           slot == instances[w].slots[IndexOf(u.handle)]
       IN  instances' = [instances EXCEPT ![w].payloads[slot.family] =
               Overlay(@, slot.offset, Encoded(slot, u.value.kind, BytesOf(u.value)))]
    /\ calls' = [calls EXCEPT ![w] = Onward(@)]
    /\ UNCHANGED <<plans, handles, generation>>

-----------------------------------------------------------------------------
Init ==
    /\ plans = [p \in Plans |-> NoPlan]
    /\ instances = [w \in Workers |-> NoInstance]
    /\ calls = [w \in Workers |-> NoCall]
    /\ handles = {}
    /\ generation = 0

Next ==
    \/ \E p \in Plans : Prepare(p) \/ ResetPlan(p)
    \/ \E p, q \in Plans : MovePlan(p, q)
    \/ \E g \in 1..MaxSlots : DropHandles(g)
    \/ \E w \in Workers, p \in Plans : Create(w, p)
    \/ \E w \in Workers : Reset(w) \/ Begin(w) \/ Check(w) \/ Write(w)
    \/ \E w, v \in Workers : MoveInstance(w, v)

Spec == Init /\ [][Next]_vars

-----------------------------------------------------------------------------
Instance == [id : 1..MaxPlanId, gen : 1..MaxSlots, slots : Seq(Slot),
             payloads : Payloads, blank : Payloads,
             seen : Seq(0..EpochSpan - 1), epoch : 0..EpochSpan - 1]

HandleType == [token : 0..(MaxPlanId + 1) * Radix - 1, gen : 0..MaxSlots, index : Nat]

TypeOK ==
    /\ \A p \in Plans : plans[p] # NoPlan =>
          /\ plans[p].id \in 1..MaxPlanId /\ plans[p].gen \in 1..MaxSlots
          /\ [slots |-> plans[p].slots, payloads |-> plans[p].payloads] \in Layouts
    /\ \A w \in Workers : instances[w] # NoInstance =>
          instances[w] \in Instance /\ DOMAIN instances[w].seen = DOMAIN instances[w].slots
    /\ \A w \in Workers : calls[w] # NoCall =>
          /\ instances[w] # NoInstance
          /\ calls[w].phase \in {"check", "write"}
          /\ calls[w].at \in 1..Len(calls[w].batch)
          /\ Len(calls[w].batch) <= Len(instances[w].slots)
    /\ handles \subseteq HandleType
    /\ generation \in 0..MaxSlots

\* Was the handle of update i of the batch named by an earlier update?
Repeated(batch, i) == \E j \in 1..i - 1 : batch[j].handle = batch[i].handle

\* Handles of other preparations, of earlier preparations with the same id
\* included, are refused, and a handle is a duplicate exactly when the same
\* batch named it before: no stamp of an earlier call, failed or long ago, is
\* taken for one of this call (seen_epoch, MetadataPatchHandleAccess).
HandlesJudgedRight ==
    \A w \in Workers : calls[w].phase = "check" =>
        LET c     == calls[w]
            h     == c.batch[c.at].handle
            own   == h.gen = instances[w].gen
            error == HandleError(instances[w], h)
        IN  /\ error = "None" <=> own /\ ~Repeated(c.batch, c.at)
            /\ error = "DuplicateHandle" <=> own /\ Repeated(c.batch, c.at)

\* A payload never changes its length, nor a byte outside the slots, whatever
\* is patched ("Payload addresses and lengths remain stable").
OutsideSlots(inst, f, i) ==
    \A n \in 1..Len(inst.slots) :
        LET s == inst.slots[n]
        IN  s.family = f => i <= s.offset \/ i > s.offset + s.width

PayloadsKeepTheirShape ==
    \A w \in Workers : instances[w] # NoInstance =>
        \A f \in Families :
            LET p == instances[w].payloads[f]
                b == instances[w].blank[f]
            IN  /\ Len(p) = Len(b)
                /\ \A i \in 1..Len(p) : OutsideSlots(instances[w], f, i) => p[i] = b[i]

-----------------------------------------------------------------------------
(* The form of a worker is what its slots hold, with the writes that a call *)
(* has decided on as if they were done: the batch takes effect when the     *)
(* last check passes.                                                       *)

NewBytes(w, i) ==
    LET u == calls[w].batch[i]
    IN  Encoded(instances[w].slots[u.handle.index], u.value.kind, BytesOf(u.value))

Pending(w) == IF calls[w].phase = "write" THEN calls[w].at..Len(calls[w].batch) ELSE {}

FieldsOf(inst) == [n \in 1..Len(inst.slots) |-> SlotBytes(inst, n)]

FormOf(w) ==
    IF instances[w] = NoInstance THEN <<>>
    ELSE [n \in 1..Len(instances[w].slots) |->
             LET writes == {i \in Pending(w) : calls[w].batch[i].handle.index = n}
             IN  IF writes = {} THEN SlotBytes(instances[w], n)
                 ELSE NewBytes(w, CHOOSE i \in writes : \A j \in writes : j <= i)]

\* Every update of the batch names a slot of this instance that no other names,
\* with a value that fits and that is not read out of this instance.
Acceptable(w) ==
    \A i \in 1..Len(calls[w].batch) :
        LET u == calls[w].batch[i]
        IN  /\ u.handle.gen = instances[w].gen /\ ~Repeated(calls[w].batch, i)
            /\ ValueError(instances[w].slots[u.handle.index], u.value) = "None"
            /\ u.value.in = w => BytesOf(u.value) = <<>>

CallOf(w) ==
    CASE calls[w].phase = "none" -> [state |-> "idle"]
      [] calls[w].phase = "write" -> [state |-> "settled"]
      [] calls[w].phase = "check" ->
            IF ~Acceptable(w) THEN [state |-> "bad"]
            ELSE LET batch == calls[w].batch
                     named == {batch[i].handle.index : i \in 1..Len(batch)}
                 IN  [state |-> "asked", fields |->
                        [n \in named |-> NewBytes(w, CHOOSE i \in 1..Len(batch) :
                                                        batch[i].handle.index = n)]]

Forms == INSTANCE PatchForms WITH
    form   <- [w \in Workers |-> FormOf(w)],
    call   <- [w \in Workers |-> CallOf(w)],
    Blanks <- {FieldsOf(l) : l \in Layouts}

\* A batch is done as a whole or not at all, with the values it had when the
\* call began, and it is refused only for a fault it has ("Validate the
\* complete batch before writing any payload. All errors leave every payload
\* byte unchanged").
ImplementsForms == Forms!Spec
=============================================================================
