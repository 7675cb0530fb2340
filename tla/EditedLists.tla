----------------------------- MODULE EditedLists ------------------------------
(***************************************************************************)
(* What the editing calls promise, with no ids: a list of entries, changed  *)
(* by operations that each see what the ones before have done.  A call      *)
(* carries out all of its operations or changes nothing.  It may always be  *)
(* refused for its size or its content, but for the lack of a target only   *)
(* at an operation that has none, with one exception (Unheeded).            *)
(***************************************************************************)
EXTENDS EditingStore

CONSTANTS Requests, InitLists

VARIABLES list, request, answer

vars == <<list, request, answer>>

None == [none |-> TRUE]

Entry(key, value, wire) == [key |-> key, value |-> value, wire |-> wire, flags |-> {"Dirty"}]

Live(l, Wanted(_)) == {n \in 1..Len(l) : ~Deleted(l[n]) /\ Wanted(l[n].key)}

\* A value set by field keeps the wire type and the flags.  One set by key brings
\* its own wire type, and the flags are kept (metadata_editing.h) but for the mark
\* of big-endian data, which docs/translation.md says a typed Set clears.
Marked(e) == [e EXCEPT !.flags = @ \cup {"Dirty", "Deleted"}]
Written(e, value) == [e EXCEPT !.value = value, !.flags = @ \cup {"Dirty"}]
Rewritten(e, value, wire) ==
    [e EXCEPT !.value = value, !.wire = wire, !.flags = (@ \cup {"Dirty"}) \ {"BigEndian"}]

Mark(l, places) == [n \in 1..Len(l) |-> IF n \in places THEN Marked(l[n]) ELSE l[n]]

-----------------------------------------------------------------------------
(* The lists that one operation may lead to: none if it does not apply.     *)

\* Fields by name.  "Add ignores occurrence" (metadata_editing.h).  A new item of a
\* list gets a number that no entry of the list has, there or removed.
NewKeys(l, f) ==
    IF f \notin Repeated THEN {Singletons[f]}
    ELSE {k \in {Key(f, i, NoLeaf) : i \in 1..IndexMax} : \A n \in 1..Len(l) : l[n].key # k}

ByField(l, op) ==
    LET live == Live(l, LAMBDA key : OfField(op.field, key))
        one  == op.field \in Repeated \/ (op.occurrence = 0 /\ Cardinality(live) = 1)
    IN  CASE op.kind = "Add" /\ (op.field \in Repeated \/ live = {}) ->
               {Append(l, Entry(k, op.value, "none")) : k \in NewKeys(l, op.field)}
          [] op.kind = "Set" /\ op.occurrence # All /\ one /\ op.occurrence < Cardinality(live) ->
               {[l EXCEPT ![Nth(live, op.occurrence + 1)] = Written(@, op.value)]}
          [] op.kind = "Remove" /\ op.occurrence = All /\ live # {} -> {Mark(l, live)}
          [] op.kind = "Remove" /\ op.occurrence # All /\ one /\ op.occurrence < Cardinality(live) ->
               {Mark(l, {Nth(live, op.occurrence + 1)})}
          [] OTHER -> {}

\* Entries by exact key.
ByKey(l, op, policy) ==
    LET live == Live(l, LAMBDA key : key = op.key)
        n == Cardinality(live)
        place == IF op.occurrence = Unique THEN 1 ELSE op.occurrence + 1
        named == IF op.occurrence = Unique THEN n = 1 ELSE op.occurrence < n
    IN  CASE op.kind = "Add" /\ op.occurrence = Unique /\ (n = 0 \/ policy = "Append") ->
               {Append(l, Entry(op.key, op.value, op.wire))}
          [] op.kind = "Set" /\ op.occurrence # All /\ named ->
               {[l EXCEPT ![Nth(live, place)] = Rewritten(@, op.value, op.wire)]}
          [] op.kind = "Remove" /\ op.occurrence = All /\ live # {} -> {Mark(l, live)}
          [] op.kind = "Remove" /\ op.occurrence # All /\ named ->
               {Mark(l, {Nth(live, place)})}
          [] OTHER -> {}

\* Structures by scope: what the scope holds becomes what is proposed.  The
\* properties that stay keep their place and, in standard roots, their wire type.
For(op, key) == {i \in 1..Len(op.entries) : op.entries[i].key = key}

Replaced(l, op, live) ==
    [n \in 1..Len(l) |->
        IF n \notin live THEN l[n]
        ELSE IF For(op, l[n].key) = {} THEN Marked(l[n])
        ELSE LET e == op.entries[Min(For(op, l[n].key))]
             IN  Rewritten(l[n], e.value, IF op.scope.root \in Customs THEN e.wire
                                                                      ELSE l[n].wire)]

Brought(l, op, live) ==
    LET fresh == Picked(op.entries, {i \in 1..Len(op.entries) :
                                        \A n \in live : l[n].key # op.entries[i].key})
    IN  [i \in 1..Len(fresh) |-> Entry(fresh[i].key, fresh[i].value, fresh[i].wire)]

ByScope(l, op) ==
    LET live == Live(l, LAMBDA key : InScope(op.scope, key))
    IN  IF (op.kind = "Add") = (live = {})
        THEN {Replaced(l, op, live) \o Brought(l, op, live)} ELSE {}

Results(r, l, op) ==
    CASE r.api = "logical" -> ByField(l, op)
      [] r.api = "typed" -> ByKey(l, op, r.policy)
      [] r.api = "xmp" -> ByScope(l, op)

\* The lists that the first n operations may lead to.
After(r, n) ==
    LET after[i \in 0..Len(r.ops)] ==
            IF i = 0 THEN {list} ELSE UNION {Results(r, l, r.ops[i]) : l \in after[i - 1]}
    IN  after[n]

Dead(l) == Cardinality({n \in 1..Len(l) : Deleted(l[n])})

-----------------------------------------------------------------------------
\* Refusals that speak about the targets of an operation.
NoTarget == {"SingletonAlreadyExists", "TargetAlreadyExists", "ScopeAlreadyExists",
             "TargetNotFound", "ScopeNotFound", "AmbiguousTarget", "InvalidOccurrence"}

\* An Add with an occurrence is refused for it all the same.
Unheeded(r, i, status) ==
    /\ r.api = "logical" /\ r.ops[i].kind = "Add" /\ r.ops[i].occurrence # 0
    /\ status = "InvalidOccurrence"

Editing == request # None /\ answer = None /\ request.api \in {"logical", "typed", "xmp"}
Creating == request # None /\ answer = None /\ request.api \in {"fields", "entries"}

Ask == request = None /\ request' \in Requests /\ UNCHANGED <<list, answer>>

Edit ==
    /\ Editing
    /\ list' \in After(request, Len(request.ops))
    /\ answer' = [status |-> "Ok", at |-> 0, added |-> Len(list') - Len(list),
                  removed |-> Dead(list') - Dead(list)]
    /\ UNCHANGED request

\* A new store has what was asked for, in that order, each under a key of its own
\* if keys may not be given twice.
Create ==
    /\ Creating
    /\ Len(list') = Len(request.ops)
    /\ answer' = [status |-> "Ok", at |-> 0, added |-> Len(list'), removed |-> 0]
    /\ \A n \in 1..Len(list') :
          LET op == request.ops[n]
          IN  IF request.api = "entries" THEN list'[n] = Entry(op.key, op.value, op.wire)
              ELSE /\ list'[n] = Entry(list'[n].key, op.value, "none")
                   /\ OfField(op.field, list'[n].key)
    /\ (request.api = "fields" \/ request.policy = "RejectExactKeys")
          => \A m, n \in 1..Len(list') : m # n => list'[m].key # list'[n].key
    /\ UNCHANGED request

Refuse ==
    /\ Editing \/ Creating
    /\ answer' # None /\ answer'.status # "Ok" /\ answer'.at \in 0..Len(request.ops)
    /\ answer'.status \in NoTarget =>
          /\ answer'.at > 0 /\ After(request, answer'.at - 1) # {}
          /\ \/ After(request, answer'.at) = {}
             \/ Unheeded(request, answer'.at, answer'.status)
    /\ UNCHANGED <<list, request>>

Dismiss == answer # None /\ request' = None /\ answer' = None /\ UNCHANGED list

Next == Ask \/ Edit \/ Create \/ Refuse \/ Dismiss

Init == list \in InitLists /\ request = None /\ answer = None

Spec == Init /\ [][Next]_vars
=============================================================================
