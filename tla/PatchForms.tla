------------------------------ MODULE PatchForms ------------------------------
(***************************************************************************)
(* What openmeta/metadata_patch.h promises of a worker's payloads, without *)
(* payloads: a worker owns a form with a fixed number of fields of fixed   *)
(* widths.  A call asks for some fields to be set; a call that is good is  *)
(* done, all its fields at once and to the values they had when it was     *)
(* asked, and a call that is bad changes nothing.                          *)
(***************************************************************************)
EXTENDS Naturals, Sequences

CONSTANTS Workers, Blanks    \* Blanks: the forms a plan may hold

VARIABLES form,     \* [Workers -> Seq(field)], <<>> when the worker has none
          call      \* [Workers -> the call in progress]

vars == <<form, call>>

Idle == [state |-> "idle"]
Bad == [state |-> "bad"]
Settled == [state |-> "settled"]
Asked(fields) == [state |-> "asked", fields |-> fields]

Init ==
    /\ form = [w \in Workers |-> <<>>]
    /\ call = [w \in Workers |-> Idle]

\* The call names some fields, with values of the right width.
IsRequest(f, c) ==
    /\ c.state = "asked"
    /\ DOMAIN c.fields # {} /\ DOMAIN c.fields \subseteq DOMAIN f
    /\ \A i \in DOMAIN c.fields : Len(c.fields[i]) = Len(f[i])

Ask(w) ==
    /\ call[w] = Idle /\ form[w] # <<>>
    /\ call'[w] = Bad \/ IsRequest(form[w], call'[w])
    /\ call' = [call EXCEPT ![w] = call'[w]]
    /\ UNCHANGED form

Settle(w) ==
    /\ call[w].state = "asked"
    /\ LET fields == call[w].fields
       IN  form' = [form EXCEPT ![w] =
                       [i \in DOMAIN @ |-> IF i \in DOMAIN fields THEN fields[i]
                                                                  ELSE @[i]]]
    /\ call' = [call EXCEPT ![w] = Settled]

Refuse(w) == call[w] = Bad /\ call' = [call EXCEPT ![w] = Idle] /\ UNCHANGED form
Finish(w) == call[w] = Settled /\ call' = [call EXCEPT ![w] = Idle] /\ UNCHANGED form

\* A new worker, a moved one, or none.
Own(w) ==
    /\ call[w] = Idle
    /\ \E f \in Blanks \cup {<<>>} : form' = [form EXCEPT ![w] = f]
    /\ UNCHANGED call

Move(w, v) ==
    /\ call[w] = Idle /\ call[v] = Idle /\ w # v
    /\ form' = [form EXCEPT ![w] = <<>>, ![v] = form[w]]
    /\ UNCHANGED call

Next ==
    \/ \E w \in Workers : Ask(w) \/ Settle(w) \/ Refuse(w) \/ Finish(w) \/ Own(w)
    \/ \E w, v \in Workers : Move(w, v)

Spec == Init /\ [][Next]_vars
=============================================================================
