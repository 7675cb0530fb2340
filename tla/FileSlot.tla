------------------------------- MODULE FileSlot -------------------------------
(***************************************************************************)
(* What atomic_write_file_bytes() promises its callers: a path under which *)
(* there is nothing, or one whole file.  A call puts its own file there at *)
(* one instant, or leaves the path alone; and it tells which.  There is no *)
(* temporary file, no partial content and no half-done exchange.           *)
(***************************************************************************)
CONSTANTS Writers,      \* the calls
          Strangers,    \* files that other programs put under the path
          Nothing       \* no file

VARIABLES content,      \* the file under the path
          durable,      \* the file that a power failure would bring back
          call          \* per call: idle, waiting, placed, or its answer

vars == <<content, durable, call>>

Answers == {"Ok", "Exists", "UnsafeTarget", "IoError"}

\* A finished file says who wrote it.
Whole(w) == [by |-> w, whole |-> TRUE]

Init ==
    /\ content \in {Nothing} \cup Strangers
    /\ durable = content
    /\ call = [w \in Writers |-> [at |-> "idle", mode |-> "create"]]

Ask(w, mode) ==
    /\ call[w].at = "idle"
    /\ call' = [call EXCEPT ![w] = [at |-> "waiting", mode |-> mode]]
    /\ UNCHANGED <<content, durable>>

Place(w) ==
    /\ call[w].at = "waiting"
    /\ call[w].mode = "overwrite" \/ content = Nothing
    /\ content' = Whole(w)
    /\ \E at \in {"placed", "Ok"} : call' = [call EXCEPT ![w].at = at]
    /\ UNCHANGED durable

Answer(w) ==
    /\ \/ call[w].at = "placed" /\ call' = [call EXCEPT ![w].at = "Ok"]
       \/ /\ call[w].at = "waiting"
          /\ \E a \in {"IoError", IF call[w].mode = "overwrite" THEN "UnsafeTarget" ELSE "Exists"} :
                call' = [call EXCEPT ![w].at = a]
    /\ UNCHANGED <<content, durable>>

\* A file under the path reaches the disk, some time or never.
Settle == durable' = content /\ UNCHANGED <<content, call>>

\* Another program exchanges or removes the file.
Meddle ==
    /\ content' \in {Nothing} \cup Strangers
    /\ UNCHANGED <<durable, call>>

\* Processes die, with or without the machine.
Gone == {"idle", "dead"} \cup Answers

Die ==
    /\ \E dying \in SUBSET Writers :
          call' = [w \in Writers |-> IF w \in dying /\ call[w].at \notin Gone
                                     THEN [call[w] EXCEPT !.at = "dead"] ELSE call[w]]
    /\ content' \in {content, durable}
    /\ content' # content => \A w \in Writers : call'[w].at \in Gone
    /\ UNCHANGED durable

Next ==
    \/ \E w \in Writers : \/ \E mode \in {"create", "overwrite"} : Ask(w, mode)
                          \/ Place(w)
                          \/ Answer(w)
    \/ Settle \/ Meddle \/ Die

Spec == Init /\ [][Next]_vars
=============================================================================
