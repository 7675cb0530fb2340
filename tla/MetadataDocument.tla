--------------------------- MODULE MetadataDocument ---------------------------
(***************************************************************************)
(* What a metadata store promises, with no arena, no spans and no indices: *)
(* a list of entries with their content, drafts of edits recorded beside   *)
(* it, and calls that answer with a new document in which all drafts have  *)
(* been applied in order, or with the old one marked as refused.  Which    *)
(* calls are refused is left open; what a refusal may do is not.           *)
(***************************************************************************)
EXTENDS EntryOperations, SequencesExt

CONSTANTS Buffers, Contents, NewValues, NewWires, Targets

VARIABLES doc,      \* entries, number of blocks, sealed, refused
          drafts,   \* per buffer: the operations recorded, or Void
          answer    \* the document a call answered with, or NoAnswer

vars == <<doc, drafts, answer>>

Empty == [void |-> FALSE, ops |-> <<>>]
Void == [void |-> TRUE, ops |-> <<>>]
NoAnswer == [none |-> TRUE]

Init ==
    /\ doc = [entries |-> <<>>, blocks |-> 0, sealed |-> FALSE, refused |-> FALSE]
    /\ drafts = [b \in 1..Buffers |-> Empty]
    /\ answer = NoAnswer

Becomes(d) == answer = NoAnswer /\ doc' = d /\ UNCHANGED <<drafts, answer>>

\* Only content that was asked for in full ever becomes an entry.
Extend ==
    /\ ~doc.sealed
    /\ \E c \in Contents \cup ToSet(doc.entries) :
          Becomes([doc EXCEPT !.entries = Append(@, c)])

AddBlock == ~doc.sealed /\ Becomes([doc EXCEPT !.blocks = @ + 1])
Seal == Becomes([doc EXCEPT !.sealed = TRUE])
Refuse == Becomes([doc EXCEPT !.refused = TRUE])

Operations ==
    [kind : {"AddEntry"}, content : Contents]
      \cup [kind : {"SetValue"}, target : Targets, value : NewValues]
      \cup [kind : {"SetValueWithWire"}, target : Targets, value : NewValues, wire : NewWires]
      \cup [kind : {"Tombstone"}, target : Targets]

Draft ==
    /\ answer = NoAnswer /\ doc.sealed
    /\ \E b \in 1..Buffers :
          /\ ~drafts[b].void
          /\ \/ \E op \in Operations : drafts' = [drafts EXCEPT ![b].ops = Append(@, op)]
             \/ drafts' = [drafts EXCEPT ![b] = Void]
    /\ UNCHANGED <<doc, answer>>

DropDrafts ==
    /\ answer = NoAnswer
    /\ drafts' = [b \in 1..Buffers |-> Empty]
    /\ UNCHANGED <<doc, answer>>

-----------------------------------------------------------------------------
\* What is recorded in all drafts, in the order of the drafts.
AllDrafts ==
    LET upto[b \in 0..Buffers] ==
            IF b = 0 THEN <<>> ELSE upto[b - 1] \o drafts[b].ops
    IN  upto[Buffers]

\* The entries that are not deleted.
Living(entries) ==
    LET among[n \in 0..Len(entries)] ==
            IF n = 0 THEN <<>>
            ELSE IF "Deleted" \in entries[n].flags THEN among[n - 1]
            ELSE Append(among[n - 1], entries[n])
    IN  among[Len(entries)]

Answer(d) == answer = NoAnswer /\ answer' = d /\ UNCHANGED <<doc, drafts>>

Commit ==
    /\ ~doc.refused /\ \A b \in 1..Buffers : ~drafts[b].void
    /\ Answer([doc EXCEPT !.sealed = TRUE, !.entries = Applied(@, AllDrafts)])

Compact ==
    /\ ~doc.refused
    /\ Answer([doc EXCEPT !.sealed = TRUE, !.entries = Living(@)])

AnswerRefused == Answer([doc EXCEPT !.refused = TRUE])

Adopt == answer # NoAnswer /\ doc' = answer /\ answer' = NoAnswer /\ UNCHANGED drafts

Drop ==
    /\ answer # NoAnswer /\ answer.refused
    /\ answer' = NoAnswer /\ UNCHANGED <<doc, drafts>>

Next == Extend \/ AddBlock \/ Seal \/ Refuse \/ Draft \/ DropDrafts
        \/ Commit \/ Compact \/ AnswerRefused \/ Adopt \/ Drop

Spec == Init /\ [][Next]_vars
=============================================================================
