----------------------------- MODULE SnapshotRead -----------------------------
(***************************************************************************)
(* The phases of read_transfer_source_snapshot_random_access_common() and  *)
(* how they share one budget of requests and bytes.  A scanner or decoder  *)
(* is an operation of its own: it starts with a fresh read state and with  *)
(* what is left of its caller's ceilings, may start operations in turn,    *)
(* and has its accounting merged into its caller's when it returns.  What  *)
(* is read, and what is made of it, is left open.                          *)
(***************************************************************************)
EXTENDS ReadLimits, Sequences, SequencesExt

CONSTANTS Kinds,         \* the kinds of format that are read, see KindsAssumption
          MaxDepth,      \* operations nested in one another: bound of the model
          MaxBlocks,     \* blocks a scan may find: bound of the model
          MaxSize,       \* bytes of one read: bound of the model
          MaxAsked       \* requests of one snapshot: bound of the model

\* native: TIFF, EXR, CRW, MRW; embedded: RAF and X3F with their embedded
\* containers; container: every other format.
ASSUME KindsAssumption == Kinds \subseteq {"native", "embedded", "container"}
ASSUME BoundsAssumption == /\ MaxDepth \in Nat /\ MaxBlocks \in Nat
                           /\ MaxSize \in Nat /\ MaxAsked \in Nat

VARIABLES kind,
          phase,      \* where the snapshot is
          ops,        \* the operations under way, the snapshot's own first
          blocks,     \* blocks still to be decoded
          asked,      \* what the source was really asked for, in all
          fault       \* the first failure of any operation, or "Ok"

vars == <<kind, phase, ops, blocks, asked, fault>>

Phases == {"start", "native", "scan", "blocks", "payload", "complete", "failed"}
Operation == [limits : [requests : 0..Max32, total : 0..Max64, single : 0..Max64],
              state : ReadState]

Init == /\ kind \in Kinds
        /\ phase = "start"
        /\ \E l \in Limits : ops = <<[limits |-> l, state |-> FreshState]>>
        /\ blocks = 0
        /\ asked = [requests |-> 0, bytes |-> 0]
        /\ fault = "Ok"

Current == Last(ops)
Note(code) == fault' = IF fault = "Ok" THEN code ELSE fault
Least(a, b) == IF a <= b THEN a ELSE b

-----------------------------------------------------------------------------
\* remaining_random_access_limits(), remaining_scan_limits()
Remaining_RequestsOnly(l, s) ==                                  \* mutant
    [l EXCEPT !.requests = IF @ > s.requests THEN @ - s.requests ELSE 0]

Remaining(l, s) ==
    [l EXCEPT !.requests = IF @ > s.requests THEN @ - s.requests ELSE 0,
              !.total = IF @ > s.requested THEN @ - s.requested ELSE 0]

\* require_random_access_budget(), require_scan_budget(): "Ok" or the ceiling
\* that the next operation would meet at once.
BudgetRefusal(op, minimum) ==
    IF op.limits.requests # 0 /\ op.state.requests >= op.limits.requests
    THEN "RequestLimitExceeded"
    ELSE IF op.limits.total # 0 /\ op.state.requested + minimum > op.limits.total
    THEN "ByteLimitExceeded"
    ELSE "Ok"

\* merge_random_access_state(), merge_scan_input(): saturating sums, first failure kept.
Merge_NoSaturation(out, in) ==                                   \* mutant
    [code |-> IF out.code = "Ok" THEN in.code ELSE out.code,
     requests |-> out.requests + in.requests,
     requested |-> out.requested + in.requested,
     completed |-> out.completed + in.completed]

Merge_LosesFailure(out, in) ==                                   \* mutant
    [code |-> out.code,
     requests |-> Least(Max32, out.requests + in.requests),
     requested |-> Least(Max64, out.requested + in.requested),
     completed |-> Least(Max64, out.completed + in.completed)]

Merge_Forgets(out, in) ==                                        \* mutant
    [code |-> IF out.code = "Ok" THEN in.code ELSE out.code,
     requests |-> Least(Max32, out.requests + in.requests),
     requested |-> in.requested,
     completed |-> Least(Max64, out.completed + in.completed)]

Merge(out, in) ==
    [code |-> IF out.code = "Ok" THEN in.code ELSE out.code,
     requests |-> Least(Max32, out.requests + in.requests),
     requested |-> Least(Max64, out.requested + in.requested),
     completed |-> Least(Max64, out.completed + in.completed)]

\* merge_nested_source_input(): sums that do not fit are a violated contract.
MergeStrict(out, in) ==
    IF \/ in.requests > Max32 - out.requests
       \/ in.requested > Max64 - out.requested
       \/ in.completed > Max64 - out.completed
    THEN [out EXCEPT !.code = "ContractViolation"]
    ELSE Merge(out, in)

Start(op) == ops' = Append(ops, [limits |-> Remaining(op.limits, op.state),
                                 state |-> FreshState])

\* The operations below the last one, after its state s is merged into its caller's.
Finished(s) == LET rest == Front(ops)
               IN  [rest EXCEPT ![Len(rest)].state = s]

-----------------------------------------------------------------------------
\* The current operation reads n bytes: a scanner, a decoder, a payload, or the
\* snapshot itself for the boxes a CR3 offset table names.
Read(n) ==
    /\ \/ phase \in {"native", "scan", "payload"}
       \/ phase = "blocks" /\ blocks > 0 /\ kind = "container"
    /\ Current.state.code = "Ok"
    /\ asked.requests < MaxAsked
    /\ LET s == Current.state
           refusal == LimitRefusal(s, Current.limits, n)
       IN  \/ /\ refusal # "Ok"
              /\ ops' = [ops EXCEPT ![Len(ops)].state = Fail(s, refusal)]
              /\ Note(refusal) /\ UNCHANGED asked
           \/ /\ refusal = "Ok"
              /\ \E io \in {"Ok", "IoError"}, read \in {0, n} :
                    ops' = [ops EXCEPT ![Len(ops)].state = Settle(Count(s, n), n, io, read)]
              /\ Note(ops'[Len(ops)].state.code)
              /\ asked' = [requests |-> asked.requests + 1, bytes |-> asked.bytes + n]
    /\ UNCHANGED <<kind, phase, blocks>>

\* An embedded TIFF of a decoder, a preview of a scanner: an operation within.
Nest ==
    /\ phase \in {"native", "scan"} /\ Len(ops) \in 2..MaxDepth - 1
    /\ Current.state.code = "Ok"
    /\ LET refusal == BudgetRefusal(Current, 1)
       IN  \/ refusal = "Ok" /\ Start(Current) /\ UNCHANGED fault
           \/ /\ refusal # "Ok"
              /\ ops' = [ops EXCEPT ![Len(ops)].state = Fail(@, refusal)]
              /\ Note(refusal)
    /\ UNCHANGED <<kind, phase, blocks, asked>>

EndNested ==
    /\ phase \in {"native", "scan"} /\ Len(ops) > 2
    /\ LET out == ops[Len(ops) - 1].state
           merged == IF phase = "scan" THEN Merge(out, Current.state)
                     ELSE MergeStrict(out, Current.state)
       IN  ops' = Finished(merged) /\ Note(merged.code)
    /\ UNCHANGED <<kind, phase, blocks, asked>>

\* A phase returns to the snapshot, which goes on, fails or refuses what was read.
EndPhase(p, next) ==
    /\ phase = p /\ Len(ops) = 2
    /\ LET merged == Merge(ops[1].state, ops[2].state)
       IN  /\ ops' = Finished(merged)
           /\ \/ merged.code = "Ok" /\ phase' = next
              \/ phase' = "failed"
    /\ UNCHANGED <<kind, asked, fault>>

-----------------------------------------------------------------------------
\* The native decoder first, or the scanner.
Begin ==
    /\ phase = "start"
    /\ phase' = IF kind = "container" THEN "scan" ELSE "native"
    /\ Start(ops[1])
    /\ UNCHANGED <<kind, blocks, asked, fault>>

EndNative == kind = "native" /\ EndPhase("native", "complete") /\ UNCHANGED blocks

\* RAF and X3F go on to scan, whatever is left of the budget.
EndNativeAndScan ==
    /\ kind = "embedded" /\ phase = "native" /\ Len(ops) = 2
    /\ LET merged == Merge(ops[1].state, ops[2].state)
           own == [ops[1] EXCEPT !.state = merged]
       IN  \/ /\ merged.code = "Ok" /\ phase' = "scan"
              /\ ops' = <<own, [limits |-> Remaining(own.limits, merged), state |-> FreshState]>>
           \/ phase' = "failed" /\ ops' = <<own>>
    /\ UNCHANGED <<kind, blocks, asked, fault>>

EndScan == EndPhase("scan", "blocks") /\ blocks' \in 0..MaxBlocks

\* A payload, a text prefix or a raw carrier of at least this many bytes.
Block(minimum) ==
    /\ phase = "blocks" /\ blocks > 0 /\ ops[1].state.code = "Ok"
    /\ LET refusal == BudgetRefusal(ops[1], minimum)
       IN  \/ refusal = "Ok" /\ Start(ops[1]) /\ phase' = "payload" /\ UNCHANGED fault
           \/ /\ refusal # "Ok" /\ phase' = "failed"
              /\ ops' = <<[ops[1] EXCEPT !.state = Fail(@, refusal)]>>
              /\ Note(refusal)
    /\ UNCHANGED <<kind, blocks, asked>>

\* A block is read in one operation or, as with the prefix of a text, several.
EndPayload == EndPhase("payload", "blocks") /\ blocks' \in {blocks, blocks - 1}

Complete ==
    /\ phase = "blocks"
    /\ \/ ops[1].state.code # "Ok" /\ phase' = "failed"
       \/ ops[1].state.code = "Ok" /\ blocks = 0 /\ phase' = "complete"
    /\ UNCHANGED <<kind, ops, blocks, asked, fault>>

Next == \/ Begin \/ Nest \/ EndNested \/ EndNative \/ EndNativeAndScan
        \/ EndScan \/ EndPayload \/ Complete
        \/ \E n \in 1..MaxSize : Read(n) \/ Block(n)

Spec == Init /\ [][Next]_vars

-----------------------------------------------------------------------------
TypeOK == /\ kind \in Kinds /\ phase \in Phases
          /\ Len(ops) \in 1..MaxDepth /\ \A i \in DOMAIN ops : ops[i] \in Operation
          /\ blocks \in 0..MaxBlocks
          /\ asked \in [requests : Nat, bytes : Nat]
          /\ fault \in Codes

WithinCeilings == LET l == ops[1].limits
                  IN  /\ l.requests # 0 => asked.requests <= l.requests
                      /\ l.total # 0 => asked.bytes <= l.total

\* The ceilings of a snapshot are cumulative: all its phases, payloads and
\* operations nested in them together never ask for more.
CeilingsAreCumulative == WithinCeilings

\* The same, of every format but RAF and X3F.
CeilingsAreCumulativeElsewhere == kind # "embedded" => WithinCeilings

\* A snapshot that is complete had no read that failed and no budget refused in
\* any operation, and one whose own state failed answers the first failure, or
\* that a nested operation's accounting did not fit its caller's.
FailuresAreReported ==
    /\ phase = "complete" => fault = "Ok"
    /\ ops[1].state.code # "Ok" => ops[1].state.code \in {fault, "ContractViolation"}

\* The result's accounting is of everything the source was asked for, however
\* deeply nested the operation that asked.
NothingGoesUncounted ==
    phase \in {"complete", "failed"} =>
        \/ ops[1].state.code = "ContractViolation"
        \/ /\ ops[1].state.requests = Least(Max32, asked.requests)
           /\ ops[1].state.requested = Least(Max64, asked.bytes)
=============================================================================
