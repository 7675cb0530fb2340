------------------------------ MODULE ReadLimits ------------------------------
(***************************************************************************)
(* The ceilings and the accounting of one bounded read operation: when a   *)
(* read is refused before the source is touched, what it is counted as,    *)
(* and what the answer of the source makes of the operation's state.       *)
(***************************************************************************)
EXTENDS Naturals

CONSTANTS Limits,        \* the ceilings an operation may be given; 0 is none
          Max32, Max64   \* UINT32_MAX, UINT64_MAX

ASSUME MaximaAssumption == Max32 \in Nat /\ Max64 \in Nat
ASSUME LimitsAssumption ==
    Limits \subseteq [requests : 0..Max32, total : 0..Max64, single : 0..Max64]

Refusals == {"RequestTooLarge", "RequestLimitExceeded", "ByteLimitExceeded"}
Failures == {"InvalidArgument", "OutOfRange", "ShortRead", "IoError", "SourceChanged",
             "Cancelled", "ContractViolation", "ScratchTooSmall"} \cup Refusals
Codes == Failures \cup {"Ok"}
ReadState == [code : Codes, requests : 0..Max32, requested : 0..Max64, completed : 0..Max64]
FreshState == [code |-> "Ok", requests |-> 0, requested |-> 0, completed |-> 0]

Fail(s, code) == IF s.code = "Ok" THEN [s EXCEPT !.code = code] ELSE s

\* Why the ceilings refuse to ask the source for n more bytes, or "Ok".
LimitRefusal_LateRequestCheck(s, l, n) ==                        \* mutant
    IF l.single # 0 /\ n > l.single THEN "RequestTooLarge"
    ELSE IF (l.requests # 0 /\ s.requests > l.requests) \/ s.requests = Max32
         THEN "RequestLimitExceeded"
    ELSE IF n > Max64 - s.requested \/ (l.total # 0 /\ s.requested + n > l.total)
         THEN "ByteLimitExceeded"
    ELSE "Ok"

LimitRefusal(s, l, n) ==
    IF l.single # 0 /\ n > l.single THEN "RequestTooLarge"
    ELSE IF (l.requests # 0 /\ s.requests >= l.requests) \/ s.requests = Max32
         THEN "RequestLimitExceeded"
    ELSE IF n > Max64 - s.requested \/ (l.total # 0 /\ s.requested + n > l.total)
         THEN "ByteLimitExceeded"
    ELSE "Ok"

Count(s, n) == [code |-> s.code, completed |-> s.completed,
                requests |-> (s.requests + 1) % (Max32 + 1),
                requested |-> (s.requested + n) % (Max64 + 1)]

\* The callback answered that it read this many of the n bytes.
Settle(s, n, io, read) ==
    IF io = "Unknown" \/ read > n THEN Fail(s, "ContractViolation")
    ELSE LET counted == [s EXCEPT !.completed = (@ + read) % (Max64 + 1)]
         IN  IF io # "Ok" THEN Fail(counted, io)
             ELSE IF read # n THEN Fail(counted, "ShortRead")
             ELSE counted
===============================================================================
