---------------------------- MODULE MCRandomAccess ----------------------------
EXTENDS RandomAccess

\* No ceiling at all; few requests, a tight budget of bytes and small reads.
MCLimits == {[requests |-> 0, total |-> 0, single |-> 0],
             [requests |-> 2, total |-> 3, single |-> 2]}
\* A failure of the source, and an answer that breaks the contract.
MCIoAnswers == {"Ok", "IoError", "Unknown"}
MCMinimums == {0, 3}
=============================================================================
