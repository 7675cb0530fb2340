---------------------------- MODULE MCSnapshotRead ----------------------------
EXTENDS SnapshotRead

\* No ceiling; one of each kind; and both together with small reads.
MCLimits == {[requests |-> 0, total |-> 0, single |-> 0],
             [requests |-> 2, total |-> 0, single |-> 0],
             [requests |-> 0, total |-> 3, single |-> 0],
             [requests |-> 3, total |-> 4, single |-> 1]}
=============================================================================
