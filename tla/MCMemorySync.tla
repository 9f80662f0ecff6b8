---- MODULE MCMemorySync ----
EXTENDS MemorySync
CONSTANTS t1
ThreeAttempts == [t \in Tasks |-> 3]
TwoCommits == [t \in Tasks |-> 2]
====
