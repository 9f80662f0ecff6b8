---- MODULE MCTaskManager ----
EXTENDS TaskManager, TLC
CONSTANTS t1, t2, r1, r2
Same == [t \in Tasks |-> "a"]
Distinct == [t \in Tasks |-> t]
Symmetric == Permutations(Tasks) \cup Permutations(Requests)
====
