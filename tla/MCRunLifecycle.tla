--------------------------- MODULE MCRunLifecycle ---------------------------
\* Instances of RunLifecycle for TLC.
EXTENDS RunLifecycleProps, TLC

\* Workers and requests are interchangeable (with no CLI among the workers).
Symmetry == Permutations(Workers) \cup Permutations(Requests)

\* Two requests, or faults beside one: what follows both is not explored.
RequestsOrFaults == faults = 0 \/ \E q \in Requests : request[q].pc = "new"

AllKinds == RequestKinds
OneDeep == [r \in {1} |-> "deep"]
OneStandard == [r \in {1} |-> "standard"]
OneUrgency == [r \in {1} |-> 2]
DeepAndStandard == [r \in {1, 2} |-> IF r = 1 THEN "deep" ELSE "standard"]
TwoUrgency == [r \in {1, 2} |-> 3 - r]
=============================================================================
