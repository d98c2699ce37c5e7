---------------------------- MODULE MCRmqPublish ----------------------------
\* Instances of RmqPublish for TLC.
EXTENDS RmqPublish, TLC

CONSTANTS p1, p2, c1, q1, q2

\* p1 uses pushCore on q1 and binds q2, p2 pushDelayMessageCore with delay
\* queue q2 and binds q1; the consumer reads q1.
Targets == [t \in Threads |-> IF t = p2 THEN q2 ELSE q1]
BoundQueues == [p \in Pushers |-> IF p = p2 THEN {q1} ELSE {q2}]

\* The instance is one of those that NobodyEverWaits is about.
ASSUME PoolsSuffice /\ DelayQueuesApart

Symmetry == Permutations(ConfirmSlots)
=============================================================================
