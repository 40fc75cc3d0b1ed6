------------------------- MODULE MCSeqCoordinator -------------------------
EXTENDS SeqCoordinator, TLC

CONSTANTS n1, n2, m1, m2

MCPriorities == <<n1, n2>>

\* The two nodes sequence different messages.
OwnMessages == seq'[n1].msg # m2 /\ seq'[n2].msg # m1
SafeSpec == Init /\ [][Next /\ OwnMessages]_vars

\* The behaviours in which a failure and an avoided lockout do not both happen.
FaultOrAvoid == faults' = 0 \/ \A n \in Nodes : avoid'[n] = 0
LiveSpec == Init /\ [][Next /\ FaultOrAvoid]_vars /\ Fairness
=============================================================================
