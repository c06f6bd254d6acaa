---------------------------- MODULE MCLkObjects -----------------------------
EXTENDS LkObjects, TLC

CONSTANTS idle, root, a, b, mtx, sem, evt

MCThreads == {idle, root, a, b}

\* one thread above the others, so that a wake preempts
MCPriority0 == [t \in MCThreads |-> IF t = idle THEN 0 ELSE IF t = a THEN 2 ELSE 1]
=============================================================================
