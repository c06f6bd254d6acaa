----------------------------- MODULE MCLkThread -----------------------------
EXTENDS LkThread, TLC

CONSTANTS idle, root, a, b, q1

MCThreads == {idle, root, a, b}

\* two threads share a priority, so that order within a queue matters
MCPriority0 == [t \in MCThreads |-> IF t = idle THEN 0 ELSE IF t = a THEN 2 ELSE 1]
=============================================================================
