--------------------------- MODULE MCPriorityMutex ---------------------------
EXTENDS PriorityMutex, TLC

CONSTANTS t1, t2, t3, t4

MCThreads == {t1, t2, t3, t4}
=============================================================================
