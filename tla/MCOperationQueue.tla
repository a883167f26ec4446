--------------------------- MODULE MCOperationQueue ---------------------------
(* Bounded requests of one priority against a small bound, a search        *)
(* request that can be cancelled, and changes that run under a shared gate. *)
EXTENDS OperationQueue

CONSTANTS poster1, poster2, search, change1, change2, runGate, none

MCBoundedOps == Ops \cap {poster1, poster2}
MCGates == {runGate}

MCPriorityOf ==
    [op \in Ops |-> IF op \in {change1, change2} THEN Now
                    ELSE IF op = search THEN Search ELSE Priority]

MCGateOf == [op \in Ops |-> IF op \in {change1, change2} THEN runGate ELSE none]
=============================================================================
