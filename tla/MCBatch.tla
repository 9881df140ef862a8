------------------------------ MODULE MCBatch ------------------------------
EXTENDS Batch

MCUsers == {1, 2}
MCStart == [u \in MCUsers |-> IF u = 1 THEN 3 ELSE 2]
MCIds == 1..2
Base == [enabled |-> TRUE, autoExecute |-> TRUE, mode |-> "excess", value |-> 0, reserve |-> 1, min |-> 2,
         minPerUser |-> 1, maxPerUser |-> 0, cap |-> 2, threshold |-> 50]
MCPolicies == {Base, [Base EXCEPT !.mode = "percent", !.value = 50, !.threshold = 100, !.autoExecute = FALSE]}
=============================================================================
