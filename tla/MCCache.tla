------------------------------ MODULE MCCache -------------------------------
(* Three keys compete for two places in shard 0, two for one in shard 1;    *)
(* values of two sizes make shard 0 evict by bytes as well as by count.     *)
EXTENDS CacheMachine

MCHash == [k \in Keys |-> IF k \in {"d", "e"} THEN 1 ELSE 2]
MCKeyBytes == [k \in Keys |-> 1]
MCValueBytes == [v \in Values |-> IF v = "big" THEN 3 ELSE 1]
=============================================================================
