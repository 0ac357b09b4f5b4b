----------------------------- MODULE MCHelpers ------------------------------
(* The two blocking helpers the library offers its callers, which share     *)
(* nothing: a behaviour is one of the executor or one of the pool.          *)
EXTENDS Executor, ConnectionPool

ASSUME HelpersAssumption == ExecutorAssumption /\ PoolAssumption

VARIABLE which

HelpersInit == which \in {"executor", "pool"} /\ Init /\ PoolInit

HelpersNext ==
  \/ which = "executor" /\ Next /\ UNCHANGED <<which, poolVars>>
  \/ which = "pool" /\ PoolNext /\ UNCHANGED <<which, vars>>

HelpersSpec ==
  /\ HelpersInit /\ [][HelpersNext]_<<which, vars, poolVars>>
  /\ which = "executor" => Fairness
=============================================================================
