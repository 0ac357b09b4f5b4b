------------------------------- MODULE Store --------------------------------
(***************************************************************************)
(* What the cache service promises its clients, without batches, log files *)
(* or compaction: a map that may forget an entry but never answers with an *)
(* outdated one, over a record of the mutations that outlives the process. *)
(* An entry is a value with its expiry.                                    *)
(***************************************************************************)
EXTENDS Naturals

CONSTANTS Keys, Values, NoValue

None == <<NoValue, 0>>
Entry == (Values \X Nat) \cup {None}

VARIABLES
  up,      \* requests are served
  view,    \* what a read of each key returns
  kept,    \* what the record holds of each key
  owed,    \* what a client may find of each key after a crash: its last
           \* acknowledged mutation, those begun since, nothing once forgotten
  now

vars == <<up, view, kept, owed, now>>

Fresh(e, t) == IF e[2] # 0 /\ e[2] <= t THEN None ELSE e

Init ==
  /\ ~up
  /\ view = [k \in Keys |-> None]
  /\ kept \in [Keys -> Entry] /\ owed = [k \in Keys |-> {kept[k]}]
  /\ now \in Nat

\* A mutation is recorded.  It is not visible yet.
Record(k) ==
  /\ up /\ UNCHANGED <<up, now>>
  /\ kept'[k] \in Entry
  /\ owed' = [owed EXCEPT ![k] = @ \cup {kept'[k]}]
  /\ kept' = [kept EXCEPT ![k] = kept'[k]]
  /\ UNCHANGED view

\* It becomes visible, which may push out other entries.
Apply(k) ==
  /\ up
  /\ \E e \in owed[k] : view'[k] = Fresh(e, now)
  /\ \A j \in Keys \ {k} : view'[j] \in {view[j], None}
  /\ view' = [j \in Keys |-> view'[j]]
  /\ UNCHANGED <<up, kept, owed, now>>

\* Mutations are acknowledged, once they are recorded and visible: nothing
\* before them will be seen again.
Acknowledge(K) ==
  /\ up
  /\ \A k \in K : view[k] \in {Fresh(kept[k], now), None}
  /\ owed' = [k \in Keys |-> IF k \in K THEN {kept[k]} ELSE owed[k]]
  /\ UNCHANGED <<up, view, kept, now>>

\* The record is cut down to what is visible.
Forget(K) ==
  /\ up
  /\ \A k \in Keys : IF k \in K THEN view[k] = None ELSE view[k] = Fresh(kept[k], now)
  /\ kept' = [k \in Keys |-> IF k \in K THEN None ELSE kept[k]]
  /\ owed' = [k \in Keys |-> IF k \in K THEN owed[k] \cup {None} ELSE owed[k]]
  /\ UNCHANGED <<up, view, now>>

\* What was not acknowledged may be lost from the record, or not.
Crash ==
  /\ up' = FALSE
  /\ view' = [k \in Keys |-> None]
  /\ \A k \in Keys : kept'[k] \in owed[k]
  /\ kept' = [k \in Keys |-> kept'[k]]
  /\ UNCHANGED <<owed, now>>

Recover ==
  /\ ~up /\ up'
  /\ \A k \in Keys : view'[k] \in {Fresh(kept[k], now), None}
  /\ view' = [k \in Keys |-> view'[k]]
  /\ UNCHANGED <<kept, owed, now>>

Tick ==
  /\ now' = now + 1
  /\ view' = [k \in Keys |-> Fresh(view[k], now')]
  /\ UNCHANGED <<up, kept, owed>>

Next ==
  \/ Crash \/ Recover \/ Tick
  \/ \E k \in Keys : Record(k) \/ Apply(k)
  \/ \E K \in SUBSET Keys : Acknowledge(K) \/ Forget(K)

Spec == Init /\ [][Next]_vars
=============================================================================
