------------------------- MODULE StorageRefinement --------------------------
(* The service of Storage keeps the promise of Store.                      *)
EXTENDS Storage

Serving == phase \notin {"down", "replay"}

AsEntry(m) == <<m.value, m.expires>>

View ==
  [k \in Keys |->
     LET hit == {e \in Resident : e.key = k}
     IN  IF hit = {} \/ ~Serving THEN <<NoValue, 0>>
         ELSE AsEntry(CHOOSE e \in hit : TRUE)]

Kept == [k \in Keys |-> AsEntry(Newest(file.recs, k))]

Promise ==
  INSTANCE Store WITH up <- Serving, view <- View, kept <- Kept,
                      owed <- [k \in Keys |-> {AsEntry(m) : m \in owed[k]}]

\* Batching, logging, compaction, crashes and recovery are steps of the map a
\* client sees: it never answers with anything but the newest mutation of a key
\* it acknowledged or one begun since, also after any number of restarts.
KeepsPromise == Promise!Spec
=============================================================================
