--------------------------- MODULE SimpleKvCache ---------------------------
(***************************************************************************)
(* The contiguous cache: per layer a store of Capacity slots and a fill    *)
(* count.  Nothing is erased: truncate only moves the fill back, so what   *)
(* lies beyond it is stale.  Callers may append to the layers in any order *)
(* and leave a forward half done, which the code does not forbid.          *)
(* KvMirror drives it side by side with the paged cache.                   *)
(***************************************************************************)
EXTENDS Naturals, Sequences, FiniteSetsExt

CONSTANTS NumLayers, Capacity, Values, Batches

Layers == 0..(NumLayers - 1)
Zero == 0      \* the stores are zero-filled at Create

VARIABLES
  store,       \* store[l][p]: k_store_ and v_store_
  fill         \* fill_

vars == <<store, fill>>

Init ==
  /\ store = [l \in Layers |-> [p \in 1..Capacity |-> Zero]]
  /\ fill = [l \in Layers |-> 0]

length == Min({fill[l] : l \in Layers})

append(l, n, v) ==
  /\ fill[l] + n <= Capacity
  /\ store' = [store EXCEPT ![l] =
       [p \in 1..Capacity |-> IF p \in (fill[l] + 1)..(fill[l] + n) THEN v ELSE @[p]]]
  /\ fill' = [fill EXCEPT ![l] = @ + n]

truncate(n) ==
  /\ n <= length
  /\ fill' = [l \in Layers |-> n]
  /\ UNCHANGED store

view(l) == SubSeq(store[l], 1, fill[l])

Next ==
  \/ \E l \in Layers, n \in Batches, v \in Values : append(l, n, v)
  \/ \E n \in 0..Capacity : truncate(n)

Spec == Init /\ [][Next]_vars
=============================================================================
