----------------------------- MODULE KvContract -----------------------------
(***************************************************************************)
(* What the KvCache interface promises the model that reads it: each cache *)
(* keeps, for each layer, exactly the K/V appended to that layer and not   *)
(* truncated since, in order.  No pool, no blocks, no other sequence.      *)
(* PagedKvCache is shown to implement it.                                  *)
(***************************************************************************)
EXTENDS Naturals, Sequences

CONSTANTS
  Caches,      \* the live caches
  NumLayers,   \* layers of the model
  Values,      \* K/V contents, one value standing for a token's K and V
  Batches      \* how many tokens a forward may append

VARIABLE
  history      \* history[c][l]: what view(l) of cache c returns

Layers == 0..(NumLayers - 1)

Init == history = [c \in Caches |-> [l \in Layers |-> <<>>]]

\* n tokens' K/V arrive for one layer.
AppendTo(c, l, n, v) ==
  history' = [history EXCEPT ![c][l] = @ \o [i \in 1..n |-> v]]

\* The tail is dropped from every layer; only what all layers have can be kept.
Truncate(c, n) ==
  /\ \A l \in Layers : n <= Len(history[c][l])
  /\ history' = [history EXCEPT ![c] = [l \in Layers |-> SubSeq(@[l], 1, n)]]

\* A step shows: one that leaves every view as it was is a stutter.
Next ==
  /\ history' # history
  /\ \E c \in Caches :
       \/ \E l \in Layers, n \in Batches, v \in Values : AppendTo(c, l, n, v)
       \/ \E n \in 0..Len(history[c][0]) : Truncate(c, n)

Spec == Init /\ [][Next]_history
=============================================================================
