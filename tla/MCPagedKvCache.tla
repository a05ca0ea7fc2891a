--------------------------- MODULE MCPagedKvCache ---------------------------
(* Two caches of two layers on one pool of two blocks.  Three tokens need    *)
(* both blocks, so either cache can exhaust the pool half way through an     *)
(* append; one token needs one, so both hold a history at the same time.     *)
(* What a forward writes names the cache it belongs to, so the two caches    *)
(* can be exchanged.                                                         *)
EXTENDS PagedKvCache
CONSTANTS c1, c2
MCBatches == {1, 3}
MCByCache == [c \in {c1, c2} |-> {c}]
MCSymmetry == Permutations({c1, c2})
=============================================================================
