----------------------------- MODULE MCKvMirror -----------------------------
(* One paged and one contiguous cache of two layers, with forwards that can be *)
(* told apart.                                                                 *)
EXTENDS KvMirror

MCOneCache == {1}
MCBatches == {1, 3}
MCByForward == [c \in {1} |-> {1, 2}]
=============================================================================
