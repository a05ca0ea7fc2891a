------------------------------ MODULE KvMirror ------------------------------
(***************************************************************************)
(* A paged and a contiguous cache of the same capacity, given the same     *)
(* calls: paged_cache.h promises that a reader cannot tell them apart.     *)
(* The contiguous cache is called when the paged one returns; it may       *)
(* refuse a call the other accepts, and then stays as it is.               *)
(***************************************************************************)
EXTENDS PagedKvCache

VARIABLES store, fill     \* the contiguous cache

Simple == INSTANCE SimpleKvCache WITH Capacity <- NumBlocks * BlockSize

mirrorVars == <<vars, store, fill>>
Keep == UNCHANGED <<store, fill>>

MirrorInit == Init /\ Simple!Init

\* append on the contiguous cache, or its refusal for lack of room.
SimpleAppend(l, n, v) ==
  \/ Simple!append(l, n, v)
  \/ fill[l] + n > NumBlocks * BlockSize /\ Keep

\* truncate on the contiguous cache, or its refusal of a length it does not have.
SimpleTruncate(n) ==
  \/ Simple!truncate(n)
  \/ n > Simple!length /\ Keep

\* A forward opened on layer 0, to success or failure.
MirrorOpen(c) ==
  \/ (\E n \in Batches, v \in Contents[c] : OpenForward(c, n, v)) /\ Keep
  \/ (TakeBlock(c) \/ Exhausted(c) \/ UndoOne(c)) /\ Keep
  \/ Grow(c) /\ SimpleAppend(0, call[c].count, call[c].value)
  \/ FailAppend(c) /\ SimpleAppend(0, call[c].count, call[c].value)

MirrorLayer(c) ==
  \E v \in Contents[c] :
    AppendLayer(c, v) /\ SimpleAppend(nextLayer[c], Len(pending[c]), v)

MirrorTruncate(c) ==
  \/ (\E n \in 0..numTokens[c] : BeginTruncate(c, n)) /\ Keep
  \/ TruncateOne(c) /\ Keep
  \/ EndTruncate(c) /\ SimpleTruncate(call[c].keep)

\* Destruction, and a fresh contiguous cache.
MirrorDrop(c) ==
  \/ (BeginDrop(c) \/ DropOne(c)) /\ Keep
  \/ EndDrop(c) /\ Simple!truncate(0)

MirrorNext ==
  \E c \in Caches : MirrorOpen(c) \/ MirrorLayer(c) \/ MirrorTruncate(c) \/ MirrorDrop(c)

MirrorSpec == MirrorInit /\ [][MirrorNext]_mirrorVars

\* Between any two calls, also in the middle of a forward and after appends that
\* found no room, view(l) of the paged cache is view(l) of the contiguous one,
\* and both report the same length between forwards.
MirrorsSimple ==
  \A c \in Caches : pc[c] = "idle" =>
    /\ \A l \in Layers : View(c, l) = Simple!view(l)
    /\ nextLayer[c] = 0 => numTokens[c] = Simple!length
=============================================================================
