---------------------------- MODULE PagedKvCache ----------------------------
(***************************************************************************)
(* The paged KV cache: a pool of blocks behind a mutex (BlockPool), one    *)
(* block table per sequence (BlockTable) and the per-forward layer         *)
(* protocol on top (PagedKvCache).  Each cache is driven by one thread;    *)
(* caches of different threads meet only in the pool, whose lock is taken  *)
(* and dropped for every single block, so appends, truncations and         *)
(* destructions of several caches interleave block by block.               *)
(*                                                                         *)
(* Data abstraction: a token's K and V in one layer are one value.         *)
(* Malformed arguments (shapes, dtypes, layer out of range or out of       *)
(* order) are rejected before anything changes and are not steps.  The     *)
(* statistics peak_used_ and exhaustions_ are left out.                    *)
(***************************************************************************)
EXTENDS Integers, Sequences, FiniteSets, SequencesExt

CONSTANTS
  Caches,        \* the sequences' caches
  NumLayers, BlockSize, NumBlocks,
  Contents,      \* Contents[c]: the K/V contents c's forwards may produce
  Batches,       \* tokens one forward may append
  Shareable,     \* blocks others may hold references on (Share),
  MaxShares,     \* and how many on each
  AnyRollback    \* TRUE: callers may cut a half-done forward to any length up
                 \* to length(); FALSE: to at most its length before it began,
                 \* the one cut the runtime makes

ASSUME PagedKvCacheAssumption ==
  /\ NumLayers \in Nat \ {0} /\ BlockSize \in Nat \ {0} /\ NumBlocks \in Nat \ {0}
  /\ Batches \in SUBSET (Nat \ {0})
  /\ MaxShares \in Nat /\ AnyRollback \in BOOLEAN

Layers == 0..(NumLayers - 1)
Blocks == 0..(NumBlocks - 1)
Slots  == 0..(NumBlocks * BlockSize - 1)
Zero   == 0      \* the slabs are zero-filled at Create
Values == UNION {Contents[c] : c \in Caches}

VARIABLES
  \* BlockPool, under its mutex
  refcount, freeList, used,
  slab,          \* slab[l][s]: layer l's K and V at flat slot s
  shares,        \* references held through Share, by block
  \* per cache, touched only by its own thread
  pc,            \* "idle", "alloc", "undo", "truncate" or "drop"
  blocks,        \* blocks_
  numTokens,     \* num_tokens_
  pending,       \* pending_slots_
  nextLayer,     \* next_layer_
  fresh,         \* AppendTokens' scratch vector
  call           \* argument of the call in progress: tokens, contents, length

poolVars  == <<refcount, freeList, used>>
tableVars == <<blocks, numTokens, pending, nextLayer>>
vars == <<poolVars, slab, shares, pc, tableVars, fresh, call>>

BlocksFor(n) == (n + BlockSize - 1) \div BlockSize
BlocksNeeded(cur, add) == BlocksFor(cur + add) - BlocksFor(cur)

NoCall == [count |-> 0, value |-> Zero, keep |-> 0]

\* The first Allocate pops block 0.
Init ==
  /\ refcount = [b \in Blocks |-> 0]
  /\ freeList = [i \in 1..NumBlocks |-> NumBlocks - i]
  /\ used = 0
  /\ slab = [l \in Layers |-> [s \in Slots |-> Zero]]
  /\ shares = [b \in Blocks |-> 0]
  /\ pc = [c \in Caches |-> "idle"]
  /\ blocks = [c \in Caches |-> <<>>]
  /\ numTokens = [c \in Caches |-> 0]
  /\ pending = [c \in Caches |-> <<>>]
  /\ nextLayer = [c \in Caches |-> 0]
  /\ fresh = [c \in Caches |-> <<>>]
  /\ call = [c \in Caches |-> NoCall]
----------------------------------------------------------------------------
(* BlockPool.  Each is one critical section. *)

\* Pop a block off the free list.
Allocate(b) ==
  /\ freeList # <<>>
  /\ b = Last(freeList)
  /\ freeList' = Front(freeList)
  /\ refcount' = [refcount EXCEPT ![b] = 1]
  /\ used' = used + 1

\* Mutant: the block goes back to the list although others still refer to it.
ReleaseAlways(b) ==
  /\ refcount' = [refcount EXCEPT ![b] = @ - 1]
  /\ freeList' = Append(freeList, b)
  /\ used' = used - 1

\* Drop one reference; the last one puts the block back.
Release(b) ==
  /\ refcount' = [refcount EXCEPT ![b] = @ - 1]
  /\ IF refcount[b] = 1
     THEN freeList' = Append(freeList, b) /\ used' = used - 1
     ELSE UNCHANGED <<freeList, used>>

Share(b) ==
  /\ refcount[b] > 0
  /\ b \in Shareable /\ shares[b] < MaxShares
  /\ refcount' = [refcount EXCEPT ![b] = @ + 1]
  /\ shares' = [shares EXCEPT ![b] = @ + 1]
  /\ UNCHANGED <<freeList, used, slab, pc, tableVars, fresh, call>>

Unshare(b) ==
  /\ shares[b] > 0
  /\ Release(b)
  /\ shares' = [shares EXCEPT ![b] = @ - 1]
  /\ UNCHANGED <<slab, pc, tableVars, fresh, call>>
----------------------------------------------------------------------------
(* append: layer 0 grows the table and fixes the slots of this forward, the *)
(* other layers write to the same slots.                                    *)

\* The flat slot of position p (counted from 0) in a block list.
SlotOf(bs, p) == bs[p \div BlockSize + 1] * BlockSize + (p % BlockSize)

\* Write v to the given slots of layer l.
Scatter(l, slots, v) ==
  slab' = [slab EXCEPT ![l] = [s \in Slots |-> IF s \in ToSet(slots) THEN v ELSE @[s]]]

OpenForward(c, n, v) ==
  /\ pc[c] = "idle"
  /\ nextLayer[c] = 0
  /\ pc' = [pc EXCEPT ![c] = "alloc"]
  /\ call' = [call EXCEPT ![c] = [count |-> n, value |-> v, keep |-> 0]]
  /\ UNCHANGED <<poolVars, slab, shares, tableVars, fresh>>

\* Blocks the append in progress still has to take.
StillNeeds(c) == BlocksNeeded(numTokens[c], call[c].count) - Len(fresh[c])

TakeBlock(c) ==
  /\ pc[c] = "alloc"
  /\ StillNeeds(c) > 0
  /\ \E b \in Blocks :
       /\ Allocate(b)
       /\ fresh' = [fresh EXCEPT ![c] = Append(@, b)]
  /\ UNCHANGED <<slab, shares, pc, tableVars, call>>

\* The pool is dry: what was taken goes back, in the order it was taken, and
\* the append fails with the table as it was.
Exhausted(c) ==
  /\ pc[c] = "alloc"
  /\ StillNeeds(c) > 0
  /\ freeList = <<>>
  /\ pc' = [pc EXCEPT ![c] = "undo"]
  /\ UNCHANGED <<poolVars, slab, shares, tableVars, fresh, call>>

UndoOne(c) ==
  /\ pc[c] = "undo"
  /\ fresh[c] # <<>>
  /\ Release(Head(fresh[c]))
  /\ fresh' = [fresh EXCEPT ![c] = Tail(@)]
  /\ UNCHANGED <<slab, shares, pc, tableVars, call>>

\* Mutant: the blocks taken so far are forgotten, not given back.
FailKeepsBlocks(c) ==
  /\ pc[c] = "undo"
  /\ fresh' = [fresh EXCEPT ![c] = <<>>]
  /\ pending' = [pending EXCEPT ![c] = <<>>]
  /\ pc' = [pc EXCEPT ![c] = "idle"]
  /\ call' = [call EXCEPT ![c] = NoCall]
  /\ UNCHANGED <<poolVars, slab, shares, blocks, numTokens, nextLayer>>

FailAppend(c) ==
  /\ pc[c] = "undo"
  /\ fresh[c] = <<>>
  /\ pending' = [pending EXCEPT ![c] = <<>>]
  /\ pc' = [pc EXCEPT ![c] = "idle"]
  /\ call' = [call EXCEPT ![c] = NoCall]
  /\ UNCHANGED <<poolVars, slab, shares, blocks, numTokens, nextLayer, fresh>>

\* All blocks are there: commit them, map the new positions, write layer 0.
Grow(c) ==
  /\ pc[c] = "alloc"
  /\ StillNeeds(c) = 0
  /\ LET bs == blocks[c] \o fresh[c]
         n  == call[c].count
         slots == [i \in 1..n |-> SlotOf(bs, numTokens[c] + i - 1)]
     IN /\ blocks' = [blocks EXCEPT ![c] = bs]
        /\ numTokens' = [numTokens EXCEPT ![c] = @ + n]
        /\ pending' = [pending EXCEPT ![c] = slots]
        /\ Scatter(0, slots, call[c].value)
  /\ nextLayer' = [nextLayer EXCEPT ![c] = 1 % NumLayers]
  /\ fresh' = [fresh EXCEPT ![c] = <<>>]
  /\ pc' = [pc EXCEPT ![c] = "idle"]
  /\ call' = [call EXCEPT ![c] = NoCall]
  /\ UNCHANGED <<poolVars, shares>>

\* Layer 1 and up: the same number of tokens, to the slots layer 0 fixed.
AppendLayer(c, v) ==
  /\ pc[c] = "idle"
  /\ nextLayer[c] # 0
  /\ Scatter(nextLayer[c], pending[c], v)
  /\ nextLayer' = [nextLayer EXCEPT ![c] = (@ + 1) % NumLayers]
  /\ UNCHANGED <<poolVars, shares, pc, blocks, numTokens, pending, fresh, call>>
----------------------------------------------------------------------------
(* truncate and destruction. *)

\* Tokens of a forward that not every layer has written yet.
InFlight(c) == IF nextLayer[c] = 0 THEN 0 ELSE Len(pending[c])

BeginTruncate(c, n) ==
  /\ pc[c] = "idle"
  /\ n <= numTokens[c]
  /\ AnyRollback \/ n <= numTokens[c] - InFlight(c)
  /\ pc' = [pc EXCEPT ![c] = "truncate"]
  /\ call' = [call EXCEPT ![c] = [count |-> 0, value |-> Zero, keep |-> n]]
  /\ UNCHANGED <<poolVars, slab, shares, tableVars, fresh>>

\* Give back the last block while there are more than the kept tokens fill.
TruncateOne(c) ==
  /\ pc[c] = "truncate"
  /\ Len(blocks[c]) > BlocksFor(call[c].keep)
  /\ Release(Last(blocks[c]))
  /\ blocks' = [blocks EXCEPT ![c] = Front(@)]
  /\ UNCHANGED <<slab, shares, pc, numTokens, pending, nextLayer, fresh, call>>

EndTruncate(c) ==
  /\ pc[c] = "truncate"
  /\ Len(blocks[c]) <= BlocksFor(call[c].keep)
  /\ numTokens' = [numTokens EXCEPT ![c] = call[c].keep]
  /\ pending' = [pending EXCEPT ![c] = <<>>]
  /\ nextLayer' = [nextLayer EXCEPT ![c] = 0]
  /\ pc' = [pc EXCEPT ![c] = "idle"]
  /\ call' = [call EXCEPT ![c] = NoCall]
  /\ UNCHANGED <<poolVars, slab, shares, blocks, fresh>>

\* The cache is destroyed (a sequence retired or preempted), first block first;
\* a new, empty one takes its place.
BeginDrop(c) ==
  /\ pc[c] = "idle"
  /\ pc' = [pc EXCEPT ![c] = "drop"]
  /\ UNCHANGED <<poolVars, slab, shares, tableVars, fresh, call>>

DropOne(c) ==
  /\ pc[c] = "drop"
  /\ blocks[c] # <<>>
  /\ Release(Head(blocks[c]))
  /\ blocks' = [blocks EXCEPT ![c] = Tail(@)]
  /\ UNCHANGED <<slab, shares, pc, numTokens, pending, nextLayer, fresh, call>>

EndDrop(c) ==
  /\ pc[c] = "drop"
  /\ blocks[c] = <<>>
  /\ numTokens' = [numTokens EXCEPT ![c] = 0]
  /\ pending' = [pending EXCEPT ![c] = <<>>]
  /\ nextLayer' = [nextLayer EXCEPT ![c] = 0]
  /\ pc' = [pc EXCEPT ![c] = "idle"]
  /\ UNCHANGED <<poolVars, slab, shares, blocks, fresh, call>>
----------------------------------------------------------------------------
\* One step of the thread that drives c.
CacheThread(c) ==
  \/ TakeBlock(c) \/ Exhausted(c) \/ UndoOne(c) \/ FailAppend(c) \/ Grow(c)
  \/ TruncateOne(c) \/ EndTruncate(c) \/ DropOne(c) \/ EndDrop(c)

Next ==
  \/ \E c \in Caches :
       \/ \E n \in Batches, v \in Contents[c] : OpenForward(c, n, v)
       \/ \E v \in Contents[c] : AppendLayer(c, v)
       \/ \E n \in 0..numTokens[c] : BeginTruncate(c, n)
       \/ BeginDrop(c)
       \/ CacheThread(c)
  \/ \E b \in Blocks : Share(b) \/ Unshare(b)

Spec == Init /\ [][Next]_vars
----------------------------------------------------------------------------
\* Mutant: the tokens of the forward in progress count for every layer.
VisibleIgnoresLayer(c, l) ==
  IF pc[c] = "drop" THEN 0 ELSE IF pc[c] = "truncate" THEN call[c].keep ELSE numTokens[c]

\* Tokens view(l) shows: a layer that has not written this forward's tokens
\* shows those before them.  A truncation or destruction in progress counts as
\* done: nobody else reads the cache meanwhile.
Visible(c, l) ==
  CASE pc[c] = "drop"     -> 0
    [] pc[c] = "truncate" -> call[c].keep
    [] OTHER -> IF nextLayer[c] = 0 \/ l < nextLayer[c] THEN numTokens[c]
                ELSE numTokens[c] - Len(pending[c])

\* view(l): gather the visible tokens through the block table.
View(c, l) == [i \in 1..Visible(c, l) |-> slab[l][SlotOf(blocks[c], i - 1)]]

TypeOK ==
  /\ refcount \in [Blocks -> Nat]
  /\ freeList \in Seq(Blocks) /\ used \in 0..NumBlocks
  /\ slab \in [Layers -> [Slots -> Values \cup {Zero}]]
  /\ shares \in [Blocks -> 0..MaxShares]
  /\ pc \in [Caches -> {"idle", "alloc", "undo", "truncate", "drop"}]
  /\ blocks \in [Caches -> Seq(Blocks)] /\ fresh \in [Caches -> Seq(Blocks)]
  /\ numTokens \in [Caches -> Nat]
  /\ pending \in [Caches -> Seq(Slots)]
  /\ nextLayer \in [Caches -> Layers]

\* Where b is in the caches' block lists: pairs of a cache and a position.
Places(b, lists) ==
  {p \in Caches \X (1..NumBlocks) :
     p[2] <= Len(lists[p[1]]) /\ lists[p[1]][p[2]] = b}

\* Places that own a reference to b: block tables, appends in progress, Share.
Owners(b) ==
  Cardinality(Places(b, blocks)) + Cardinality(Places(b, fresh)) + shares[b]

\* A table at rest holds as many blocks as its tokens fill, the number the
\* scheduler charges it.
BlocksMatchTokens ==
  \A c \in Caches : pc[c] \in {"idle", "alloc", "undo"} =>
    Len(blocks[c]) = BlocksFor(numTokens[c])

\* Every reference is counted, also between two blocks of an append, a roll
\* back, a truncation or a destruction, and the free list holds exactly the
\* blocks nobody refers to: no block leaks, none is handed out twice.  The table
\* of a cache at rest holds the blocks its tokens fill, a partly filled one too.
PoolExact ==
  /\ TypeOK /\ BlocksMatchTokens
  /\ \A b \in Blocks : refcount[b] = Owners(b)
  /\ \A b \in Blocks : refcount[b] = 0 <=> b \in ToSet(freeList)
  /\ Len(freeList) = NumBlocks - used
  /\ IsInjective(freeList)

\* No block is in two tables, or twice in one: a write through one cache can
\* never land in another's history.
NoAliasing ==
  \A c, d \in Caches : \A i \in DOMAIN blocks[c], j \in DOMAIN blocks[d] :
    blocks[c][i] = blocks[d][j] => c = d /\ i = j

\* view(l) of every cache keeps the interface's promise, whatever the other
\* caches and earlier owners of its blocks did: exactly what was appended to
\* that layer, never a stale byte, all or nothing on exhaustion.
Contract == INSTANCE KvContract
  WITH history <- [c \in Caches |-> [l \in Layers |-> View(c, l)]]
ImplementsContract == Contract!Spec
=============================================================================
