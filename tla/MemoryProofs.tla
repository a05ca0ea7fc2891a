---------------------------- MODULE MemoryProofs ----------------------------
(***************************************************************************)
(* Proofs about the two stores of blocks.                                  *)
(*                                                                         *)
(* The paged KV cache, for any pool, any number of caches and any          *)
(* interleaving of their appends, truncations and destructions, block by   *)
(* block: every reference is counted, no block has two owners (IInv), and  *)
(* each layer of a cache shows what was appended to it (ViewInv).  That a  *)
(* layer shows its own values needs more than tables: a write must not     *)
(* reach a slot another view reads.  Slots are unique (SlotUnique), a      *)
(* block has one owner, and in one table positions and slots correspond    *)
(* (SlotsDiffer), so a write changes one layer of one cache (WriteViews).  *)
(*                                                                         *)
(* The caching allocator, for any threads, addresses, capacity and         *)
(* requests, and any class table whose large step is no smaller than its   *)
(* least class.  Who holds a block is not inductive by itself: that a      *)
(* cached block goes to a tenant of the right class rests on every list    *)
(* holding blocks of its own class only, and the stats rest on both        *)
(* (AllocatorInv).                                                         *)
(***************************************************************************)
EXTENDS PagedKvCache, CachingAllocator, OrderedSeqsProofs

(* The paged KV cache. *)

\* The blocks a cache holds, in its table or in the append in progress.
Held(c) == Range(blocks[c]) \cup Range(fresh[c])
AllHeld == UNION {Held(c) : c \in Caches}

\* The pool against the references that exist: h is the set of blocks with an
\* owner among the caches, who have at most one each.
PoolType ==
  /\ refcount \in [Blocks -> Nat]
  /\ freeList \in Seq(Blocks) /\ used \in 0..NumBlocks
  /\ shares \in [Blocks -> 0..MaxShares]

Ledger ==
  /\ \A b \in Blocks : refcount[b] = (IF b \in AllHeld THEN 1 ELSE 0) + shares[b]
  /\ \A b \in Blocks : refcount[b] = 0 <=> b \in Range(freeList)
  /\ NoDuplicates(freeList)
  /\ Len(freeList) = NumBlocks - used

\* No block has two places.
Unique ==
  /\ \A c \in Caches :
       /\ NoDuplicates(blocks[c]) /\ NoDuplicates(fresh[c])
       /\ Range(blocks[c]) \cap Range(fresh[c]) = {}
  /\ \A c, d \in Caches : c # d => Held(c) \cap Held(d) = {}

TableType ==
  /\ pc \in [Caches -> {"idle", "alloc", "undo", "truncate", "drop"}]
  /\ blocks \in [Caches -> Seq(Blocks)] /\ fresh \in [Caches -> Seq(Blocks)]
  /\ numTokens \in [Caches -> Nat]
  /\ call \in [Caches -> [count : Nat, value : Values \cup {Zero}, keep : Nat]]

SlotType ==
  /\ slab \in [Layers -> [Slots -> Values \cup {Zero}]]
  /\ pending \in [Caches -> Seq(Slots)]
  /\ nextLayer \in [Caches -> Layers]

\* How the table of a cache and its call in progress agree.
OneTable(c) ==
  /\ pc[c] \in {"idle", "truncate", "drop"} => fresh[c] = <<>>
  /\ pc[c] \in {"idle", "alloc", "undo"} => Len(blocks[c]) = BlocksFor(numTokens[c])
  /\ pc[c] = "alloc" => Len(fresh[c]) <= BlocksNeeded(numTokens[c], call[c].count)
  /\ pc[c] = "truncate" => /\ call[c].keep <= numTokens[c]
                           /\ BlocksFor(call[c].keep) <= Len(blocks[c])

TableInv == \A c \in Caches : OneTable(c)

IInv == PoolType /\ TableType /\ SlotType /\ Ledger /\ Unique /\ TableInv
----------------------------------------------------------------------------
(* Blocks and slots. *)

\* The names of the library's ToSet and IsInjective.
LEMMA SameNames ==
  ASSUME NEW s
  PROVE  ToSet(s) = Range(s) /\ (IsInjective(s) <=> NoDuplicates(s))
BY DEF ToSet, Range, IsInjective, NoDuplicates

\* The sizes are positive, and there is a layer 0.
LEMMA Sizes ==
  /\ NumLayers \in Nat \ {0} /\ BlockSize \in Nat \ {0} /\ NumBlocks \in Nat \ {0}
  /\ 0 \in Layers /\ 1 % NumLayers \in Layers
  /\ \A l \in Layers : (l + 1) % NumLayers \in Layers
<1>1. NumLayers \in Nat \ {0} /\ BlockSize \in Nat \ {0} /\ NumBlocks \in Nat \ {0}
  BY PagedKvCacheAssumption
<1>2. \A n \in Nat : n % NumLayers \in Layers
  <2> SUFFICES ASSUME NEW n \in Nat PROVE n % NumLayers \in Layers
    OBVIOUS
  <2>1. n % NumLayers \in Nat /\ n % NumLayers < NumLayers
    BY <1>1, DivMod
  <2> QED
    BY <1>1, <2>1 DEF Layers
<1>3. \A l \in Layers : l + 1 \in Nat
  BY <1>1 DEF Layers
<1>4. 0 \in Layers
  BY <1>1 DEF Layers
<1> QED
  BY <1>1, <1>2, <1>3, <1>4

\* Enough blocks for n tokens, and not one too many.
LEMMA BlocksForFacts ==
  ASSUME NEW n \in Nat
  PROVE  /\ BlocksFor(n) \in Nat
         /\ n = 0 => BlocksFor(n) = 0
         /\ \A p \in Nat : p < n => p \div BlockSize + 1 \in 1..BlocksFor(n)
         /\ \A m \in Nat : n <= m => BlocksFor(n) <= BlocksFor(m)
<1> DEFINE B == BlockSize
           F(m) == (m + B - 1) \div B
<1>1. B \in Nat \ {0}
  BY Sizes
<1> HIDE DEF B
<1>2. ASSUME NEW m \in Nat
      PROVE  /\ F(m) \in Nat /\ F(m) * B \in Nat
             /\ F(m) * B <= m + B - 1 /\ m <= F(m) * B
  <2>1. m + B - 1 \in Nat
    BY <1>1
  <2> DEFINE k == m + B - 1
             q == k \div B
             r == k % B
  <2>2. q \in Nat /\ r \in Nat /\ r < B /\ k = q * B + r
    BY <1>1, <2>1, DivMod
  <2> HIDE DEF q, r
  <2>3. q * B \in Nat
    BY <1>1, <2>2, Multiples
  <2>4. q * B <= m + B - 1 /\ m <= q * B
    BY <1>1, <2>2, <2>3
  <2> QED
    BY <2>2, <2>3, <2>4 DEF q
<1> HIDE DEF F
<1>3. ASSUME NEW p \in Nat, NEW m \in Nat, p < m
      PROVE  p \div B + 1 \in 1..F(m)
  <2> DEFINE q == p \div B
             r == p % B
             f == F(m)
  <2>1. q \in Nat /\ r \in Nat /\ r < B /\ p = q * B + r
    BY <1>1, DivMod
  <2>2. f \in Nat /\ f * B \in Nat /\ m <= f * B
    BY <1>2
  <2> HIDE DEF q, r, f
  <2>3. q * B \in Nat
    BY <1>1, <2>1, Multiples
  <2>4. q < f
    <3> SUFFICES ASSUME f <= q PROVE FALSE
      BY <2>1, <2>2
    <3>1. f * B <= q * B
      BY <1>1, <2>1, <2>2, Multiples
    <3> QED
      BY <1>3, <2>1, <2>2, <2>3, <3>1
  <2>5. q + 1 \in 1..f
    BY <2>1, <2>2, <2>4
  <2> QED
    BY <2>5 DEF q, f
<1>4. F(0) = 0
  <2> DEFINE f == F(0)
  <2>1. f \in Nat /\ f * B \in Nat /\ f * B <= 0 + B - 1
    BY <1>2
  <2> HIDE DEF f
  <2>2. ~(0 < f)
    <3> SUFFICES ASSUME 0 < f PROVE FALSE
      OBVIOUS
    <3>1. 0 * B + B <= f * B
      BY <1>1, <2>1, Multiples
    <3>2. 0 * B = 0
      BY <1>1
    <3> QED
      BY <1>1, <2>1, <3>1, <3>2
  <2>3. f = 0
    BY <2>1, <2>2
  <2> QED
    BY <2>3 DEF f
<1>5. ASSUME NEW k \in Nat, NEW m \in Nat, k <= m PROVE F(k) <= F(m)
  <2> DEFINE f == F(k)
             g == F(m)
  <2>1. f \in Nat /\ g \in Nat /\ f * B \in Nat /\ g * B \in Nat
        /\ f * B <= k + B - 1 /\ m <= g * B
    BY <1>2
  <2> HIDE DEF f, g
  <2>2. ~(g < f)
    <3> SUFFICES ASSUME g < f PROVE FALSE
      OBVIOUS
    <3>1. g * B + B <= f * B
      BY <1>1, <2>1, Multiples
    <3> QED
      BY <1>1, <1>5, <2>1, <3>1
  <2>3. f <= g
    BY <2>1, <2>2
  <2> QED
    BY <2>3 DEF f, g
<1>6. \A m : BlocksFor(m) = F(m)
  BY DEF BlocksFor, F, B
<1> QED
  BY <1>2, <1>3, <1>4, <1>5, <1>6 DEF B

\* The slot of a position in a block of the table is in the slab.
LEMMA SlotInSlab ==
  ASSUME NEW bs \in Seq(Blocks), NEW p \in Nat, p \div BlockSize + 1 \in DOMAIN bs
  PROVE  SlotOf(bs, p) \in Slots
<1> DEFINE B == BlockSize
           b == bs[p \div B + 1]
           r == p % B
<1>1. b \in Blocks
  OBVIOUS
<1>2. b \in Nat /\ b < NumBlocks /\ NumBlocks \in Nat /\ B \in Nat \ {0}
  BY <1>1, Sizes DEF Blocks
<1>3. r \in Nat /\ r < B
  BY <1>2, DivMod
<1> HIDE DEF b, r
<1>4. b * B \in Nat /\ NumBlocks * B \in Nat /\ b * B + B <= NumBlocks * B
  <2> HIDE DEF B
  <2> QED
    BY <1>2, Multiples
<1>5. b * B + r \in 0..(NumBlocks * B - 1)
  BY <1>2, <1>3, <1>4
<1> QED
  BY <1>5 DEF SlotOf, Slots, b, r

\* A position below n is in a block of the table, and its slot in the slab.
LEMMA SlotFacts ==
  ASSUME NEW bs \in Seq(Blocks), NEW n \in Nat, Len(bs) = BlocksFor(n),
         NEW p \in Nat, p < n
  PROVE  /\ p \div BlockSize + 1 \in DOMAIN bs
         /\ SlotOf(bs, p) \in Slots
<1>1. p \div BlockSize + 1 \in DOMAIN bs
  BY BlocksForFacts
<1> QED
  BY <1>1, SlotInSlab
----------------------------------------------------------------------------
(* BlockPool. *)

\* The free list is never longer than the pool.
LEMMA FreeFits ==
  ASSUME NEW s \in Seq(Blocks), NoDuplicates(s)
  PROVE  Len(s) \in Nat /\ Len(s) <= NumBlocks
<1>1. IsFiniteSet(Blocks) /\ Cardinality(Blocks) = NumBlocks
  BY Sizes, CountUp DEF Blocks
<1>2. Range(s) \in SUBSET Blocks
  BY RangeType
<1>3. Cardinality(Range(s)) <= NumBlocks
  BY <1>1, <1>2, FS_Subset
<1> QED
  BY <1>3, LengthFacts

\* A block that is handed out had no owner.
LEMMA AllocateLedger ==
  ASSUME PoolType, Ledger, NEW b \in Blocks, Allocate(b),
         shares' = shares, AllHeld' = AllHeld \cup {b}
  PROVE  PoolType' /\ Ledger' /\ b \notin AllHeld
<1> USE DEF Allocate
<1>1. /\ b \in Range(freeList) /\ freeList' \in Seq(Blocks)
      /\ Len(freeList') = Len(freeList) - 1 /\ NoDuplicates(freeList')
      /\ Range(freeList') = Range(freeList) \ {b}
  BY FrontFacts DEF PoolType, Ledger, Last, Front
<1>2. shares[b] \in Nat /\ refcount[b] = 0 /\ b \notin AllHeld /\ shares[b] = 0
  <2>1. refcount[b] = 0 /\ shares[b] \in 0..MaxShares
    BY <1>1 DEF Ledger, PoolType
  <2>2. refcount[b] = (IF b \in AllHeld THEN 1 ELSE 0) + shares[b]
    BY DEF Ledger
  <2>3. MaxShares \in Nat
    BY PagedKvCacheAssumption
  <2> QED
    BY <2>1, <2>2, <2>3
<1>3. Len(freeList) \in Nat /\ Len(freeList) > 0 /\ NumBlocks \in Nat /\ used \in 0..NumBlocks
  BY Sizes DEF PoolType
<1>4. PoolType'
  <2>1. used + 1 \in 0..NumBlocks
    BY <1>3 DEF Ledger
  <2> QED
    BY <1>1, <2>1 DEF PoolType
<1>5. Ledger'
  <2>1. ASSUME NEW x \in Blocks
        PROVE  /\ refcount'[x] = (IF x \in AllHeld' THEN 1 ELSE 0) + shares'[x]
               /\ refcount'[x] = 0 <=> x \in Range(freeList')
    <3>1. CASE x = b
      BY <1>1, <1>2, <3>1 DEF PoolType
    <3>2. CASE x # b
      <4>1. refcount'[x] = refcount[x] /\ (x \in AllHeld' <=> x \in AllHeld)
        BY <3>2 DEF PoolType
      <4> QED
        BY <1>1, <3>2, <4>1 DEF Ledger
    <3> QED
      BY <3>1, <3>2
  <2>2. Len(freeList') = NumBlocks - used'
    BY <1>1, <1>3 DEF Ledger
  <2> QED
    BY <1>1, <2>1, <2>2 DEF Ledger
<1> QED
  BY <1>2, <1>4, <1>5

\* Dropping a reference: the owner's, or a shared one.
LEMMA ReleaseLedger ==
  ASSUME PoolType, Ledger, NEW b \in Blocks, Release(b),
         \/ b \in AllHeld /\ AllHeld' = AllHeld \ {b} /\ shares' = shares
         \/ shares[b] > 0 /\ AllHeld' = AllHeld
            /\ shares' = [shares EXCEPT ![b] = shares[b] - 1]
  PROVE  PoolType' /\ Ledger'
<1> USE DEF Release
<1>1. MaxShares \in Nat /\ NumBlocks \in Nat
  BY PagedKvCacheAssumption
<1>2. /\ refcount[b] = (IF b \in AllHeld THEN 1 ELSE 0) + shares[b]
      /\ refcount[b] \in Nat /\ shares[b] \in 0..MaxShares
  BY DEF Ledger, PoolType
<1>3. refcount[b] >= 1
  BY <1>1, <1>2
<1>4. /\ shares' \in [Blocks -> 0..MaxShares]
      /\ \A x \in Blocks \ {b} : shares'[x] = shares[x] /\ (x \in AllHeld' <=> x \in AllHeld)
      /\ (IF b \in AllHeld' THEN 1 ELSE 0) + shares'[b] = refcount[b] - 1
  <2>1. CASE b \in AllHeld /\ AllHeld' = AllHeld \ {b} /\ shares' = shares
    BY <1>1, <1>2, <2>1 DEF PoolType
  <2>2. CASE shares[b] > 0 /\ AllHeld' = AllHeld
             /\ shares' = [shares EXCEPT ![b] = shares[b] - 1]
    <3>1. shares[b] - 1 \in 0..MaxShares
      BY <1>1, <1>2, <2>2
    <3>2. shares' \in [Blocks -> 0..MaxShares] /\ shares'[b] = shares[b] - 1
          /\ \A x \in Blocks \ {b} : shares'[x] = shares[x]
      BY <2>2, <3>1 DEF PoolType
    <3>3. (IF b \in AllHeld' THEN 1 ELSE 0) + (shares[b] - 1) = refcount[b] - 1
      BY <1>1, <1>2, <2>2
    <3> QED
      BY <2>2, <3>2, <3>3
  <2> QED
    BY <2>1, <2>2
<1>5. refcount' \in [Blocks -> Nat] /\ refcount'[b] = refcount[b] - 1
      /\ \A x \in Blocks \ {b} : refcount'[x] = refcount[x]
  BY <1>2, <1>3 DEF PoolType
<1>6. \A x \in Blocks : refcount'[x] = (IF x \in AllHeld' THEN 1 ELSE 0) + shares'[x]
  BY <1>4, <1>5 DEF Ledger
<1>7. CASE refcount[b] = 1
  <2>1. b \notin Range(freeList)
    BY <1>3 DEF Ledger
  <2>2. /\ freeList' \in Seq(Blocks) /\ NoDuplicates(freeList')
        /\ Len(freeList') = Len(freeList) + 1
        /\ Range(freeList') = Range(freeList) \cup {b}
    <3>1. freeList \in Seq(Blocks) /\ NoDuplicates(freeList) /\ freeList' = Append(freeList, b)
      BY <1>7 DEF PoolType, Ledger
    <3> QED
      BY <2>1, <3>1, AppendFacts
  <2>3. Len(freeList') \in Nat /\ Len(freeList') <= NumBlocks
    BY <2>2, FreeFits
  <2>4. used' \in 0..NumBlocks /\ Len(freeList') = NumBlocks - used'
    BY <1>1, <1>7, <2>2, <2>3 DEF PoolType, Ledger
  <2>5. \A x \in Blocks : refcount'[x] = 0 <=> x \in Range(freeList')
    BY <1>5, <1>7, <2>2 DEF Ledger
  <2> QED
    BY <1>4, <1>5, <1>6, <2>2, <2>4, <2>5 DEF PoolType, Ledger
<1>8. CASE refcount[b] # 1
  <2>1. \A x \in Blocks : refcount'[x] = 0 <=> x \in Range(freeList')
    BY <1>2, <1>3, <1>5, <1>8 DEF Ledger
  <2> QED
    BY <1>4, <1>5, <1>6, <1>8, <2>1 DEF PoolType, Ledger
<1> QED
  BY <1>7, <1>8
----------------------------------------------------------------------------
(* Block tables. *)

\* Changing the lists of one cache c, which then holds the blocks of H.
LEMMA OneCacheMoves ==
  ASSUME Unique, NEW c \in Caches, NEW H,
         \A d \in Caches \ {c} : blocks'[d] = blocks[d] /\ fresh'[d] = fresh[d],
         NoDuplicates(blocks'[c]), NoDuplicates(fresh'[c]),
         Range(blocks'[c]) \cap Range(fresh'[c]) = {},
         Range(blocks'[c]) \cup Range(fresh'[c]) = H,
         \A d \in Caches \ {c} : H \cap Held(d) = {}
  PROVE  /\ Unique'
         /\ \A x : x \in AllHeld' <=> (x \in AllHeld \ Held(c)) \/ x \in H
<1>1. Held(c)' = H /\ \A d \in Caches \ {c} : Held(d)' = Held(d)
  BY DEF Held
<1>2. Unique'
  BY <1>1 DEF Unique
<1>3. ASSUME NEW x PROVE x \in AllHeld' <=> (x \in AllHeld \ Held(c)) \/ x \in H
  <2>1. x \in AllHeld' <=> x \in H \/ \E d \in Caches \ {c} : x \in Held(d)
    BY <1>1 DEF AllHeld
  <2>2. x \in AllHeld \ Held(c) <=> \E d \in Caches \ {c} : x \in Held(d)
    BY DEF AllHeld, Unique
  <2> QED
    BY <2>1, <2>2
<1> QED
  BY <1>2, <1>3

\* When a cache gives back a block, the block has no owner left among the caches.
LEMMA OneCacheLoses ==
  ASSUME Unique, NEW c \in Caches, NEW b \in Held(c),
         \A d \in Caches \ {c} : blocks'[d] = blocks[d] /\ fresh'[d] = fresh[d],
         NoDuplicates(blocks'[c]), NoDuplicates(fresh'[c]),
         Range(blocks'[c]) \cap Range(fresh'[c]) = {},
         Range(blocks'[c]) \cup Range(fresh'[c]) = Held(c) \ {b}
  PROVE  Unique' /\ b \in AllHeld /\ AllHeld' = AllHeld \ {b}
<1>1. \A d \in Caches \ {c} : (Held(c) \ {b}) \cap Held(d) = {}
  BY DEF Unique
<1>2. /\ Unique'
      /\ \A x : x \in AllHeld' <=> (x \in AllHeld \ Held(c)) \/ x \in Held(c) \ {b}
  BY <1>1, OneCacheMoves
<1>3. b \in AllHeld /\ Held(c) \subseteq AllHeld
  BY DEF AllHeld
<1> QED
  BY <1>2, <1>3

\* A cache's own tables after its step, and those of the others.
LEMMA TablesKept ==
  ASSUME TableType, TableInv, NEW c \in Caches,
         \A d \in Caches \ {c} :
           /\ pc'[d] = pc[d] /\ blocks'[d] = blocks[d] /\ fresh'[d] = fresh[d]
           /\ numTokens'[d] = numTokens[d] /\ call'[d] = call[d],
         OneTable(c)'
  PROVE  TableInv'
<1>1. ASSUME NEW d \in Caches \ {c} PROVE OneTable(d)'
  BY DEF TableInv, OneTable
<1> QED
  BY <1>1 DEF TableInv

\* The step leaves the pool and every table alone.
LEMMA HeldKept ==
  ASSUME PoolType, Ledger, Unique, UNCHANGED <<poolVars, shares, blocks, fresh>>
  PROVE  PoolType' /\ Ledger' /\ Unique'
<1>1. AllHeld' = AllHeld /\ \A c \in Caches : Held(c)' = Held(c)
  BY DEF AllHeld, Held
<1> QED
  BY <1>1 DEF PoolType, Ledger, Unique, poolVars

\* An empty pool of free blocks and empty tables.
LEMMA InitIInv == Init => IInv
<1> SUFFICES ASSUME Init PROVE IInv
  OBVIOUS
<1> USE DEF Init
<1>1. NumBlocks \in Nat /\ NumBlocks > 0 /\ MaxShares \in Nat
  BY PagedKvCacheAssumption
<1>2. /\ freeList \in Seq(Blocks) /\ Len(freeList) = NumBlocks
      /\ \A i \in 1..NumBlocks : freeList[i] = NumBlocks - i
      /\ DOMAIN freeList = 1..NumBlocks
  <2>1. \A i \in 1..NumBlocks : NumBlocks - i \in Blocks
    BY <1>1 DEF Blocks
  <2> QED
    BY <1>1, <2>1
<1>3. PoolType
  BY <1>1, <1>2 DEF PoolType
<1>4. TableType
  <2>1. <<>> \in Seq(Blocks) /\ NoCall \in [count : Nat, value : Values \cup {Zero}, keep : Nat]
    BY DEF NoCall
  <2> QED
    BY <2>1 DEF TableType
<1>5. SlotType
  <2>1. <<>> \in Seq(Slots) /\ 0 \in Layers
    BY Sizes
  <2> QED
    BY <2>1 DEF SlotType
<1>6. \A c \in Caches : Held(c) = {}
  BY EmptyFacts DEF Held
<1>7. Ledger
  <2>1. NoDuplicates(freeList)
    <3>1. \A i, j \in 1..NumBlocks : NumBlocks - i = NumBlocks - j => i = j
      BY <1>1
    <3> QED
      BY <1>2, <3>1 DEF NoDuplicates
  <2>2. ASSUME NEW b \in Blocks PROVE b \in Range(freeList)
    <3>1. NumBlocks - b \in 1..NumBlocks /\ NumBlocks - (NumBlocks - b) = b
      BY <1>1 DEF Blocks
    <3> QED
      BY <1>2, <3>1 DEF Range
  <2>3. AllHeld = {}
    BY <1>6 DEF AllHeld
  <2> QED
    BY <1>1, <1>2, <2>1, <2>2, <2>3 DEF Ledger
<1>8. Unique
  BY <1>6, EmptyFacts DEF Unique
<1>9. TableInv
  <2>1. Len(<<>>) = 0 /\ BlocksFor(0) = 0
    BY BlocksForFacts
  <2> QED
    BY <2>1 DEF TableInv, OneTable
<1> QED
  BY <1>3, <1>4, <1>5, <1>7, <1>8, <1>9 DEF IInv

\* Steps that only change where a cache is and what it is called with.
LEMMA QuietStep ==
  ASSUME IInv, NEW c \in Caches, NEW p \in {"idle", "alloc", "undo", "truncate", "drop"},
         UNCHANGED <<poolVars, slab, shares, blocks, fresh>>,
         numTokens' \in [Caches -> Nat], pending' \in [Caches -> Seq(Slots)],
         nextLayer' \in [Caches -> Layers],
         pc' = [pc EXCEPT ![c] = p],
         call' \in [Caches -> [count : Nat, value : Values \cup {Zero}, keep : Nat]],
         \A d \in Caches \ {c} : call'[d] = call[d] /\ numTokens'[d] = numTokens[d],
         OneTable(c)'
  PROVE  IInv'
<1> USE DEF IInv
<1>1. PoolType' /\ Ledger' /\ Unique'
  BY HeldKept
<1>2. TableType' /\ SlotType'
  BY DEF TableType, SlotType
<1>3. TableInv'
  BY TablesKept DEF TableType
<1> QED
  BY <1>1, <1>2, <1>3

\* An append begins: nothing is taken yet.
LEMMA OpenForwardInv ==
  ASSUME IInv, NEW c \in Caches, NEW n \in Batches, NEW v \in Contents[c],
         OpenForward(c, n, v)
  PROVE  IInv'
<1> USE DEF OpenForward, tableVars
<1>1. n \in Nat /\ v \in Values
  BY PagedKvCacheAssumption DEF Values
<1>2. pc'[c] = "alloc" /\ call'[c].count = n /\ call' \in [Caches ->
        [count : Nat, value : Values \cup {Zero}, keep : Nat]]
  BY <1>1 DEF IInv, TableType
<1>3. fresh[c] = <<>> /\ Len(blocks[c]) = BlocksFor(numTokens[c]) /\ numTokens[c] \in Nat
  BY DEF IInv, TableInv, OneTable, TableType
<1>4. 0 <= BlocksNeeded(numTokens[c], n)
  <2>1. numTokens[c] + n \in Nat /\ numTokens[c] <= numTokens[c] + n
    BY <1>1, <1>3
  <2>2. /\ BlocksFor(numTokens[c]) \in Nat /\ BlocksFor(numTokens[c] + n) \in Nat
        /\ BlocksFor(numTokens[c]) <= BlocksFor(numTokens[c] + n)
    BY <1>3, <2>1, BlocksForFacts
  <2> QED
    BY <2>2 DEF BlocksNeeded
<1>5. OneTable(c)'
  <2>1. Len(<<>>) = 0
    OBVIOUS
  <2> QED
    BY <1>2, <1>3, <1>4, <2>1 DEF OneTable
<1> QED
  BY <1>2, <1>5, QuietStep DEF IInv, TableType, SlotType

\* How many blocks the append in progress still has to take is a number.
LEMMA StillNeedsType ==
  ASSUME IInv, NEW c \in Caches, pc[c] = "alloc"
  PROVE  /\ BlocksNeeded(numTokens[c], call[c].count) \in Nat
         /\ Len(fresh[c]) \in Nat
         /\ numTokens[c] \in Nat /\ call[c].count \in Nat
         /\ BlocksFor(numTokens[c]) \in Nat
         /\ BlocksFor(numTokens[c] + call[c].count) \in Nat
         /\ StillNeeds(c) = BlocksNeeded(numTokens[c], call[c].count) - Len(fresh[c])
         /\ Len(fresh[c]) <= BlocksNeeded(numTokens[c], call[c].count)
<1>1. numTokens[c] \in Nat /\ call[c].count \in Nat /\ Len(fresh[c]) \in Nat
  BY DEF IInv, TableType
<1>2. BlocksFor(numTokens[c]) \in Nat /\ BlocksFor(numTokens[c] + call[c].count) \in Nat
      /\ BlocksFor(numTokens[c]) <= BlocksFor(numTokens[c] + call[c].count)
  <2>1. numTokens[c] + call[c].count \in Nat /\ numTokens[c] <= numTokens[c] + call[c].count
    BY <1>1
  <2> QED
    BY <1>1, <2>1, BlocksForFacts
<1>3. Len(fresh[c]) <= BlocksNeeded(numTokens[c], call[c].count)
  BY DEF IInv, TableInv, OneTable
<1> QED
  BY <1>1, <1>2, <1>3 DEF BlocksNeeded, StillNeeds

\* One block from the pool joins those of the append in progress.
LEMMA TakeBlockInv ==
  ASSUME IInv, NEW c \in Caches, TakeBlock(c)
  PROVE  IInv'
<1> USE DEF TakeBlock, tableVars
<1>1. PICK b \in Blocks : Allocate(b) /\ fresh' = [fresh EXCEPT ![c] = Append(fresh[c], b)]
  OBVIOUS
<1>2. b \notin AllHeld
  <2>1. b \in Range(freeList)
    BY <1>1, FrontFacts DEF IInv, PoolType, Allocate, Last
  <2>2. refcount[b] = 0
    BY <2>1 DEF IInv, Ledger
  <2>3. shares[b] \in Nat
    BY PagedKvCacheAssumption DEF IInv, PoolType
  <2>4. refcount[b] = (IF b \in AllHeld THEN 1 ELSE 0) + shares[b]
    BY DEF IInv, Ledger
  <2> QED
    BY <2>2, <2>3, <2>4
<1>3. /\ fresh[c] \in Seq(Blocks) /\ blocks[c] \in Seq(Blocks)
      /\ NoDuplicates(fresh[c]) /\ NoDuplicates(blocks[c])
      /\ Range(blocks[c]) \cap Range(fresh[c]) = {}
      /\ b \notin Range(fresh[c]) /\ b \notin Range(blocks[c])
  BY <1>2 DEF IInv, Unique, TableType, AllHeld, Held
<1>4. /\ fresh'[c] = Append(fresh[c], b) /\ fresh'[c] \in Seq(Blocks)
      /\ Len(fresh'[c]) = Len(fresh[c]) + 1 /\ NoDuplicates(fresh'[c])
      /\ Range(fresh'[c]) = Range(fresh[c]) \cup {b}
      /\ \A d \in Caches \ {c} : fresh'[d] = fresh[d]
  BY <1>1, <1>3, AppendFacts DEF IInv, TableType
<1> DEFINE H == Held(c) \cup {b}
<1>5. /\ Unique'
      /\ \A x : x \in AllHeld' <=> (x \in AllHeld \ Held(c)) \/ x \in H
  <2>1. Range(blocks'[c]) \cup Range(fresh'[c]) = H
    BY <1>4 DEF Held
  <2>2. \A d \in Caches \ {c} : H \cap Held(d) = {}
    BY <1>2 DEF IInv, Unique, AllHeld
  <2> HIDE DEF H
  <2> QED
    BY <1>3, <1>4, <2>1, <2>2, OneCacheMoves DEF IInv
<1>6. AllHeld' = AllHeld \cup {b}
  <2>1. Held(c) \subseteq AllHeld
    BY DEF AllHeld
  <2> QED
    BY <1>5, <2>1
<1>7. PoolType' /\ Ledger'
  BY <1>1, <1>6, AllocateLedger DEF IInv
<1>8. TableType' /\ SlotType'
  BY <1>1, <1>4 DEF IInv, TableType, SlotType
<1>9. OneTable(c)'
  <2>1. Len(fresh[c]) + 1 <= BlocksNeeded(numTokens[c], call[c].count)
    BY StillNeedsType
  <2>2. BlocksNeeded(numTokens[c], call[c].count)' = BlocksNeeded(numTokens[c], call[c].count)
    OBVIOUS
  <2> QED
    BY <1>4, <2>1, <2>2 DEF IInv, TableInv, OneTable
<1>10. TableInv'
  BY <1>4, <1>9, TablesKept DEF IInv
<1> QED
  BY <1>5, <1>7, <1>8, <1>10 DEF IInv

\* A step in which a cache gives back one block of its lists.
LEMMA GiveBack ==
  ASSUME IInv, NEW c \in Caches, NEW b \in Held(c), Release(b),
         UNCHANGED <<slab, shares, pc, numTokens, pending, nextLayer, call>>,
         NEW bs \in Seq(Blocks), NEW fs \in Seq(Blocks),
         blocks' = [blocks EXCEPT ![c] = bs], fresh' = [fresh EXCEPT ![c] = fs],
         NoDuplicates(bs), NoDuplicates(fs), Range(bs) \cap Range(fs) = {},
         Range(bs) \cup Range(fs) = Held(c) \ {b},
         OneTable(c)'
  PROVE  IInv'
<1>1. blocks'[c] = bs /\ fresh'[c] = fs
      /\ \A d \in Caches \ {c} : blocks'[d] = blocks[d] /\ fresh'[d] = fresh[d]
  BY DEF IInv, TableType
<1>2. Unique' /\ b \in AllHeld /\ AllHeld' = AllHeld \ {b}
  BY <1>1, OneCacheLoses DEF IInv
<1>3. b \in Blocks
  BY RangeType DEF IInv, TableType, Held
<1>4. PoolType' /\ Ledger'
  BY <1>2, <1>3, ReleaseLedger DEF IInv
<1>5. TableType' /\ SlotType'
  BY DEF IInv, TableType, SlotType
<1>6. TableInv'
  BY <1>1, TablesKept DEF IInv
<1> QED
  BY <1>2, <1>4, <1>5, <1>6 DEF IInv

\* What is known of a cache's lists.
LEMMA ListFacts ==
  ASSUME IInv, NEW c \in Caches
  PROVE  /\ blocks[c] \in Seq(Blocks) /\ fresh[c] \in Seq(Blocks)
         /\ NoDuplicates(blocks[c]) /\ NoDuplicates(fresh[c])
         /\ Range(blocks[c]) \cap Range(fresh[c]) = {}
         /\ Held(c) = Range(blocks[c]) \cup Range(fresh[c])
         /\ blocks = [blocks EXCEPT ![c] = blocks[c]]
         /\ fresh = [fresh EXCEPT ![c] = fresh[c]]
  BY DEF IInv, TableType, Unique, Held

\* A failed append gives back the first block it still has.
LEMMA UndoOneInv ==
  ASSUME IInv, NEW c \in Caches, UndoOne(c)
  PROVE  IInv'
<1> USE DEF UndoOne, tableVars
<1>1. /\ Head(fresh[c]) \in Range(fresh[c]) /\ Tail(fresh[c]) \in Seq(Blocks)
      /\ NoDuplicates(Tail(fresh[c]))
      /\ Range(Tail(fresh[c])) = Range(fresh[c]) \ {Head(fresh[c])}
  BY ListFacts, TailFacts
<1> DEFINE b == Head(fresh[c])
           fs == Tail(fresh[c])
<1>2. /\ b \in Held(c) /\ Range(blocks[c]) \cap Range(fs) = {}
      /\ Range(blocks[c]) \cup Range(fs) = Held(c) \ {b}
  BY <1>1, ListFacts
<1>3. OneTable(c)'
  BY DEF IInv, TableInv, OneTable
<1>4. blocks' = [blocks EXCEPT ![c] = blocks[c]] /\ fresh' = [fresh EXCEPT ![c] = fs]
      /\ Release(b)
  BY ListFacts
<1> HIDE DEF b, fs
<1> QED
  BY <1>1, <1>2, <1>3, <1>4, ListFacts, GiveBack DEF b, fs

\* A truncation gives back the last block of the table.
LEMMA TruncateOneInv ==
  ASSUME IInv, NEW c \in Caches, TruncateOne(c)
  PROVE  IInv'
<1> USE DEF TruncateOne
<1> DEFINE b == Last(blocks[c])
           bs == Front(blocks[c])
<1>1. fresh[c] = <<>> /\ call[c].keep \in Nat /\ BlocksFor(call[c].keep) \in Nat
      /\ Len(blocks[c]) \in Nat /\ blocks[c] # <<>>
  <2>1. fresh[c] = <<>> /\ call[c].keep \in Nat /\ Len(blocks[c]) \in Nat
    BY DEF IInv, TableInv, OneTable, TableType
  <2>2. BlocksFor(call[c].keep) \in Nat
    BY <2>1, BlocksForFacts
  <2> QED
    BY <2>1, <2>2
<1>2. /\ b \in Range(blocks[c]) /\ bs \in Seq(Blocks) /\ Len(bs) = Len(blocks[c]) - 1
      /\ NoDuplicates(bs) /\ Range(bs) = Range(blocks[c]) \ {b}
  BY <1>1, ListFacts, FrontFacts DEF Last, Front
<1>3. /\ b \in Held(c) /\ Range(bs) \cap Range(fresh[c]) = {}
      /\ Range(bs) \cup Range(fresh[c]) = Held(c) \ {b}
  BY <1>1, <1>2, ListFacts, EmptyFacts
<1>4. blocks' = [blocks EXCEPT ![c] = bs] /\ fresh' = [fresh EXCEPT ![c] = fresh[c]]
      /\ Release(b)
  BY ListFacts
<1> HIDE DEF b, bs
<1>5. OneTable(c)'
  <2>1. blocks'[c] = bs /\ BlocksFor(call[c].keep) <= Len(bs)
    BY <1>1, <1>2, <1>4, ListFacts DEF IInv, TableType
  <2>2. BlocksFor(call'[c].keep) = BlocksFor(call[c].keep)
    OBVIOUS
  <2> QED
    BY <2>1, <2>2 DEF IInv, TableInv, OneTable
<1> QED
  BY <1>2, <1>3, <1>4, <1>5, ListFacts, GiveBack DEF b, bs

\* A destruction gives back the first block of the table.
LEMMA DropOneInv ==
  ASSUME IInv, NEW c \in Caches, DropOne(c)
  PROVE  IInv'
<1> USE DEF DropOne
<1> DEFINE b == Head(blocks[c])
           bs == Tail(blocks[c])
<1>1. fresh[c] = <<>>
  BY DEF IInv, TableInv, OneTable
<1>2. /\ b \in Range(blocks[c]) /\ bs \in Seq(Blocks)
      /\ NoDuplicates(bs) /\ Range(bs) = Range(blocks[c]) \ {b}
  BY ListFacts, TailFacts
<1>3. /\ b \in Held(c) /\ Range(bs) \cap Range(fresh[c]) = {}
      /\ Range(bs) \cup Range(fresh[c]) = Held(c) \ {b}
  BY <1>1, <1>2, ListFacts, EmptyFacts
<1>4. blocks' = [blocks EXCEPT ![c] = bs] /\ fresh' = [fresh EXCEPT ![c] = fresh[c]]
      /\ Release(b)
  BY ListFacts
<1>5. OneTable(c)'
  BY DEF IInv, TableInv, OneTable
<1> HIDE DEF b, bs
<1> QED
  BY <1>2, <1>3, <1>4, <1>5, ListFacts, GiveBack DEF b, bs

\* Writing to slots of a layer keeps the slabs' type.
LEMMA ScatterType ==
  ASSUME SlotType, NEW l \in Layers, NEW slots, NEW v \in Values \cup {Zero},
         Scatter(l, slots, v)
  PROVE  slab' \in [Layers -> [Slots -> Values \cup {Zero}]]
<1>1. slab[l] \in [Slots -> Values \cup {Zero}]
  BY DEF SlotType
<1> QED
  BY <1>1 DEF SlotType, Scatter

\* The table with the blocks the append took covers the new positions.
LEMMA GrowTable ==
  ASSUME IInv, NEW c \in Caches, pc[c] = "alloc", StillNeeds(c) = 0
  PROVE  /\ blocks[c] \o fresh[c] \in Seq(Blocks)
         /\ Range(blocks[c] \o fresh[c]) = Held(c) /\ NoDuplicates(blocks[c] \o fresh[c])
         /\ Len(blocks[c] \o fresh[c]) = Len(blocks[c]) + Len(fresh[c])
         /\ call[c].count \in Nat /\ numTokens[c] \in Nat
         /\ Len(blocks[c] \o fresh[c]) = BlocksFor(numTokens[c] + call[c].count)
<1> DEFINE bs == blocks[c] \o fresh[c]
           n == call[c].count
           m == numTokens[c]
<1>1. /\ bs \in Seq(Blocks) /\ Range(bs) = Held(c) /\ NoDuplicates(bs)
      /\ Len(bs) = Len(blocks[c]) + Len(fresh[c])
  <2>1. blocks[c] \in Seq(Blocks) /\ fresh[c] \in Seq(Blocks)
    BY ListFacts
  <2>2. Len(bs) = Len(blocks[c]) + Len(fresh[c])
    BY <2>1
  <2>3. /\ NoDuplicates(blocks[c]) /\ NoDuplicates(fresh[c])
        /\ Range(blocks[c]) \cap Range(fresh[c]) = {}
        /\ Held(c) = Range(blocks[c]) \cup Range(fresh[c])
    BY ListFacts
  <2>4. bs \in Seq(Blocks) /\ Range(bs) = Held(c) /\ NoDuplicates(bs)
    BY <2>1, <2>3, ConcatFacts
  <2> QED
    BY <2>2, <2>4
<1>2. n \in Nat /\ m \in Nat /\ m + n \in Nat /\ Len(bs) = BlocksFor(m + n)
  <2>1. Len(blocks[c]) = BlocksFor(m)
    BY DEF IInv, TableInv, OneTable
  <2>2. Len(fresh[c]) = BlocksNeeded(m, n)
    BY StillNeedsType
  <2>3. m \in Nat /\ n \in Nat /\ BlocksFor(m) \in Nat /\ BlocksFor(m + n) \in Nat
    BY StillNeedsType
  <2>4. BlocksNeeded(m, n) = BlocksFor(m + n) - BlocksFor(m)
    BY DEF BlocksNeeded
  <2> HIDE DEF bs, m, n
  <2> QED
    BY <1>1, <2>1, <2>2, <2>3, <2>4
<1> QED
  BY <1>1, <1>2

\* The blocks taken join the table, and the new positions are mapped to slots.
LEMMA GrowInv ==
  ASSUME IInv, NEW c \in Caches, Grow(c)
  PROVE  IInv'
<1> USE DEF Grow
<1> DEFINE bs == blocks[c] \o fresh[c]
           n == call[c].count
           m == numTokens[c]
           slots == [i \in 1..n |-> SlotOf(bs, m + i - 1)]
<1>1. /\ bs \in Seq(Blocks) /\ Range(bs) = Held(c) /\ NoDuplicates(bs)
  BY GrowTable
<1>2. n \in Nat /\ m \in Nat /\ m + n \in Nat /\ Len(bs) = BlocksFor(m + n)
  <2>1. n \in Nat /\ m \in Nat
    BY GrowTable
  <2>2. Len(bs) = BlocksFor(m + n)
    BY GrowTable
  <2> HIDE DEF bs, m, n
  <2> QED
    BY <2>1, <2>2
<1>3. /\ blocks' = [blocks EXCEPT ![c] = bs] /\ fresh' = [fresh EXCEPT ![c] = <<>>]
      /\ numTokens' = [numTokens EXCEPT ![c] = m + n]
      /\ pending' = [pending EXCEPT ![c] = slots]
      /\ Scatter(0, slots, call[c].value)
  BY DEF IInv, TableType
<1> HIDE DEF bs
<1>4. slots \in Seq(Slots)
  <2>1. \A i \in 1..n : m + i - 1 \in Nat /\ m + i - 1 < m + n
    BY <1>2
  <2>2. \A i \in 1..n : SlotOf(bs, m + i - 1) \in Slots
    BY <1>1, <1>2, <2>1, SlotFacts
  <2> HIDE DEF n, m
  <2> QED
    BY <1>2, <2>2
<1> HIDE DEF slots, n, m
<1>5. /\ blocks'[c] = bs /\ fresh'[c] = <<>>
      /\ \A d \in Caches \ {c} : blocks'[d] = blocks[d] /\ fresh'[d] = fresh[d]
  BY <1>3 DEF IInv, TableType
<1>6. Unique' /\ AllHeld' = AllHeld
  <2>1. Range(blocks'[c]) \cup Range(fresh'[c]) = Held(c)
    BY <1>1, <1>5, EmptyFacts
  <2>2. NoDuplicates(fresh'[c]) /\ Range(blocks'[c]) \cap Range(fresh'[c]) = {}
    BY <1>5, EmptyFacts
  <2>3. \A d \in Caches \ {c} : Held(c) \cap Held(d) = {}
    BY DEF IInv, Unique
  <2> DEFINE H == Held(c)
  <2>4. H \subseteq AllHeld
    BY DEF AllHeld
  <2>5. /\ Unique'
        /\ \A x : x \in AllHeld' <=> (x \in AllHeld \ Held(c)) \/ x \in H
    BY <1>1, <1>5, <2>1, <2>2, <2>3, OneCacheMoves DEF IInv
  <2> QED
    BY <2>4, <2>5
<1>7. PoolType' /\ Ledger'
  BY <1>6 DEF IInv, PoolType, Ledger, poolVars
<1>8. TableType'
  <2>1. <<>> \in Seq(Blocks) /\ NoCall \in [count : Nat, value : Values \cup {Zero}, keep : Nat]
    BY DEF NoCall
  <2>2. blocks' \in [Caches -> Seq(Blocks)] /\ fresh' \in [Caches -> Seq(Blocks)]
    BY <1>1, <1>2, <1>3, <2>1 DEF IInv, TableType
  <2>3. numTokens' \in [Caches -> Nat]
    BY <1>1, <1>2, <1>3 DEF IInv, TableType
  <2>4. pc' \in [Caches -> {"idle", "alloc", "undo", "truncate", "drop"}]
    BY <1>1, <1>2, <1>3 DEF IInv, TableType
  <2>5. call' \in [Caches -> [count : Nat, value : Values \cup {Zero}, keep : Nat]]
    BY <1>1, <1>2, <1>3, <2>1 DEF IInv, TableType
  <2> QED
    BY <2>2, <2>3, <2>4, <2>5 DEF TableType
<1>9. SlotType'
  <2>1. call[c].value \in Values \cup {Zero}
    BY DEF IInv, TableType
  <2>2. slab' \in [Layers -> [Slots -> Values \cup {Zero}]]
    BY <1>3, <2>1, Sizes, ScatterType DEF IInv
  <2> QED
    BY <1>3, <1>4, <2>2, Sizes DEF IInv, SlotType
<1>10. OneTable(c)'
  <2>1. pc'[c] = "idle" /\ numTokens'[c] = m + n
    BY <1>3 DEF IInv, TableType
  <2>2. Len(blocks'[c]) = BlocksFor(numTokens'[c])
    BY <1>2, <1>5, <2>1
  <2> QED
    BY <1>5, <2>1, <2>2 DEF OneTable
<1>11. TableInv'
  BY <1>3, <1>5, <1>10, TablesKept DEF IInv, TableType
<1> QED
  BY <1>6, <1>7, <1>8, <1>9, <1>11 DEF IInv

\* A later layer writes to the slots of the forward.
LEMMA AppendLayerInv ==
  ASSUME IInv, NEW c \in Caches, NEW v \in Contents[c], AppendLayer(c, v)
  PROVE  IInv'
<1> USE DEF AppendLayer
<1>1. PoolType' /\ Ledger' /\ Unique'
  BY HeldKept DEF IInv
<1>2. TableType' /\ TableInv'
  BY DEF IInv, TableType, TableInv, OneTable
<1>3. SlotType'
  <2>1. v \in Values \cup {Zero}
    BY DEF Values
  <2>2. nextLayer[c] \in Layers
    BY DEF IInv, SlotType
  <2>3. slab' \in [Layers -> [Slots -> Values \cup {Zero}]]
    BY <2>1, <2>2, ScatterType DEF IInv
  <2> QED
    BY <2>2, <2>3, Sizes DEF IInv, SlotType
<1> QED
  BY <1>1, <1>2, <1>3 DEF IInv

\* The pool is dry: the append turns to giving back.
LEMMA ExhaustedInv ==
  ASSUME IInv, NEW c \in Caches, Exhausted(c)
  PROVE  IInv'
<1> USE DEF Exhausted, tableVars
<1>1. OneTable(c)'
  BY DEF IInv, TableInv, OneTable, TableType
<1> QED
  BY <1>1, QuietStep DEF IInv, TableType, SlotType

\* All is given back: the append has failed.
LEMMA FailAppendInv ==
  ASSUME IInv, NEW c \in Caches, FailAppend(c)
  PROVE  IInv'
<1> USE DEF FailAppend
<1>1. OneTable(c)'
  BY DEF IInv, TableInv, OneTable, TableType
<1>2. NoCall \in [count : Nat, value : Values \cup {Zero}, keep : Nat] /\ <<>> \in Seq(Slots)
  BY DEF NoCall
<1> QED
  BY <1>1, <1>2, QuietStep DEF IInv, TableType, SlotType

\* A truncation begins, to a length the table covers.
LEMMA BeginTruncateInv ==
  ASSUME IInv, NEW c \in Caches, NEW n \in 0..numTokens[c], BeginTruncate(c, n)
  PROVE  IInv'
<1> USE DEF BeginTruncate, tableVars
<1>1. numTokens[c] \in Nat /\ n \in Nat /\ n <= numTokens[c]
  BY DEF IInv, TableType
<1>2. call' \in [Caches -> [count : Nat, value : Values \cup {Zero}, keep : Nat]]
  BY <1>1 DEF IInv, TableType
<1>3. call'[c].keep = n /\ pc'[c] = "truncate"
  BY DEF IInv, TableType
<1>4. fresh[c] = <<>> /\ Len(blocks[c]) = BlocksFor(numTokens[c])
  BY DEF IInv, TableInv, OneTable
<1>5. BlocksFor(n) <= Len(blocks[c])
  BY <1>1, <1>4, BlocksForFacts
<1>6. OneTable(c)'
  BY <1>1, <1>3, <1>4, <1>5 DEF OneTable
<1> QED
  BY <1>2, <1>6, QuietStep DEF IInv, TableType, SlotType

\* What the kept tokens do not fill is given back: the truncation ends.
LEMMA EndTruncateInv ==
  ASSUME IInv, NEW c \in Caches, EndTruncate(c)
  PROVE  IInv'
<1> USE DEF EndTruncate
<1>1. call[c].keep \in Nat /\ BlocksFor(call[c].keep) <= Len(blocks[c]) /\ fresh[c] = <<>>
  BY DEF IInv, TableType, TableInv, OneTable
<1>2. NoCall \in [count : Nat, value : Values \cup {Zero}, keep : Nat] /\ <<>> \in Seq(Slots)
  BY DEF NoCall
<1>3. Len(blocks[c]) = BlocksFor(call[c].keep)
  <2>1. Len(blocks[c]) \in Nat /\ BlocksFor(call[c].keep) \in Nat
    BY <1>1, BlocksForFacts DEF IInv, TableType
  <2> QED
    BY <1>1, <2>1
<1>4. pc'[c] = "idle" /\ numTokens'[c] = call[c].keep
  BY DEF IInv, TableType
<1>5. OneTable(c)'
  BY <1>1, <1>3, <1>4 DEF OneTable
<1> QED
  BY <1>1, <1>2, <1>5, Sizes, QuietStep DEF IInv, TableType, SlotType

\* A destruction begins, or has given everything back.
LEMMA DropInv ==
  ASSUME IInv, NEW c \in Caches, BeginDrop(c) \/ EndDrop(c)
  PROVE  IInv'
<1>1. CASE BeginDrop(c)
  <2>1. OneTable(c)'
    BY <1>1 DEF BeginDrop, tableVars, IInv, TableInv, OneTable, TableType
  <2> QED
    BY <1>1, <2>1, QuietStep DEF BeginDrop, tableVars, IInv, TableType, SlotType
<1>2. CASE EndDrop(c)
  <2>1. fresh[c] = <<>> /\ blocks[c] = <<>> /\ Len(<<>>) = 0 /\ BlocksFor(0) = 0
    BY <1>2, BlocksForFacts DEF EndDrop, IInv, TableInv, OneTable
  <2>2. pc'[c] = "idle" /\ numTokens'[c] = 0
    BY <1>2 DEF EndDrop, IInv, TableType
  <2>3. OneTable(c)'
    BY <1>2, <2>1, <2>2 DEF EndDrop, OneTable
  <2>4. <<>> \in Seq(Slots) /\ 0 \in Layers
    BY Sizes
  <2> QED
    BY <1>2, <2>3, <2>4, QuietStep DEF EndDrop, IInv, TableType, SlotType
<1> QED
  BY <1>1, <1>2

\* Others take and drop references to blocks.
LEMMA ShareInv ==
  ASSUME IInv, NEW b \in Blocks, Share(b) \/ Unshare(b)
  PROVE  IInv'
<1>1. UNCHANGED <<slab, pc, tableVars, fresh, call>>
  BY DEF Share, Unshare
<1>2. AllHeld' = AllHeld /\ \A c \in Caches : Held(c)' = Held(c)
  BY <1>1 DEF AllHeld, Held, tableVars
<1>3. TableType' /\ SlotType' /\ TableInv' /\ Unique'
  BY <1>1, <1>2 DEF IInv, TableType, SlotType, TableInv, OneTable, Unique, tableVars
<1>4. CASE Share(b)
  <2>1. shares[b] \in 0..MaxShares /\ MaxShares \in Nat /\ refcount[b] \in Nat
    BY PagedKvCacheAssumption DEF IInv, PoolType
  <2>2. shares[b] + 1 \in 0..MaxShares
    BY <1>4, <2>1 DEF Share
  <2>3. PoolType'
    BY <1>4, <2>1, <2>2 DEF Share, IInv, PoolType
  <2>4. ASSUME NEW x \in Blocks
        PROVE  /\ refcount'[x] = (IF x \in AllHeld THEN 1 ELSE 0) + shares'[x]
               /\ refcount'[x] = 0 <=> x \in Range(freeList)
    <3>1. /\ refcount[x] = (IF x \in AllHeld THEN 1 ELSE 0) + shares[x]
          /\ refcount[x] = 0 <=> x \in Range(freeList)
      BY DEF IInv, Ledger
    <3>2. CASE x = b
      <4>1. refcount'[x] = refcount[x] + 1 /\ shares'[x] = shares[x] + 1 /\ refcount[x] > 0
        BY <1>4, <3>2 DEF Share, IInv, PoolType
      <4> QED
        BY <2>1, <3>1, <3>2, <4>1
    <3>3. CASE x # b
      BY <1>4, <3>1, <3>3 DEF Share, IInv, PoolType
    <3> QED
      BY <3>2, <3>3
  <2>5. Ledger'
    BY <1>2, <1>4, <2>4 DEF Share, IInv, Ledger
  <2> QED
    BY <1>3, <2>3, <2>5 DEF IInv
<1>5. CASE Unshare(b)
  <2>1. PoolType' /\ Ledger'
    BY <1>2, <1>5, ReleaseLedger DEF Unshare, IInv
  <2> QED
    BY <1>3, <2>1 DEF IInv
<1> QED
  BY <1>4, <1>5

\* Every step of a cache's thread, and of those who share blocks, keeps it.
LEMMA StepInv == IInv /\ [Next]_vars => IInv'
<1> SUFFICES ASSUME IInv, [Next]_vars PROVE IInv'
  OBVIOUS
<1>1. ASSUME NEW c \in Caches, NEW n \in Batches, NEW v \in Contents[c],
             OpenForward(c, n, v)
      PROVE  IInv'
  BY <1>1, OpenForwardInv
<1>2. ASSUME NEW c \in Caches, NEW v \in Contents[c], AppendLayer(c, v) PROVE IInv'
  BY <1>2, AppendLayerInv
<1>3. ASSUME NEW c \in Caches, NEW n \in 0..numTokens[c], BeginTruncate(c, n)
      PROVE  IInv'
  BY <1>3, BeginTruncateInv
<1>4. ASSUME NEW c \in Caches, BeginDrop(c) PROVE IInv'
  BY <1>4, DropInv
<1>5. ASSUME NEW c \in Caches, CacheThread(c) PROVE IInv'
  BY <1>5, TakeBlockInv, ExhaustedInv, UndoOneInv, FailAppendInv, GrowInv,
     TruncateOneInv, EndTruncateInv, DropOneInv, DropInv DEF CacheThread
<1>6. ASSUME NEW b \in Blocks, Share(b) \/ Unshare(b) PROVE IInv'
  BY <1>6, ShareInv
<1>7. CASE UNCHANGED vars
  <2>1. AllHeld' = AllHeld /\ \A c \in Caches : Held(c)' = Held(c)
    BY <1>7 DEF vars, tableVars, AllHeld, Held
  <2> QED
    BY <1>7, <2>1 DEF vars, poolVars, tableVars, IInv, PoolType, TableType, SlotType,
       Ledger, Unique, TableInv, OneTable
<1> QED
  BY <1>1, <1>2, <1>3, <1>4, <1>5, <1>6, <1>7 DEF Next

\* IInv holds in every reachable state.
LEMMA Invariance == Spec => []IInv
  BY InitIInv, StepInv, PTL DEF Spec

\* No interleaving of the block-by-block appends, roll-backs, truncations and
\* destructions of any number of caches puts a block into two tables, or twice
\* into one.
THEOREM NoBlockShared == Spec => []NoAliasing
<1>1. IInv => NoAliasing
  <2> SUFFICES ASSUME IInv, NEW c \in Caches, NEW d \in Caches,
                      NEW i \in DOMAIN blocks[c], NEW j \in DOMAIN blocks[d],
                      blocks[c][i] = blocks[d][j]
               PROVE  c = d /\ i = j
    BY DEF NoAliasing
  <2>1. blocks[c][i] \in Held(c) /\ blocks[c][i] \in Held(d)
    BY DEF Held, Range
  <2>2. c = d
    BY <2>1 DEF IInv, Unique
  <2>3. NoDuplicates(blocks[c])
    BY DEF IInv, Unique
  <2> QED
    BY <2>2, <2>3 DEF NoDuplicates
<1> QED
  BY <1>1, Invariance, PTL
----------------------------------------------------------------------------
(* PoolExact. *)

\* A block has at most one place in lists that do not share blocks.
LEMMA PlacesFacts ==
  ASSUME NEW lists \in [Caches -> Seq(Blocks)], NEW b \in Blocks,
         \A c \in Caches : NoDuplicates(lists[c]),
         \A c, d \in Caches : c # d => Range(lists[c]) \cap Range(lists[d]) = {}
  PROVE  Cardinality(Places(b, lists))
           = IF \E c \in Caches : b \in Range(lists[c]) THEN 1 ELSE 0
<1>1. \A c \in Caches : /\ DOMAIN lists[c] = 1..Len(lists[c]) /\ Len(lists[c]) \in Nat
                        /\ Len(lists[c]) <= NumBlocks
  BY FreeFits
<1>2. NumBlocks \in Nat
  BY Sizes
<1>3. CASE \E c \in Caches : b \in Range(lists[c])
  <2>1. PICK c \in Caches : \E i \in DOMAIN lists[c] : lists[c][i] = b
    <3>1. PICK c \in Caches : b \in Range(lists[c])
      BY <1>3
    <3>2. PICK i \in DOMAIN lists[c] : lists[c][i] = b
      BY <3>1 DEF Range
    <3> QED
      BY <3>1, <3>2
  <2>0. PICK i \in DOMAIN lists[c] : lists[c][i] = b
    BY <2>1
  <2>2. <<c, i>> \in Places(b, lists)
    <3>1. i \in 1..NumBlocks /\ i <= Len(lists[c])
      BY <1>1, <1>2, <2>0
    <3> QED
      BY <2>0, <3>1 DEF Places
  <2>3. ASSUME NEW p \in Places(b, lists) PROVE p = <<c, i>>
    <3>1. PICK d \in Caches, j \in 1..NumBlocks : p = <<d, j>>
      BY DEF Places
    <3>2. j \in DOMAIN lists[d] /\ lists[d][j] = b
      BY <1>1, <1>2, <3>1 DEF Places
    <3>3. d = c
      BY <2>0, <3>2 DEF Range
    <3>4. j = i
      BY <2>0, <3>2, <3>3 DEF NoDuplicates
    <3> QED
      BY <3>1, <3>3, <3>4
  <2>4. Places(b, lists) = {<<c, i>>}
    BY <2>2, <2>3
  <2> QED
    BY <1>3, <2>4, FS_Singleton
<1>4. CASE ~\E c \in Caches : b \in Range(lists[c])
  <2>1. ASSUME NEW p \in Places(b, lists) PROVE FALSE
    <3>1. PICK d \in Caches, j \in 1..NumBlocks : p = <<d, j>>
      BY DEF Places
    <3>2. j \in DOMAIN lists[d] /\ lists[d][j] = b
      BY <1>1, <1>2, <3>1 DEF Places
    <3> QED
      BY <1>4, <3>2 DEF Range
  <2>2. Places(b, lists) = {}
    BY <2>1
  <2> QED
    BY <1>4, <2>2, FS_EmptySet
<1> QED
  BY <1>3, <1>4

\* Under every interleaving every reference to every block is counted, the free
\* list holds exactly the blocks nobody refers to, each once, and a table at
\* rest has the blocks its tokens fill: nothing leaks, nothing is given twice.
THEOREM PoolAccounted == Spec => []PoolExact
<1>1. IInv => PoolExact
  <2> SUFFICES ASSUME IInv PROVE PoolExact
    OBVIOUS
  <2>1. TypeOK
    BY DEF IInv, PoolType, TableType, SlotType, TypeOK
  <2>2. BlocksMatchTokens
    BY DEF BlocksMatchTokens, IInv, TableInv, OneTable
  <2>3. ASSUME NEW b \in Blocks PROVE refcount[b] = Owners(b)
    <3> DEFINE inTable == \E c \in Caches : b \in Range(blocks[c])
               inFresh == \E c \in Caches : b \in Range(fresh[c])
    <3>1. Cardinality(Places(b, blocks)) = IF inTable THEN 1 ELSE 0
      <4>1. blocks \in [Caches -> Seq(Blocks)] /\ \A c \in Caches : NoDuplicates(blocks[c])
        BY DEF IInv, TableType, Unique
      <4>2. \A c, d \in Caches : c # d => Range(blocks[c]) \cap Range(blocks[d]) = {}
        BY DEF IInv, Unique, Held
      <4> QED
        BY <4>1, <4>2, PlacesFacts
    <3>2. Cardinality(Places(b, fresh)) = IF inFresh THEN 1 ELSE 0
      <4>1. fresh \in [Caches -> Seq(Blocks)] /\ \A c \in Caches : NoDuplicates(fresh[c])
        BY DEF IInv, TableType, Unique
      <4>2. \A c, d \in Caches : c # d => Range(fresh[c]) \cap Range(fresh[d]) = {}
        BY DEF IInv, Unique, Held
      <4> QED
        BY <4>1, <4>2, PlacesFacts
    <3>3. ~(inTable /\ inFresh)
      <4> SUFFICES ASSUME NEW c \in Caches, b \in Range(blocks[c]),
                          NEW d \in Caches, b \in Range(fresh[d])
                   PROVE FALSE
        OBVIOUS
      <4>1. b \in Held(c) /\ b \in Held(d)
        BY DEF Held
      <4>2. c = d
        BY <4>1 DEF IInv, Unique
      <4> QED
        BY <4>2 DEF IInv, Unique
    <3>4. b \in AllHeld <=> inTable \/ inFresh
      BY DEF AllHeld, Held
    <3>5. refcount[b] = (IF b \in AllHeld THEN 1 ELSE 0) + shares[b]
      BY DEF IInv, Ledger
    <3>6. shares[b] \in Nat
      BY PagedKvCacheAssumption DEF IInv, PoolType
    <3> HIDE DEF inTable, inFresh
    <3> QED
      BY <3>1, <3>2, <3>3, <3>4, <3>5, <3>6 DEF Owners
  <2>4. /\ \A b \in Blocks : refcount[b] = 0 <=> b \in ToSet(freeList)
        /\ IsInjective(freeList)
    BY SameNames DEF IInv, Ledger
  <2>5. Len(freeList) = NumBlocks - used
    BY DEF IInv, Ledger
  <2> QED
    BY <2>1, <2>2, <2>3, <2>4, <2>5 DEF PoolExact
<1> QED
  BY <1>1, Invariance, PTL
----------------------------------------------------------------------------
(* The contract: each layer shows what was appended to it. *)

\* A forward in progress: what it may write, and where.
OneView(c) ==
  /\ pc[c] \in {"alloc", "undo"} => nextLayer[c] = 0
  /\ pc[c] = "alloc" => call[c].count \in Batches /\ call[c].value \in Contents[c]
  /\ pc[c] = "idle" /\ nextLayer[c] # 0 =>
       /\ Len(pending[c]) \in Batches /\ Len(pending[c]) <= numTokens[c]
       /\ \A i \in 1..Len(pending[c]) :
            pending[c][i] = SlotOf(blocks[c], numTokens[c] - Len(pending[c]) + i - 1)

ViewInv == \A c \in Caches : OneView(c)

\* What the views of all layers show, KvContract's variable.
History == [c \in Caches |-> [l \in Layers |-> View(c, l)]]

\* One slot is one offset in one block.
LEMMA SlotUnique ==
  ASSUME NEW bs \in Seq(Blocks), NEW ds \in Seq(Blocks), NEW p \in Nat, NEW q \in Nat,
         p \div BlockSize + 1 \in DOMAIN bs, q \div BlockSize + 1 \in DOMAIN ds,
         SlotOf(bs, p) = SlotOf(ds, q)
  PROVE  /\ bs[p \div BlockSize + 1] = ds[q \div BlockSize + 1]
         /\ p % BlockSize = q % BlockSize
<1>1. PICK a : a = bs[p \div BlockSize + 1]
  OBVIOUS
<1>2. PICK b : b = ds[q \div BlockSize + 1]
  OBVIOUS
<1>3. a \in Nat /\ b \in Nat /\ BlockSize \in Nat \ {0}
  BY <1>1, <1>2, Sizes DEF Blocks
<1>4. PICK r \in Nat : r = p % BlockSize /\ r < BlockSize
  BY <1>3, DivMod
<1>5. PICK t \in Nat : t = q % BlockSize /\ t < BlockSize
  BY <1>3, DivMod
<1>6. a * BlockSize + r = b * BlockSize + t
  BY <1>1, <1>2, <1>4, <1>5 DEF SlotOf
<1>7. a = b /\ r = t
  BY <1>3, <1>4, <1>5, <1>6, DivModUnique
<1> QED
  BY <1>1, <1>2, <1>4, <1>5, <1>7

\* In a table no two positions have the same slot.
LEMMA SlotsDiffer ==
  ASSUME NEW bs \in Seq(Blocks), NoDuplicates(bs), NEW p \in Nat, NEW q \in Nat,
         p \div BlockSize + 1 \in DOMAIN bs, q \div BlockSize + 1 \in DOMAIN bs,
         SlotOf(bs, p) = SlotOf(bs, q)
  PROVE  p = q
<1>1. /\ bs[p \div BlockSize + 1] = bs[q \div BlockSize + 1]
      /\ p % BlockSize = q % BlockSize
  BY SlotUnique
<1>2. p \div BlockSize + 1 = q \div BlockSize + 1
  BY <1>1 DEF NoDuplicates
<1>3. BlockSize \in Nat \ {0}
  BY Sizes
<1>4. PICK a \in Nat : a = p \div BlockSize
  BY <1>3, DivMod
<1>5. PICK b \in Nat : b = q \div BlockSize
  BY <1>3, DivMod
<1>6. a = b
  BY <1>2, <1>4, <1>5
<1>7. p = a * BlockSize + (p % BlockSize) /\ q = b * BlockSize + (q % BlockSize)
  BY <1>3, <1>4, <1>5, DivMod
<1> QED
  BY <1>1, <1>6, <1>7

\* Tables that begin with the same blocks map the same positions alike.
LEMMA SameSlots ==
  ASSUME NEW bs \in Seq(Blocks), NEW ds \in Seq(Blocks), NEW n \in Nat,
         \A i \in 1..BlocksFor(n) : bs[i] = ds[i]
  PROVE  \A p \in Nat : p < n => SlotOf(bs, p) = SlotOf(ds, p)
<1> SUFFICES ASSUME NEW p \in Nat, p < n PROVE SlotOf(bs, p) = SlotOf(ds, p)
  OBVIOUS
<1>1. p \div BlockSize + 1 \in 1..BlocksFor(n)
  BY BlocksForFacts
<1> QED
  BY <1>1 DEF SlotOf

\* What a layer shows is in the table.
LEMMA Reach ==
  ASSUME IInv, ViewInv, NEW c \in Caches, NEW l \in Layers
  PROVE  /\ Visible(c, l) \in Nat /\ BlocksFor(Visible(c, l)) <= Len(blocks[c])
         /\ BlocksFor(Visible(c, l)) \in Nat /\ Len(blocks[c]) \in Nat
         /\ \A p \in Nat : p < Visible(c, l) =>
              /\ p \div BlockSize + 1 \in DOMAIN blocks[c]
              /\ SlotOf(blocks[c], p) \in Slots
<1>1. /\ numTokens[c] \in Nat /\ call[c].keep \in Nat /\ blocks[c] \in Seq(Blocks)
      /\ pc[c] \in {"idle", "alloc", "undo", "truncate", "drop"}
  BY DEF IInv, TableType
<1>2. Visible(c, l) \in Nat /\ BlocksFor(Visible(c, l)) <= Len(blocks[c])
  <2>1. CASE pc[c] = "drop"
    <3>1. Visible(c, l) = 0 /\ BlocksFor(0) = 0 /\ Len(blocks[c]) \in Nat
      BY <1>1, <2>1, BlocksForFacts DEF Visible
    <3> QED
      BY <3>1
  <2>2. CASE pc[c] = "truncate"
    <3>1. Visible(c, l) = call[c].keep
      BY <2>2 DEF Visible
    <3> QED
      BY <1>1, <2>2, <3>1 DEF IInv, TableInv, OneTable
  <2>3. CASE pc[c] \in {"idle", "alloc", "undo"}
    <3>1. Len(blocks[c]) = BlocksFor(numTokens[c])
      BY <2>3 DEF IInv, TableInv, OneTable
    <3>2. Visible(c, l) \in Nat /\ Visible(c, l) <= numTokens[c]
      <4>1. CASE nextLayer[c] = 0 \/ l < nextLayer[c]
        BY <1>1, <2>3, <4>1 DEF Visible
      <4>2. CASE ~(nextLayer[c] = 0 \/ l < nextLayer[c])
        <5>1. pc[c] = "idle" /\ Len(pending[c]) <= numTokens[c] /\ Len(pending[c]) \in Nat
          BY <2>3, <4>2 DEF ViewInv, OneView, IInv, SlotType
        <5>2. Visible(c, l) = numTokens[c] - Len(pending[c])
          BY <2>3, <4>2 DEF Visible
        <5> QED
          BY <1>1, <5>1, <5>2
      <4> QED
        BY <4>1, <4>2
    <3> QED
      BY <1>1, <3>1, <3>2, BlocksForFacts
  <2> QED
    BY <1>1, <2>1, <2>2, <2>3
<1>3. BlocksFor(Visible(c, l)) \in Nat /\ Len(blocks[c]) \in Nat
  BY <1>1, <1>2, BlocksForFacts
<1>4. ASSUME NEW p \in Nat, p < Visible(c, l)
      PROVE  /\ p \div BlockSize + 1 \in DOMAIN blocks[c]
             /\ SlotOf(blocks[c], p) \in Slots
  <2>1. p \div BlockSize + 1 \in 1..BlocksFor(Visible(c, l))
    BY <1>2, <1>4, BlocksForFacts
  <2>2. p \div BlockSize + 1 \in DOMAIN blocks[c]
    BY <1>1, <1>2, <1>3, <2>1
  <2>3. SlotOf(blocks[c], p) \in Slots
    BY <1>1, <2>2, SlotInSlab
  <2> QED
    BY <2>2, <2>3
<1> QED
  BY <1>2, <1>3, <1>4

\* The view of a layer where neither its length nor what it reads changes.
LEMMA ViewSame ==
  ASSUME NEW c \in Caches, NEW l \in Layers, Visible(c, l) \in Nat,
         Visible(c, l)' = Visible(c, l),
         \A p \in Nat : p < Visible(c, l) =>
           slab'[l][SlotOf(blocks'[c], p)] = slab[l][SlotOf(blocks[c], p)]
  PROVE  View(c, l)' = View(c, l)
<1>1. \A i \in 1..Visible(c, l) : i - 1 \in Nat /\ i - 1 < Visible(c, l)
  OBVIOUS
<1>2. \A i \in 1..Visible(c, l) :
        slab'[l][SlotOf(blocks'[c], i - 1)] = slab[l][SlotOf(blocks[c], i - 1)]
  BY <1>1
<1>3. View(c, l)' = [i \in 1..Visible(c, l)' |-> slab'[l][SlotOf(blocks'[c], i - 1)]]
  BY DEF View, SlotOf
<1>4. View(c, l) = [i \in 1..Visible(c, l) |-> slab[l][SlotOf(blocks[c], i - 1)]]
  BY DEF View
<1> QED
  BY <1>2, <1>3, <1>4

\* The sequence that begins as one and goes on as the other joins them.
LEMMA JoinIs ==
  ASSUME NEW X, NEW w \in Seq(X), NEW t \in Seq(X), NEW u \in Seq(X),
         Len(u) = Len(w) + Len(t),
         \A i \in 1..Len(w) : u[i] = w[i], \A i \in 1..Len(t) : u[Len(w) + i] = t[i]
  PROVE  u = w \o t
<1>0. PICK m, n \in Nat : m = Len(w) /\ n = Len(t) /\ Len(u) = m + n
  OBVIOUS
<1>1. PICK j : j = w \o t
  OBVIOUS
<1>2. /\ j = [i \in 1..(m + n) |-> j[i]]
      /\ \A i \in 1..(m + n) : j[i] = IF i <= m THEN w[i] ELSE t[i - m]
  <2>1. /\ w \o t \in Seq(X) /\ DOMAIN (w \o t) = 1..(m + n)
        /\ \A i \in 1..(m + n) : (w \o t)[i] = IF i <= m THEN w[i] ELSE t[i - m]
    BY <1>0, JoinFacts
  <2>2. j \in Seq(X) /\ DOMAIN j = 1..(m + n)
    BY <1>1, <2>1
  <2>3. j = [i \in 1..(m + n) |-> j[i]]
    BY <2>2
  <2> QED
    BY <1>1, <2>1, <2>3
<1>3. ASSUME NEW i \in 1..(m + n) PROVE u[i] = j[i]
  <2>1. CASE i <= m
    <3>1. i \in 1..m
      BY <2>1
    <3> QED
      BY <1>0, <1>2, <2>1, <3>1
  <2>2. CASE ~(i <= m)
    <3>1. i - m \in 1..n /\ m + (i - m) = i
      BY <2>2
    <3>2. u[m + (i - m)] = t[i - m]
      BY <1>0, <3>1
    <3> QED
      BY <1>2, <2>2, <3>1, <3>2
  <2> QED
    BY <2>1, <2>2
<1>4. u = [i \in 1..(m + n) |-> u[i]]
  BY <1>0
<1> QED
  BY <1>1, <1>2, <1>3, <1>4

\* Steps that write nothing and leave the visible part of every table alone.
LEMMA QuietViews ==
  ASSUME IInv, ViewInv, slab' = slab,
         \A c \in Caches : blocks'[c] \in Seq(Blocks),
         \A c \in Caches : \A l \in Layers :
           /\ Visible(c, l)' = Visible(c, l)
           /\ \A i \in 1..BlocksFor(Visible(c, l)) : blocks'[c][i] = blocks[c][i]
  PROVE  History' = History
<1>1. ASSUME NEW c \in Caches, NEW l \in Layers PROVE View(c, l)' = View(c, l)
  <2>1. PICK n \in Nat : n = Visible(c, l)
    BY Reach
  <2>2. blocks[c] \in Seq(Blocks) /\ blocks'[c] \in Seq(Blocks)
    BY ListFacts
  <2>3. \A i \in 1..BlocksFor(n) : blocks'[c][i] = blocks[c][i]
    BY <2>1
  <2>4. \A p \in Nat : p < n => SlotOf(blocks'[c], p) = SlotOf(blocks[c], p)
    BY <2>2, <2>3, SameSlots
  <2> QED
    BY <2>1, <2>4, ViewSame
<1> QED
  BY <1>1 DEF History

\* Layer l of cache c writes n values v at the positions behind those it shows.
LEMMA WriteViews ==
  ASSUME IInv, ViewInv, NEW c \in Caches, NEW l \in Layers, NEW v \in Values \cup {Zero}, NEW n \in Nat,
         NEW slots \in Seq(Slots), NEW bs \in Seq(Blocks), NoDuplicates(bs),
         Range(bs) \subseteq Held(c),
         Len(blocks[c]) <= Len(bs), \A i \in 1..Len(blocks[c]) : bs[i] = blocks[c][i],
         blocks' = [blocks EXCEPT ![c] = bs],
         Scatter(l, slots, v), Len(slots) = n,
         \A i \in 1..n : /\ slots[i] = SlotOf(bs, Visible(c, l) + i - 1)
                         /\ (Visible(c, l) + i - 1) \div BlockSize + 1 \in DOMAIN bs,
         Visible(c, l)' = Visible(c, l) + n,
         \A k \in Layers \ {l} : Visible(c, k)' = Visible(c, k),
         \A d \in Caches \ {c} : \A k \in Layers : Visible(d, k)' = Visible(d, k)
  PROVE  History' = [History EXCEPT ![c][l] = @ \o [i \in 1..n |-> v]]
<1>1. PICK m \in Nat : m = Visible(c, l)
  BY Reach
<1>2. /\ \A d \in Caches : blocks[d] \in Seq(Blocks) /\ blocks'[d] \in Seq(Blocks)
      /\ blocks'[c] = bs /\ \A d \in Caches \ {c} : blocks'[d] = blocks[d]
  BY DEF IInv, TableType
<1>3. /\ \A k \in Layers \ {l} : slab'[k] = slab[k]
      /\ \A s \in Slots : slab'[l][s] = IF s \in ToSet(slots) THEN v ELSE slab[l][s]
  BY DEF Scatter, IInv, SlotType
<1>4. ASSUME NEW s \in ToSet(slots)
      PROVE  \E i \in 1..n : /\ s = SlotOf(bs, m + i - 1) /\ m + i - 1 \in Nat
                             /\ (m + i - 1) \div BlockSize + 1 \in DOMAIN bs
  <2>1. PICK i \in 1..n : s = slots[i]
    BY DEF ToSet
  <2>2. m + i - 1 \in Nat
    OBVIOUS
  <2> QED
    BY <1>1, <2>1, <2>2
<1>5. ASSUME NEW p \in Nat, p < m
      PROVE  /\ SlotOf(bs, p) = SlotOf(blocks[c], p)
             /\ p \div BlockSize + 1 \in DOMAIN bs
             /\ SlotOf(blocks[c], p) \in Slots
  <2>1. BlocksFor(m) \in Nat /\ BlocksFor(m) <= Len(blocks[c]) /\ Len(blocks[c]) \in Nat
    BY <1>1, Reach
  <2>2. \A i \in 1..BlocksFor(m) : bs[i] = blocks[c][i]
    BY <2>1
  <2>3. SlotOf(bs, p) = SlotOf(blocks[c], p)
    <3>1. blocks[c] \in Seq(Blocks)
      BY <1>2
    <3>2. \A q \in Nat : q < m => SlotOf(bs, q) = SlotOf(blocks[c], q)
      BY <2>2, <3>1, SameSlots
    <3> QED
      BY <1>5, <3>2
  <2>4. p \div BlockSize + 1 \in DOMAIN blocks[c] /\ SlotOf(blocks[c], p) \in Slots
    BY <1>1, <1>5, Reach
  <2>5. p \div BlockSize + 1 \in DOMAIN bs
    <3>1. PICK x : x = p \div BlockSize + 1
      OBVIOUS
    <3>2. x \in 1..Len(blocks[c])
      BY <1>2, <2>4, <3>1
    <3>3. Len(bs) \in Nat /\ DOMAIN bs = 1..Len(bs)
      OBVIOUS
    <3> QED
      BY <2>1, <3>1, <3>2, <3>3
  <2> QED
    BY <2>3, <2>4, <2>5
<1>6. ASSUME NEW d \in Caches \ {c}, NEW k \in Layers PROVE View(d, k)' = View(d, k)
  <2>1. ASSUME NEW p \in Nat, p < Visible(d, k)
        PROVE  slab'[k][SlotOf(blocks'[d], p)] = slab[k][SlotOf(blocks[d], p)]
    <3>1. PICK s \in Slots : s = SlotOf(blocks[d], p)
      BY <2>1, Reach
    <3>2. p \div BlockSize + 1 \in DOMAIN blocks[d]
      BY <2>1, Reach
    <3>3. s \notin ToSet(slots)
      <4> SUFFICES ASSUME s \in ToSet(slots) PROVE FALSE
        OBVIOUS
      <4>1. PICK i \in 1..n : /\ s = SlotOf(bs, m + i - 1) /\ m + i - 1 \in Nat
                              /\ (m + i - 1) \div BlockSize + 1 \in DOMAIN bs
        BY <1>4
      <4>2. PICK q \in Nat : q = m + i - 1
        BY <4>1
      <4>3. bs[q \div BlockSize + 1] = blocks[d][p \div BlockSize + 1]
        <5>1. PICK ds \in Seq(Blocks) : ds = blocks[d]
          BY <1>2
        <5>2. /\ q \div BlockSize + 1 \in DOMAIN bs /\ p \div BlockSize + 1 \in DOMAIN ds
              /\ SlotOf(bs, q) = SlotOf(ds, p)
          BY <3>1, <3>2, <4>1, <4>2, <5>1
        <5>3. bs[q \div BlockSize + 1] = ds[p \div BlockSize + 1]
          BY <5>2, SlotUnique
        <5> QED
          BY <5>1, <5>3
      <4>4. bs[q \div BlockSize + 1] \in Held(c)
        BY <4>1, <4>2 DEF Range
      <4>5. blocks[d][p \div BlockSize + 1] \in Held(d)
        BY <3>2 DEF Held, Range
      <4> QED
        BY <4>3, <4>4, <4>5 DEF IInv, Unique
    <3> QED
      BY <1>2, <1>3, <3>1, <3>3
  <2> QED
    BY <2>1, Reach, ViewSame
<1>7. ASSUME NEW k \in Layers \ {l} PROVE View(c, k)' = View(c, k)
  <2>1. PICK j \in Nat : /\ j = Visible(c, k) /\ BlocksFor(j) <= Len(blocks[c])
                         /\ BlocksFor(j) \in Nat /\ Len(blocks[c]) \in Nat
    BY Reach
  <2>2. \A i \in 1..BlocksFor(j) : bs[i] = blocks[c][i]
    BY <2>1
  <2>3. \A p \in Nat : p < j => SlotOf(bs, p) = SlotOf(blocks[c], p)
    BY <1>2, <2>2, SameSlots
  <2>4. \A p \in Nat : p < j => slab'[k][SlotOf(blocks'[c], p)] = slab[k][SlotOf(blocks[c], p)]
    BY <1>2, <1>3, <2>3
  <2> QED
    BY <2>1, <2>4, ViewSame
<1>8. View(c, l)' = View(c, l) \o [i \in 1..n |-> v]
  <2>1. PICK w : w = View(c, l)
    OBVIOUS
  <2>2. w = [i \in 1..m |-> slab[l][SlotOf(blocks[c], i - 1)]]
    BY <1>1, <2>1 DEF View
  <2>3. PICK u : u = View(c, l)'
    OBVIOUS
  <2>4. u = [i \in 1..(m + n) |-> slab'[l][SlotOf(bs, i - 1)]]
    BY <1>1, <1>2, <2>3 DEF View, SlotOf
  <2>5. ASSUME NEW i \in 1..m PROVE u[i] = w[i]
    <3>1. PICK p \in Nat : p = i - 1 /\ p < m
      OBVIOUS
    <3>2. PICK s \in Slots : s = SlotOf(blocks[c], p) /\ s = SlotOf(bs, p)
      BY <1>5, <3>1
    <3>3. s \notin ToSet(slots)
      <4> SUFFICES ASSUME s \in ToSet(slots) PROVE FALSE
        OBVIOUS
      <4>1. PICK j \in 1..n : /\ s = SlotOf(bs, m + j - 1) /\ m + j - 1 \in Nat
                              /\ (m + j - 1) \div BlockSize + 1 \in DOMAIN bs
        BY <1>4
      <4>2. PICK q \in Nat : q = m + j - 1
        BY <4>1
      <4>3. p \div BlockSize + 1 \in DOMAIN bs
        BY <1>5, <3>1
      <4>4. p = q
        BY <3>2, <4>1, <4>2, <4>3, SlotsDiffer
      <4> QED
        BY <3>1, <4>2, <4>4
    <3>4. slab'[l][s] = slab[l][s]
      BY <1>3, <3>3
    <3>5. u[i] = slab'[l][SlotOf(bs, i - 1)] /\ w[i] = slab[l][SlotOf(blocks[c], i - 1)]
      BY <2>2, <2>4
    <3> QED
      BY <3>1, <3>2, <3>4, <3>5
  <2>6. ASSUME NEW i \in 1..n PROVE u[m + i] = v
    <3>1. slots[i] = SlotOf(bs, m + i - 1) /\ slots[i] \in Slots /\ slots[i] \in ToSet(slots)
      BY <1>1 DEF ToSet
    <3>2. slab'[l][slots[i]] = v
      BY <1>3, <3>1
    <3>3. m + i \in 1..(m + n) /\ (m + i) - 1 = m + i - 1
      OBVIOUS
    <3>4. u[m + i] = slab'[l][SlotOf(bs, (m + i) - 1)]
      BY <2>4, <3>3
    <3> QED
      BY <3>1, <3>2, <3>3, <3>4
  <2>7. PICK t : t = [i \in 1..n |-> v]
    OBVIOUS
  <2>8. u = w \o t
    <3>1. slab[l] \in [Slots -> Values \cup {Zero}]
      BY DEF IInv, SlotType
    <3>2. \A i \in 1..m : SlotOf(blocks[c], i - 1) \in Slots
      BY <1>5
    <3>3. w \in Seq(Values \cup {Zero}) /\ Len(w) = m
      BY <2>2, <3>1, <3>2
    <3>4. t \in Seq(Values \cup {Zero}) /\ Len(t) = n /\ \A i \in 1..n : t[i] = v
      BY <2>7
    <3>5. \A i \in 1..n : u[m + i] = t[i]
      BY <2>6, <3>4
    <3>6. \A i \in 1..m : u[i] = w[i]
      BY <2>5
    <3>7. u \in [1..(m + n) -> Values \cup {Zero}]
      <4>1. ASSUME NEW i \in 1..(m + n) PROVE u[i] \in Values \cup {Zero}
        <5>1. CASE i \in 1..m
          BY <3>3, <3>6, <5>1
        <5>2. CASE i \notin 1..m
          <6>1. i - m \in 1..n /\ m + (i - m) = i
            BY <5>2
          <6> QED
            BY <2>6, <6>1
        <5> QED
          BY <5>1, <5>2
      <4> QED
        BY <2>4, <4>1
    <3>8. u \in Seq(Values \cup {Zero}) /\ Len(u) = Len(w) + Len(t)
      BY <3>3, <3>4, <3>7
    <3>9. \A i \in 1..Len(w) : u[i] = w[i]
      BY <3>3, <3>6
    <3>10. \A i \in 1..Len(t) : u[Len(w) + i] = t[i]
      BY <3>3, <3>4, <3>5
    <3> QED
      BY <3>3, <3>4, <3>8, <3>9, <3>10, JoinIs
  <2> QED
    BY <2>1, <2>3, <2>7, <2>8
<1>9. PICK t : t = [i \in 1..n |-> v]
  OBVIOUS
<1>10. \A d \in Caches : \A k \in Layers :
         View(d, k)' = IF d = c /\ k = l THEN View(d, k) \o t ELSE View(d, k)
  BY <1>6, <1>7, <1>8, <1>9
<1>11. History' = [History EXCEPT ![c][l] = @ \o t]
  <2>1. History' = [d \in Caches |-> [k \in Layers |-> View(d, k)']]
    BY DEF History, Layers
  <2>2. [History EXCEPT ![c][l] = @ \o t]
          = [d \in Caches |-> [k \in Layers |->
               IF d = c /\ k = l THEN View(d, k) \o t ELSE View(d, k)]]
    BY DEF History
  <2>3. \A d \in Caches : \A k \in Layers :
          View(d, k)' = IF d = c /\ k = l THEN View(d, k) \o t ELSE View(d, k)
    BY <1>10
  <2>4. [d \in Caches |-> [k \in Layers |-> View(d, k)']]
          = [d \in Caches |-> [k \in Layers |->
               IF d = c /\ k = l THEN View(d, k) \o t ELSE View(d, k)]]
    BY <2>3, Zenon
  <2> QED
    BY <2>1, <2>2, <2>4, Zenon
<1> QED
  BY <1>9, <1>11

\* A step of one cache leaves the views of the others as they are.
LEMMA OneCacheViews ==
  ASSUME IInv, ViewInv, NEW c \in Caches,
         \A d \in Caches \ {c} :
           /\ pc'[d] = pc[d] /\ blocks'[d] = blocks[d] /\ numTokens'[d] = numTokens[d]
           /\ pending'[d] = pending[d] /\ nextLayer'[d] = nextLayer[d] /\ call'[d] = call[d],
         OneView(c)'
  PROVE  /\ ViewInv'
         /\ \A d \in Caches \ {c} : \A l \in Layers : Visible(d, l)' = Visible(d, l)
<1>1. ASSUME NEW d \in Caches \ {c} PROVE OneView(d)'
  BY DEF ViewInv, OneView, SlotOf
<1>2. ViewInv'
  BY <1>1 DEF ViewInv
<1>3. ASSUME NEW d \in Caches \ {c}, NEW l \in Layers PROVE Visible(d, l)' = Visible(d, l)
  BY DEF Visible
<1> QED
  BY <1>2, <1>3

\* A step of one cache that writes nothing and changes nothing it shows.
LEMMA QuietCache ==
  ASSUME IInv, IInv', ViewInv, NEW c \in Caches, slab' = slab,
         \A d \in Caches \ {c} :
           /\ pc'[d] = pc[d] /\ blocks'[d] = blocks[d] /\ numTokens'[d] = numTokens[d]
           /\ pending'[d] = pending[d] /\ nextLayer'[d] = nextLayer[d] /\ call'[d] = call[d],
         OneView(c)',
         \A l \in Layers : Visible(c, l)' = Visible(c, l),
         \A l \in Layers : \A i \in 1..BlocksFor(Visible(c, l)) : blocks'[c][i] = blocks[c][i]
  PROVE  ViewInv' /\ History' = History
<1>1. /\ ViewInv'
      /\ \A d \in Caches \ {c} : \A l \in Layers : Visible(d, l)' = Visible(d, l)
  BY OneCacheViews
<1>2. \A d \in Caches : blocks'[d] \in Seq(Blocks)
  BY DEF IInv, TableType
<1>3. \A d \in Caches : \A l \in Layers :
        /\ Visible(d, l)' = Visible(d, l)
        /\ \A i \in 1..BlocksFor(Visible(d, l)) : blocks'[d][i] = blocks[d][i]
  BY <1>1
<1> QED
  BY <1>1, <1>2, <1>3, QuietViews

\* Steps that concern the pool alone.
LEMMA PoolView ==
  ASSUME IInv, ViewInv, UNCHANGED <<slab, pc, tableVars, call>>
  PROVE  ViewInv' /\ History' = History
<1> USE DEF tableVars
<1>1. ViewInv'
  BY DEF ViewInv, OneView, SlotOf
<1>2. \A c \in Caches : blocks'[c] \in Seq(Blocks)
  BY ListFacts
<1>3. \A c \in Caches : \A l \in Layers : Visible(c, l)' = Visible(c, l)
  BY DEF Visible
<1> QED
  BY <1>1, <1>2, <1>3, QuietViews

\* An append begins.
LEMMA OpenForwardView ==
  ASSUME IInv, IInv', ViewInv, NEW c \in Caches, NEW n \in Batches, NEW v \in Contents[c],
         OpenForward(c, n, v)
  PROVE  ViewInv' /\ History' = History
<1> USE DEF OpenForward, tableVars
<1>1. /\ pc'[c] = "alloc" /\ call'[c].count = n /\ call'[c].value = v
      /\ \A d \in Caches \ {c} : pc'[d] = pc[d] /\ call'[d] = call[d]
  BY DEF IInv, TableType
<1>2. OneView(c)'
  BY <1>1 DEF OneView
<1>3. \A l \in Layers : Visible(c, l)' = Visible(c, l)
  BY <1>1 DEF Visible
<1> QED
  BY <1>1, <1>2, <1>3, QuietCache

\* An append that found the pool dry, or has given everything back.
LEMMA FailView ==
  ASSUME IInv, IInv', ViewInv, NEW c \in Caches, Exhausted(c) \/ FailAppend(c)
  PROVE  ViewInv' /\ History' = History
<1>1. /\ slab' = slab /\ blocks' = blocks /\ numTokens' = numTokens /\ nextLayer' = nextLayer
      /\ nextLayer[c] = 0 /\ pc[c] \in {"alloc", "undo"} /\ pc'[c] \in {"undo", "idle"}
      /\ \A d \in Caches \ {c} : pc'[d] = pc[d] /\ pending'[d] = pending[d] /\ call'[d] = call[d]
  BY DEF Exhausted, FailAppend, tableVars, ViewInv, OneView, IInv, TableType, SlotType
<1>2. OneView(c)'
  BY <1>1 DEF OneView
<1>3. \A l \in Layers : Visible(c, l)' = Visible(c, l)
  BY <1>1 DEF Visible
<1> QED
  BY <1>1, <1>2, <1>3, QuietCache

\* One block goes back in a truncation: none that the kept tokens are in.
LEMMA TruncateOneView ==
  ASSUME IInv, IInv', ViewInv, NEW c \in Caches, TruncateOne(c)
  PROVE  ViewInv' /\ History' = History
<1> USE DEF TruncateOne
<1>1. PICK k \in Nat : k = call[c].keep
  BY DEF IInv, TableType
<1>2. /\ pc[c] = "truncate" /\ Len(blocks[c]) > BlocksFor(k)
      /\ blocks'[c] = Front(blocks[c])
      /\ \A d \in Caches \ {c} : blocks'[d] = blocks[d]
  BY <1>1 DEF IInv, TableType
<1>3. OneView(c)'
  BY <1>2 DEF OneView
<1>4. \A l \in Layers : Visible(c, l)' = Visible(c, l) /\ Visible(c, l) = k
  BY <1>1, <1>2 DEF Visible
<1>5. \A i \in 1..BlocksFor(k) : blocks'[c][i] = blocks[c][i]
  <2>1. blocks[c] \in Seq(Blocks) /\ BlocksFor(k) \in Nat
    BY <1>1, BlocksForFacts, ListFacts
  <2>2. \A i \in 1..(Len(blocks[c]) - 1) : SubSeq(blocks[c], 1, Len(blocks[c]) - 1)[i] = blocks[c][i]
    BY <2>1
  <2> QED
    BY <1>2, <2>1, <2>2 DEF Front
<1> QED
  BY <1>2, <1>3, <1>4, <1>5, QuietCache

\* The truncation ends: what it showed is what is left.
LEMMA EndTruncateView ==
  ASSUME IInv, IInv', ViewInv, NEW c \in Caches, EndTruncate(c)
  PROVE  ViewInv' /\ History' = History
<1> USE DEF EndTruncate
<1>1. /\ pc[c] = "truncate" /\ pc'[c] = "idle" /\ nextLayer'[c] = 0
      /\ numTokens'[c] = call[c].keep
      /\ \A d \in Caches \ {c} :
           /\ pc'[d] = pc[d] /\ numTokens'[d] = numTokens[d] /\ pending'[d] = pending[d]
           /\ nextLayer'[d] = nextLayer[d] /\ call'[d] = call[d]
  BY DEF IInv, TableType, SlotType
<1>2. OneView(c)'
  BY <1>1 DEF OneView
<1>3. \A l \in Layers : Visible(c, l)' = Visible(c, l)
  BY <1>1 DEF Visible
<1> QED
  BY <1>1, <1>2, <1>3, QuietCache

\* A cache under destruction shows nothing.
LEMMA DropView ==
  ASSUME IInv, IInv', ViewInv, NEW c \in Caches, DropOne(c) \/ EndDrop(c)
  PROVE  ViewInv' /\ History' = History
<1>1. /\ slab' = slab /\ pc[c] = "drop"
      /\ \A d \in Caches \ {c} :
           /\ pc'[d] = pc[d] /\ blocks'[d] = blocks[d] /\ numTokens'[d] = numTokens[d]
           /\ pending'[d] = pending[d] /\ nextLayer'[d] = nextLayer[d] /\ call'[d] = call[d]
      /\ \/ pc'[c] = "drop"
         \/ pc'[c] = "idle" /\ nextLayer'[c] = 0 /\ numTokens'[c] = 0
  <2>1. CASE DropOne(c)
    BY <2>1 DEF DropOne, IInv, TableType
  <2>2. CASE EndDrop(c)
    BY <2>2 DEF EndDrop, IInv, TableType, SlotType
  <2> QED
    BY <2>1, <2>2
<1>2. OneView(c)'
  BY <1>1 DEF OneView
<1>3. \A l \in Layers : Visible(c, l)' = Visible(c, l) /\ Visible(c, l) = 0
  BY <1>1 DEF Visible
<1>4. 1..BlocksFor(0) = {}
  <2>1. BlocksFor(0) = 0
    BY BlocksForFacts
  <2> QED
    BY <2>1
<1>5. \A l \in Layers : \A i \in 1..BlocksFor(Visible(c, l)) : blocks'[c][i] = blocks[c][i]
  BY <1>3, <1>4
<1> QED
  BY <1>1, <1>2, <1>3, <1>5, QuietCache

\* The layer after l, and none after the last.
LEMMA NextLayerIs ==
  ASSUME NEW l \in Layers
  PROVE  (l + 1) % NumLayers = IF l + 1 = NumLayers THEN 0 ELSE l + 1
<1>1. NumLayers \in Nat \ {0} /\ l \in Nat /\ l < NumLayers
  BY Sizes DEF Layers
<1>2. PICK r \in Nat : r = (l + 1) % NumLayers /\ r < NumLayers
  BY <1>1, DivMod
<1>3. PICK q \in Nat : l + 1 = q * NumLayers + r
  <2>1. PICK k \in Nat : k = l + 1
    BY <1>1
  <2>2. k \div NumLayers \in Nat /\ k = (k \div NumLayers) * NumLayers + (k % NumLayers)
    BY <1>1, DivMod
  <2> QED
    BY <1>2, <2>1, <2>2
<1>4. CASE l + 1 = NumLayers
  <2>1. q * NumLayers + r = 1 * NumLayers + 0
    BY <1>1, <1>3, <1>4
  <2>2. 0 \in Nat /\ 0 < NumLayers /\ 1 \in Nat
    BY <1>1
  <2>3. r = 0
    BY <1>1, <1>2, <2>1, <2>2, DivModUnique
  <2> QED
    BY <1>2, <1>4, <2>3
<1>5. CASE l + 1 # NumLayers
  <2>1. q * NumLayers + r = 0 * NumLayers + (l + 1)
    BY <1>1, <1>3
  <2>2. l + 1 \in Nat /\ l + 1 < NumLayers /\ 0 \in Nat
    BY <1>1, <1>5
  <2>3. r = l + 1
    BY <1>1, <1>2, <2>1, <2>2, DivModUnique
  <2> QED
    BY <1>2, <1>5, <2>3
<1> QED
  BY <1>4, <1>5

\* To a reader, one layer of one cache has n more tokens, or every layer of one
\* cache is cut to n tokens.
Shown(c, l, n, v) == History' = [History EXCEPT ![c][l] = @ \o [i \in 1..n |-> v]]
CutTo(c, n) ==
  /\ \A l \in Layers : n <= Len(History[c][l])
  /\ History' = [History EXCEPT ![c] = [l \in Layers |-> SubSeq(@[l], 1, n)]]

\* Layer 0 shows the new tokens behind its old ones; the other layers do not yet.
LEMMA GrowView ==
  ASSUME IInv, IInv', ViewInv, NEW c \in Caches, Grow(c)
  PROVE  /\ ViewInv'
         /\ \E n \in Batches : \E v \in Values : Shown(c, 0, n, v)
<1> USE DEF Grow
<1>1. PICK bs : bs = blocks[c] \o fresh[c]
  OBVIOUS
<1>2. PICK n : n = call[c].count
  OBVIOUS
<1>3. PICK m : m = numTokens[c]
  OBVIOUS
<1>4. PICK slots : slots = [i \in 1..n |-> SlotOf(bs, m + i - 1)]
  OBVIOUS
<1>5. PICK v : v = call[c].value
  OBVIOUS
<1>6. /\ bs \in Seq(Blocks) /\ Range(bs) \subseteq Held(c) /\ NoDuplicates(bs)
      /\ n \in Nat /\ m \in Nat /\ Len(bs) = BlocksFor(m + n)
      /\ Len(bs) = Len(blocks[c]) + Len(fresh[c])
  BY <1>1, <1>2, <1>3, GrowTable
<1>7. /\ blocks' = [blocks EXCEPT ![c] = bs]
      /\ Scatter(0, slots, v)
  BY <1>1, <1>2, <1>3, <1>4, <1>5
<1>8. /\ nextLayer[c] = 0 /\ n \in Batches /\ v \in Contents[c]
  BY <1>2, <1>5 DEF ViewInv, OneView
<1>9. /\ pc[c] = "alloc" /\ pc'[c] = "idle" /\ numTokens'[c] = m + n /\ blocks'[c] = bs
      /\ pending'[c] = slots /\ nextLayer'[c] = 1 % NumLayers
      /\ \A d \in Caches \ {c} :
           /\ pc'[d] = pc[d] /\ blocks'[d] = blocks[d] /\ numTokens'[d] = numTokens[d]
           /\ pending'[d] = pending[d] /\ nextLayer'[d] = nextLayer[d] /\ call'[d] = call[d]
  BY <1>1, <1>2, <1>3, <1>4 DEF IInv, TableType, SlotType
<1>10. slots \in Seq(Slots) /\ Len(slots) = n
  <2>1. pending'[c] \in Seq(Slots)
    BY DEF IInv, SlotType
  <2>2. slots \in Seq(Slots)
    BY <1>9, <2>1
  <2>3. DOMAIN slots = 1..n
    BY <1>4
  <2>4. Len(slots) \in Nat /\ DOMAIN slots = 1..Len(slots)
    BY <2>2
  <2>5. 1..n = 1..Len(slots)
    BY <2>3, <2>4
  <2>6. Len(slots) = n
    <3>1. PICK k \in Nat : k = Len(slots) /\ 1..n = 1..k
      BY <2>4, <2>5, Zenon
    <3>2. Cardinality(1..k) = k /\ Cardinality(1..n) = n
      BY <1>6, CountUp
    <3> QED
      BY <3>1, <3>2, Zenon
  <2> QED
    BY <2>2, <2>6
<1>11. /\ \A l \in Layers : Visible(c, l) = m
       /\ Visible(c, 0)' = m + n
       /\ \A l \in Layers \ {0} : Visible(c, l)' = m
  <2>1. \A l \in Layers : Visible(c, l) = m
    BY <1>3, <1>8, <1>9 DEF Visible
  <2>2. 1 % NumLayers = IF 1 = NumLayers THEN 0 ELSE 1
    <3>1. 0 \in Layers /\ 0 + 1 = 1
      BY Sizes
    <3>2. (0 + 1) % NumLayers = IF 0 + 1 = NumLayers THEN 0 ELSE 0 + 1
      BY <3>1, NextLayerIs
    <3> QED
      BY <3>1, <3>2
  <2>3. Visible(c, 0)' = m + n
    BY <1>9, <2>2 DEF Visible
  <2>4. ASSUME NEW l \in Layers \ {0} PROVE Visible(c, l)' = m
    <3>1. l \in Nat /\ l >= 1 /\ 1 # NumLayers
      BY Sizes DEF Layers
    <3>2. nextLayer'[c] = 1 /\ ~(nextLayer'[c] = 0 \/ l < nextLayer'[c])
      BY <1>9, <2>2, <3>1
    <3>3. Visible(c, l)' = numTokens'[c] - Len(pending'[c])
      BY <1>9, <3>2 DEF Visible
    <3>4. Visible(c, l)' = (m + n) - n
      BY <1>9, <1>10, <3>3
    <3> QED
      BY <1>6, <3>4
  <2> QED
    BY <2>1, <2>3, <2>4
<1>12. OneView(c)'
  <2>1. (m + n) - n = m /\ n <= m + n
    BY <1>6
  <2>2. \A i \in 1..n : slots[i] = SlotOf(bs, (m + n) - n + i - 1)
    BY <1>4, <1>6, <2>1
  <2>3. \A i \in 1..Len(pending'[c]) :
          pending'[c][i] = SlotOf(blocks'[c], numTokens'[c] - Len(pending'[c]) + i - 1)
    BY <1>9, <1>10, <2>2
  <2> QED
    BY <1>6, <1>8, <1>9, <1>10, <2>1, <2>3 DEF OneView, SlotOf
<1>13. /\ ViewInv'
       /\ \A d \in Caches \ {c} : \A l \in Layers : Visible(d, l)' = Visible(d, l)
  BY <1>9, <1>12, OneCacheViews
<1>14. \A i \in 1..n : /\ slots[i] = SlotOf(bs, m + i - 1)
                       /\ (m + i - 1) \div BlockSize + 1 \in DOMAIN bs
  <2>1. \A i \in 1..n : m + i - 1 \in Nat /\ m + i - 1 < m + n /\ m + n \in Nat
    BY <1>6
  <2>2. \A i \in 1..n : (m + i - 1) \div BlockSize + 1 \in DOMAIN bs
    BY <1>6, <2>1, SlotFacts
  <2> QED
    BY <1>4, <2>2
<1>15. Len(blocks[c]) <= Len(bs) /\ \A i \in 1..Len(blocks[c]) : bs[i] = blocks[c][i]
  <2>1. PICK x \in Seq(Blocks) : x = blocks[c]
    BY ListFacts
  <2>2. PICK y \in Seq(Blocks) : y = fresh[c]
    BY ListFacts
  <2>3. bs = x \o y
    BY <1>1, <2>1, <2>2
  <2>4. Len(x) \in Nat /\ Len(y) \in Nat /\ Len(bs) = Len(x) + Len(y)
    BY <2>3
  <2>5. \A i \in 1..Len(x) : bs[i] = x[i]
    BY <2>3, <2>4
  <2> QED
    BY <2>1, <2>4, <2>5
<1>16. v \in Values /\ 0 \in Layers
  BY <1>8, Sizes DEF Values
<1>17. Shown(c, 0, n, v)
  <2>0. PICK l \in Layers : l = 0
    BY <1>16
  <2>1. /\ Visible(c, l) = m /\ Visible(c, l)' = Visible(c, l) + n
        /\ \A k \in Layers \ {l} : Visible(c, k)' = Visible(c, k)
    <3>1. Visible(c, l)' = Visible(c, 0)'
      BY <2>0
    <3> QED
      BY <1>11, <2>0, <3>1
  <2>2. \A i \in 1..n : /\ slots[i] = SlotOf(bs, Visible(c, l) + i - 1)
                        /\ (Visible(c, l) + i - 1) \div BlockSize + 1 \in DOMAIN bs
    BY <1>14, <2>1
  <2>3. Scatter(l, slots, v)
    BY <1>7, <2>0
  <2>4. History' = [History EXCEPT ![c][l] = @ \o [i \in 1..n |-> v]]
    BY <1>6, <1>7, <1>10, <1>13, <1>15, <1>16, <2>1, <2>2, <2>3, WriteViews
  <2> QED
    BY <2>0, <2>4 DEF Shown
<1> QED
  BY <1>8, <1>13, <1>16, <1>17

\* A later layer shows the forward's tokens behind its old ones.
LEMMA AppendLayerView ==
  ASSUME IInv, IInv', ViewInv, NEW c \in Caches, NEW v \in Contents[c], AppendLayer(c, v)
  PROVE  /\ ViewInv'
         /\ \E l \in Layers : \E n \in Batches : Shown(c, l, n, v)
<1> USE DEF AppendLayer
<1>1. PICK l \in Layers : l = nextLayer[c]
  BY DEF IInv, SlotType
<1>2. PICK slots \in Seq(Slots) : slots = pending[c]
  BY DEF IInv, SlotType
<1>3. PICK n \in Nat : n = Len(slots)
  OBVIOUS
<1>4. PICK m \in Nat : m = numTokens[c]
  BY DEF IInv, TableType
<1>5. PICK bs \in Seq(Blocks) : bs = blocks[c]
  BY ListFacts
<1>6. /\ pc[c] = "idle" /\ l # 0 /\ n \in Batches /\ n <= m
      /\ \A i \in 1..n : slots[i] = SlotOf(bs, m - n + i - 1)
  BY <1>1, <1>2, <1>3, <1>4, <1>5 DEF ViewInv, OneView
<1>7. PICK j \in Nat : j = m - n /\ m = j + n
  BY <1>6
<1>8. \A i \in 1..n : slots[i] = SlotOf(bs, j + i - 1)
  BY <1>6, <1>7
<1>9. /\ Len(bs) = BlocksFor(m) /\ Range(bs) \subseteq Held(c) /\ NoDuplicates(bs)
  BY <1>4, <1>5, <1>6, ListFacts DEF IInv, TableInv, OneTable
<1>10. /\ blocks' = [blocks EXCEPT ![c] = bs] /\ pc' = pc /\ numTokens' = numTokens
       /\ pending' = pending /\ call' = call /\ Scatter(l, slots, v)
  BY <1>1, <1>2, <1>5, ListFacts
<1>11. /\ nextLayer'[c] = (l + 1) % NumLayers
       /\ \A d \in Caches \ {c} : nextLayer'[d] = nextLayer[d]
  BY <1>1 DEF IInv, SlotType
<1>12. nextLayer'[c] = IF l + 1 = NumLayers THEN 0 ELSE l + 1
  BY <1>11, NextLayerIs
<1>13. l \in Nat /\ l < NumLayers /\ NumLayers \in Nat
  BY Sizes DEF Layers
<1>14. /\ Visible(c, l) = j /\ Visible(c, l)' = j + n
       /\ \A k \in Layers \ {l} : Visible(c, k)' = Visible(c, k)
  <2>1. Visible(c, l) = j
    BY <1>1, <1>2, <1>3, <1>4, <1>6, <1>7, <1>13 DEF Visible
  <2>2. Visible(c, l)' = j + n
    BY <1>4, <1>6, <1>7, <1>10, <1>12, <1>13 DEF Visible
  <2>3. ASSUME NEW k \in Layers \ {l} PROVE Visible(c, k)' = Visible(c, k)
    <3>1. k \in Nat /\ k < NumLayers
      BY Sizes DEF Layers
    <3>2. (nextLayer[c] = 0 \/ k < nextLayer[c]) <=> (nextLayer'[c] = 0 \/ k < nextLayer'[c])
      BY <1>1, <1>6, <1>12, <1>13, <3>1
    <3> QED
      BY <1>10, <3>2 DEF Visible
  <2> QED
    BY <2>1, <2>2, <2>3
<1>15. OneView(c)'
  <2>1. blocks' = blocks
    OBVIOUS
  <2> QED
    BY <1>1, <1>6, <1>10, <2>1 DEF ViewInv, OneView, SlotOf
<1>16. /\ ViewInv'
       /\ \A d \in Caches \ {c} : \A k \in Layers : Visible(d, k)' = Visible(d, k)
  BY <1>10, <1>11, <1>15, OneCacheViews
<1>17. \A i \in 1..n : (j + i - 1) \div BlockSize + 1 \in DOMAIN bs
  <2>1. \A i \in 1..n : j + i - 1 \in Nat /\ j + i - 1 < m
    BY <1>7
  <2> QED
    BY <1>9, <2>1, SlotFacts
<1>18. v \in Values
  BY DEF Values
<1>19. Shown(c, l, n, v)
  <2>1. \A i \in 1..n : /\ slots[i] = SlotOf(bs, Visible(c, l) + i - 1)
                        /\ (Visible(c, l) + i - 1) \div BlockSize + 1 \in DOMAIN bs
    BY <1>8, <1>14, <1>17
  <2>2. Len(blocks[c]) <= Len(bs) /\ \A i \in 1..Len(blocks[c]) : bs[i] = blocks[c][i]
    BY <1>5
  <2>3. Visible(c, l)' = Visible(c, l) + n
    BY <1>14
  <2> QED
    BY <1>3, <1>9, <1>10, <1>14, <1>16, <1>18, <2>1, <2>2, <2>3, WriteViews DEF Shown
<1> QED
  BY <1>6, <1>16, <1>19

\* Cutting what every layer of one cache shows down to n tokens.
LEMMA CutViews ==
  ASSUME IInv, ViewInv, NEW c \in Caches, NEW n \in Nat, slab' = slab, blocks' = blocks,
         \A l \in Layers : n <= Visible(c, l) /\ Visible(c, l)' = n,
         \A d \in Caches \ {c} : \A l \in Layers : Visible(d, l)' = Visible(d, l)
  PROVE  History' = [History EXCEPT ![c] = [l \in Layers |-> SubSeq(@[l], 1, n)]]
<1>1. ASSUME NEW d \in Caches \ {c}, NEW l \in Layers PROVE View(d, l)' = View(d, l)
  <2>1. Visible(d, l) \in Nat
    BY Reach
  <2> QED
    BY <2>1, ViewSame
<1>2. ASSUME NEW l \in Layers PROVE View(c, l)' = SubSeq(View(c, l), 1, n)
  <2>1. PICK m \in Nat : m = Visible(c, l) /\ n <= m
    BY Reach
  <2>2. PICK w : w = View(c, l)
    OBVIOUS
  <2>3. w = [i \in 1..m |-> slab[l][SlotOf(blocks[c], i - 1)]]
    BY <2>1, <2>2 DEF View
  <2>4. View(c, l)' = [i \in 1..n |-> slab[l][SlotOf(blocks[c], i - 1)]]
    BY DEF View, SlotOf
  <2>5. SubSeq(w, 1, n) = [i \in 1..n |-> w[i]]
    <3>1. slab[l] \in [Slots -> Values \cup {Zero}]
      BY DEF IInv, SlotType
    <3>2. \A i \in 1..m : i - 1 \in Nat /\ i - 1 < Visible(c, l)
      BY <2>1
    <3>3. \A i \in 1..m : SlotOf(blocks[c], i - 1) \in Slots
      BY <3>2, Reach
    <3>4. w \in Seq(Values \cup {Zero}) /\ Len(w) = m
      BY <2>3, <3>1, <3>3
    <3> QED
      BY <2>1, <3>4, CutFacts
  <2>6. \A i \in 1..n : w[i] = slab[l][SlotOf(blocks[c], i - 1)]
    <3>1. \A i \in 1..n : i \in 1..m
      BY <2>1
    <3> QED
      BY <2>3, <3>1
  <2> QED
    BY <2>2, <2>4, <2>5, <2>6
<1>3. History' = [d \in Caches |-> [l \in Layers |-> View(d, l)']]
  BY DEF History, Layers
<1>4. [History EXCEPT ![c] = [l \in Layers |-> SubSeq(@[l], 1, n)]]
        = [d \in Caches |-> [l \in Layers |->
             IF d = c THEN SubSeq(View(d, l), 1, n) ELSE View(d, l)]]
  BY DEF History
<1>5. \A d \in Caches : \A l \in Layers :
        View(d, l)' = IF d = c THEN SubSeq(View(d, l), 1, n) ELSE View(d, l)
  BY <1>1, <1>2
<1>6. [d \in Caches |-> [l \in Layers |-> View(d, l)']]
        = [d \in Caches |-> [l \in Layers |->
             IF d = c THEN SubSeq(View(d, l), 1, n) ELSE View(d, l)]]
  BY <1>5, Zenon
<1> QED
  BY <1>3, <1>4, <1>6, Zenon

\* What a view shows is as long as the layer is visible.
LEMMA ViewLength ==
  ASSUME IInv, ViewInv, NEW c \in Caches, NEW l \in Layers
  PROVE  Len(History[c][l]) = Visible(c, l) /\ Visible(c, l) \in Nat
<1>1. PICK n \in Nat : n = Visible(c, l)
  BY Reach
<1>2. PICK w : w = View(c, l)
  OBVIOUS
<1>3. w = [i \in 1..n |-> slab[l][SlotOf(blocks[c], i - 1)]]
  BY <1>1, <1>2 DEF View
<1>4. slab[l] \in [Slots -> Values \cup {Zero}]
  BY DEF IInv, SlotType
<1>5. \A i \in 1..n : i - 1 \in Nat /\ i - 1 < Visible(c, l)
  BY <1>1
<1>6. \A i \in 1..n : SlotOf(blocks[c], i - 1) \in Slots
  BY <1>5, Reach
<1>7. w \in Seq(Values \cup {Zero}) /\ Len(w) = n
  BY <1>3, <1>4, <1>6
<1> QED
  BY <1>1, <1>2, <1>7 DEF History

\* A truncation or a destruction begins: every layer is cut to what it keeps,
\* at most what every layer had.
LEMMA BeginCutView ==
  ASSUME IInv, IInv', ViewInv, AnyRollback = FALSE, NEW c \in Caches,
         BeginDrop(c) \/ \E n \in 0..numTokens[c] : BeginTruncate(c, n)
  PROVE  /\ ViewInv'
         /\ \E n \in Nat : CutTo(c, n)
<1>1. PICK m \in Nat : m = numTokens[c]
  BY DEF IInv, TableType
<1>2. PICK n \in Nat :
        /\ n <= m
        /\ \/ pc'[c] = "drop" /\ n = 0
           \/ pc'[c] = "truncate" /\ call'[c].keep = n /\ n <= m - InFlight(c)
  <2>1. CASE BeginDrop(c)
    <3>1. pc'[c] = "drop" /\ 0 \in Nat /\ 0 <= m
      BY <2>1 DEF BeginDrop, IInv, TableType
    <3> QED
      BY <3>1
  <2>2. CASE \E n \in 0..numTokens[c] : BeginTruncate(c, n)
    <3>1. PICK n \in 0..m : BeginTruncate(c, n)
      BY <1>1, <2>2
    <3>2. /\ pc'[c] = "truncate" /\ call'[c].keep = n /\ n <= m
          /\ n <= m - InFlight(c)
      BY <1>1, <3>1 DEF BeginTruncate, IInv, TableType
    <3>3. n \in Nat
      OBVIOUS
    <3> QED
      BY <3>2, <3>3
  <2> QED
    BY <2>1, <2>2
<1>3. /\ pc[c] = "idle" /\ slab' = slab /\ blocks' = blocks /\ numTokens' = numTokens
      /\ pending' = pending /\ nextLayer' = nextLayer
      /\ \A d \in Caches \ {c} : pc'[d] = pc[d] /\ call'[d] = call[d]
  BY DEF BeginDrop, BeginTruncate, tableVars, IInv, TableType
<1>4. OneView(c)'
  BY <1>2 DEF OneView
<1>5. /\ ViewInv'
      /\ \A d \in Caches \ {c} : \A l \in Layers : Visible(d, l)' = Visible(d, l)
  BY <1>3, <1>4, OneCacheViews
<1>6. ASSUME NEW l \in Layers PROVE n <= Visible(c, l) /\ Visible(c, l)' = n
  <2>1. Visible(c, l)' = n
    BY <1>2 DEF Visible
  <2>2. Visible(c, l) \in Nat
    BY Reach
  <2>3. n <= Visible(c, l)
    <3>1. CASE n = 0
      BY <2>2, <3>1
    <3>2. CASE n <= m - InFlight(c)
      <4>1. CASE nextLayer[c] = 0 \/ l < nextLayer[c]
        BY <1>1, <1>2, <1>3, <4>1 DEF Visible
      <4>2. CASE ~(nextLayer[c] = 0 \/ l < nextLayer[c])
        <5>1. InFlight(c) = Len(pending[c])
          BY <4>2 DEF InFlight
        <5>2. Visible(c, l) = m - Len(pending[c])
          BY <1>1, <1>3, <4>2 DEF Visible
        <5> QED
          BY <3>2, <5>1, <5>2
      <4> QED
        BY <4>1, <4>2
    <3> QED
      BY <1>2, <3>1, <3>2
  <2> QED
    BY <2>1, <2>3
<1>7. History' = [History EXCEPT ![c] = [l \in Layers |-> SubSeq(@[l], 1, n)]]
  BY <1>3, <1>5, <1>6, CutViews
<1>8. \A l \in Layers : n <= Len(History[c][l])
  BY <1>6, ViewLength
<1>9. CutTo(c, n)
  BY <1>7, <1>8 DEF CutTo
<1> QED
  BY <1>5, <1>9

\* No view shows anything in an empty cache.
LEMMA InitView == Init => ViewInv /\ Contract!Init
<1> SUFFICES ASSUME Init PROVE ViewInv /\ Contract!Init
  OBVIOUS
<1>1. ViewInv
  BY DEF Init, ViewInv, OneView
<1>2. ASSUME NEW c \in Caches, NEW l \in Layers PROVE View(c, l) = <<>>
  <2>1. Visible(c, l) = 0
    BY DEF Init, Visible
  <2>2. View(c, l) = [i \in 1..0 |-> slab[l][SlotOf(blocks[c], i - 1)]]
    BY <2>1 DEF View
  <2> QED
    BY <2>2
<1>3. Contract!Layers = Layers
  BY DEF Contract!Layers, Layers
<1>4. [c \in Caches |-> [l \in Layers |-> View(c, l)]]
        = [c \in Caches |-> [l \in Layers |-> <<>>]]
  BY <1>2
<1> QED
  BY <1>1, <1>3, <1>4 DEF Contract!Init

\* Every step is an append to one layer, a truncation, or nothing to a reader.
LEMMA StepView ==
  AnyRollback = FALSE /\ IInv /\ IInv' /\ ViewInv /\ [Next]_vars =>
    /\ ViewInv'
    /\ \/ History' = History
       \/ \E c \in Caches : \E l \in Layers : \E n \in Batches : \E v \in Values :
            Shown(c, l, n, v)
       \/ \E c \in Caches : \E n \in Nat : CutTo(c, n)
<1> DEFINE Adds == \E c \in Caches : \E l \in Layers : \E n \in Batches : \E v \in Values :
                     Shown(c, l, n, v)
           Cuts == \E c \in Caches : \E n \in Nat : CutTo(c, n)
<1> SUFFICES ASSUME AnyRollback = FALSE, IInv, IInv', ViewInv, [Next]_vars
             PROVE  ViewInv' /\ (History' = History \/ Adds \/ Cuts)
  OBVIOUS
<1>1. ASSUME NEW c \in Caches, NEW n \in Batches, NEW v \in Contents[c],
             OpenForward(c, n, v)
      PROVE  ViewInv' /\ History' = History
  BY <1>1, OpenForwardView
<1>2. ASSUME NEW c \in Caches, NEW v \in Contents[c], AppendLayer(c, v)
      PROVE  ViewInv' /\ Adds
  <2>1. v \in Values
    BY DEF Values
  <2> QED
    BY <1>2, <2>1, AppendLayerView
<1>3. ASSUME NEW c \in Caches,
             BeginDrop(c) \/ \E n \in 0..numTokens[c] : BeginTruncate(c, n)
      PROVE  ViewInv' /\ Cuts
  BY <1>3, BeginCutView
<1>4. ASSUME NEW c \in Caches, Grow(c) PROVE ViewInv' /\ Adds
  <2>1. 0 \in Layers
    BY Sizes
  <2> QED
    BY <1>4, <2>1, GrowView
<1>5. ASSUME NEW c \in Caches, CacheThread(c), ~Grow(c)
      PROVE  ViewInv' /\ History' = History
  <2>1. CASE TakeBlock(c) \/ UndoOne(c)
    BY <2>1, PoolView DEF TakeBlock, UndoOne
  <2>2. CASE Exhausted(c) \/ FailAppend(c)
    BY <2>2, FailView
  <2>3. CASE TruncateOne(c)
    BY <2>3, TruncateOneView
  <2>4. CASE EndTruncate(c)
    BY <2>4, EndTruncateView
  <2>5. CASE DropOne(c) \/ EndDrop(c)
    BY <2>5, DropView
  <2> QED
    BY <1>5, <2>1, <2>2, <2>3, <2>4, <2>5 DEF CacheThread
<1>6. ASSUME NEW b \in Blocks, Share(b) \/ Unshare(b)
      PROVE  ViewInv' /\ History' = History
  BY <1>6, PoolView DEF Share, Unshare
<1>7. CASE UNCHANGED vars
  BY <1>7, PoolView DEF vars
<1> HIDE DEF Adds, Cuts
<1> QED
  BY <1>1, <1>2, <1>3, <1>4, <1>5, <1>6, <1>7 DEF Next

\* The same steps are those of the contract.
LEMMA StepContract ==
  AnyRollback = FALSE /\ IInv /\ IInv' /\ ViewInv /\ [Next]_vars =>
    [Contract!Next]_History
<1> SUFFICES ASSUME AnyRollback = FALSE, IInv, IInv', ViewInv, [Next]_vars
             PROVE  [Contract!Next]_History
  OBVIOUS
<1>1. Contract!Layers = Layers
  BY DEF Contract!Layers, Layers
<1>2. CASE History' = History
  BY <1>2
<1>3. ASSUME NEW c \in Caches, NEW l \in Layers, NEW n \in Batches, NEW v \in Values,
             Shown(c, l, n, v), History' # History
      PROVE  Contract!Next
  <2>1. Contract!AppendTo(c, l, n, v)
    BY <1>3 DEF Contract!AppendTo, Shown, History
  <2> QED
    BY <1>1, <1>3, <2>1 DEF Contract!Next, History
<1>4. ASSUME NEW c \in Caches, NEW n \in Nat, CutTo(c, n), History' # History
      PROVE  Contract!Next
  <2>1. Contract!Truncate(c, n)
    BY <1>1, <1>4 DEF Contract!Truncate, CutTo, History
  <2>2. n \in 0..Len(History[c][0])
    BY <1>4, Sizes, ViewLength DEF CutTo
  <2> QED
    BY <1>4, <2>1, <2>2 DEF Contract!Next, History
<1> QED
  BY <1>2, <1>3, <1>4, StepView

\* Whatever the other caches do between two blocks of an append, a roll-back, a
\* truncation or a destruction, and whoever had its blocks before, each layer of
\* a cache shows exactly the keys and values appended to it.
THEOREM ContractImplemented ==
  ASSUME AnyRollback = FALSE
  PROVE  Spec => ImplementsContract
<1>1. IInv /\ IInv' /\ ViewInv /\ [Next]_vars => ViewInv'
  BY StepView
<1>2. Spec => [](IInv /\ ViewInv)
  BY <1>1, InitView, InitIInv, StepInv, PTL DEF Spec
<1> QED
  BY <1>2, InitView, StepContract, PTL DEF Spec, ImplementsContract, Contract!Spec, History
-----------------------------------------------------------------------------
(* The caching allocator. *)

(* The size classes. *)

\* What the recursive definition of the powers asks of a function on 0..n.
Powers(g, n) == g[0] = 1 /\ \A k \in 1..n : g[k] = 2 * g[k - 1]

\* There is such a function for every n.
LEMMA PowersExist ==
  \A n \in Nat : \E g \in [0..n -> Nat] : Powers(g, n)
<1> DEFINE P == {n \in Nat : \E g \in [0..n -> Nat] : Powers(g, n)}
<1>1. 0 \in P
  <2> DEFINE g == [k \in 0..0 |-> 1]
  <2>1. g \in [0..0 -> Nat] /\ Powers(g, 0)
    BY DEF Powers
  <2> QED
    BY <2>1
<1>2. ASSUME NEW n \in P PROVE n + 1 \in P
  <2>1. n \in Nat /\ n + 1 \in Nat
    OBVIOUS
  <2>2. PICK g \in [0..n -> Nat] : Powers(g, n)
    OBVIOUS
  <2> DEFINE h == [k \in 0..(n + 1) |-> IF k <= n THEN g[k] ELSE 2 * g[n]]
  <2>3. h \in [0..(n + 1) -> Nat]
    BY <2>1, <2>2
  <2>4. Powers(h, n + 1)
    <3>1. h[0] = 1
      BY <2>1, <2>2 DEF Powers
    <3>2. ASSUME NEW k \in 1..(n + 1) PROVE h[k] = 2 * h[k - 1]
      BY <2>1, <2>2 DEF Powers
    <3> QED
      BY <3>1, <3>2 DEF Powers
  <2> HIDE DEF h
  <2> QED
    BY <2>1, <2>3, <2>4
<1>3. P = Nat
  <2> HIDE DEF P
  <2>1. P \in SUBSET Nat
    BY DEF P
  <2> QED
    BY <1>1, <1>2, <2>1, Induction
<1> QED
  BY <1>3

\* Two of them agree as far as both go.
LEMMA PowersAgree ==
  ASSUME NEW m \in Nat, NEW n \in Nat, m <= n, NEW g, NEW h,
         Powers(g, m), Powers(h, n)
  PROVE  \A k \in 0..m : g[k] = h[k]
<1> DEFINE P == {k \in Nat : k <= m => g[k] = h[k]}
<1>1. 0 \in P
  BY DEF Powers
<1>2. ASSUME NEW k \in P PROVE k + 1 \in P
  <2>1. k \in Nat /\ k + 1 \in Nat
    OBVIOUS
  <2> SUFFICES ASSUME k + 1 <= m PROVE g[k + 1] = h[k + 1]
    BY <2>1
  <2>2. k + 1 \in 1..m /\ k + 1 \in 1..n /\ (k + 1) - 1 = k /\ k <= m
    BY <2>1
  <2>3. g[k] = h[k]
    BY <2>2
  <2> QED
    BY <2>2, <2>3 DEF Powers
<1>3. P = Nat
  <2> HIDE DEF P
  <2>1. P \in SUBSET Nat
    BY DEF P
  <2> QED
    BY <1>1, <1>2, <2>1, Induction
<1> QED
  BY <1>3

\* The recursive definition of the powers defines a function.
LEMMA PowerOfTwoDef ==
  PowerOfTwo = [k \in Nat |-> IF k = 0 THEN 1 ELSE 2 * PowerOfTwo[k - 1]]
<1> DEFINE upTo == [n \in Nat |-> CHOOSE g \in [0..n -> Nat] : Powers(g, n)]
           all == [n \in Nat |-> upTo[n][n]]
<1>1. \A n \in Nat : upTo[n] \in [0..n -> Nat] /\ Powers(upTo[n], n)
  BY PowersExist
<1> HIDE DEF upTo
<1>2. all[0] = 1
  BY <1>1 DEF Powers
<1>3. ASSUME NEW n \in Nat \ {0} PROVE all[n] = 2 * all[n - 1]
  <2>1. n - 1 \in Nat /\ n - 1 <= n /\ n \in 1..n /\ n - 1 \in 0..(n - 1)
    OBVIOUS
  <2>2. upTo[n][n] = 2 * upTo[n][n - 1]
    BY <1>1, <2>1 DEF Powers
  <2>3. upTo[n - 1][n - 1] = upTo[n][n - 1]
    BY <1>1, <2>1, PowersAgree
  <2> QED
    BY <2>1, <2>2, <2>3
<1>4. all = [k \in Nat |-> IF k = 0 THEN 1 ELSE 2 * all[k - 1]]
  BY <1>2, <1>3
<1> HIDE DEF all
<1> QED
  BY <1>4 DEF PowerOfTwo

\* The powers double, and outgrow their exponents.
LEMMA PowerFacts ==
  /\ PowerOfTwo[0] = 1
  /\ \A k \in Nat : /\ PowerOfTwo[k] \in Nat /\ PowerOfTwo[k] > k
                    /\ PowerOfTwo[k + 1] = 2 * PowerOfTwo[k]
<1>1. PowerOfTwo[0] = 1
  BY PowerOfTwoDef
<1>2. ASSUME NEW k \in Nat PROVE PowerOfTwo[k + 1] = 2 * PowerOfTwo[k]
  <2>1. k + 1 \in Nat /\ k + 1 # 0 /\ (k + 1) - 1 = k
    OBVIOUS
  <2> QED
    BY <2>1, PowerOfTwoDef
<1> DEFINE P == {k \in Nat : PowerOfTwo[k] \in Nat /\ PowerOfTwo[k] > k}
<1>3. 0 \in P
  BY <1>1
<1>4. ASSUME NEW k \in P PROVE k + 1 \in P
  BY <1>2
<1>5. P = Nat
  <2> HIDE DEF P
  <2>1. P \in SUBSET Nat
    BY DEF P
  <2> QED
    BY <1>3, <1>4, <2>1, Induction
<1> QED
  BY <1>1, <1>2, <1>5

\* bit_ceil: not smaller, and less than double.
LEMMA BitCeilFacts ==
  ASSUME NEW n \in Nat \ {0}
  PROVE  BitCeil(n) \in Nat /\ BitCeil(n) >= n /\ BitCeil(n) < 2 * n
<1> DEFINE T == {k \in Nat : PowerOfTwo[k] >= n}
           Least(k) == PowerOfTwo[k] >= n /\ \A j \in 0..(k - 1) : PowerOfTwo[j] < n
<1>1. n \in T
  BY PowerFacts
<1>2. PICK x \in T : \A y \in T : x <= y
  <2> HIDE DEF T
  <2>1. T \in SUBSET Nat
    BY DEF T
  <2> QED
    BY <1>1, <2>1, LeastExists
<1>3. x \in 0..n /\ Least(x)
  <2>1. x \in Nat /\ x <= n /\ PowerOfTwo[x] >= n
    BY <1>1, <1>2
  <2>2. ASSUME NEW j \in 0..(x - 1) PROVE PowerOfTwo[j] < n
    <3>1. j \in Nat /\ ~(x <= j)
      BY <2>1
    <3>2. j \notin T
      BY <1>2, <3>1
    <3> QED
      BY <3>1, <3>2, PowerFacts
  <2> QED
    BY <2>1, <2>2
<1> DEFINE k == CHOOSE i \in 0..n : Least(i)
<1>4. k \in 0..n /\ Least(k)
  BY <1>3
<1>5. BitCeil(n) = PowerOfTwo[k]
  BY DEF BitCeil
<1> HIDE DEF k
<1>6. PowerOfTwo[k] \in Nat /\ PowerOfTwo[k] >= n
  BY <1>4, PowerFacts
<1>7. PowerOfTwo[k] < 2 * n
  <2>1. CASE k = 0
    BY <2>1, PowerFacts
  <2>2. CASE k # 0
    <3>1. k - 1 \in Nat /\ k - 1 \in 0..(k - 1) /\ (k - 1) + 1 = k
      BY <1>4, <2>2
    <3>2. PowerOfTwo[k - 1] < n /\ PowerOfTwo[k - 1] \in Nat
      BY <1>4, <3>1, PowerFacts
    <3>3. PowerOfTwo[k] = 2 * PowerOfTwo[k - 1]
      BY <3>1, PowerFacts
    <3> QED
      BY <3>2, <3>3
  <2> QED
    BY <2>1, <2>2
<1> QED
  BY <1>5, <1>6, <1>7

\* A class is at least the request, less than a step above a large one and less
\* than double a small one.
LEMMA SizeClassFacts ==
  ASSUME NEW bytes \in Requests
  PROVE  /\ bytes \in Nat \ {0}
         /\ SizeClass(bytes) \in Nat \ {0}
         /\ SizeClass(bytes) \in Classes
         /\ SizeClass(bytes) >= bytes
         /\ bytes > LargeStepBytes => SizeClass(bytes) - bytes < LargeStepBytes
         /\ bytes \in MinClassBytes..LargeStepBytes => SizeClass(bytes) < 2 * bytes
<1>1. /\ bytes \in Nat \ {0} /\ SizeMax \in Nat
      /\ MinClassBytes \in Nat \ {0} /\ LargeStepBytes \in Nat \ {0}
      /\ MinClassBytes <= LargeStepBytes
  BY CachingAllocatorAssumption
<1>2. SizeClass(bytes) \in Classes
  BY DEF Classes
<1>3. CASE bytes <= LargeStepBytes
  <2>1. CASE bytes <= MinClassBytes
    BY <1>1, <1>2, <1>3, <2>1 DEF SizeClass
  <2>2. CASE bytes > MinClassBytes
    <3>1. SizeClass(bytes) = BitCeil(bytes)
      BY <1>1, <1>3, <2>2 DEF SizeClass
    <3>2. BitCeil(bytes) \in Nat /\ BitCeil(bytes) >= bytes /\ BitCeil(bytes) < 2 * bytes
      BY <1>1, BitCeilFacts
    <3> QED
      BY <1>1, <1>2, <1>3, <3>1, <3>2
  <2> QED
    BY <1>1, <2>1, <2>2
<1>4. CASE bytes > LargeStepBytes
  <2>1. CASE bytes > SizeMax - (LargeStepBytes - 1)
    BY <1>1, <1>2, <1>4, <2>1 DEF SizeClass
  <2>2. CASE ~(bytes > SizeMax - (LargeStepBytes - 1))
    <3> DEFINE n == bytes + LargeStepBytes - 1
               q == n \div LargeStepBytes
    <3>1. n \in Nat
      BY <1>1
    <3>2. SizeClass(bytes) = q * LargeStepBytes
      BY <1>1, <1>4, <2>2 DEF SizeClass
    <3> HIDE DEF n
    <3>3. /\ q \in Nat /\ n % LargeStepBytes \in Nat
          /\ n % LargeStepBytes < LargeStepBytes
          /\ n = q * LargeStepBytes + (n % LargeStepBytes)
      BY <1>1, <3>1, DivMod
    <3>4. q * LargeStepBytes \in Nat
      BY <1>1, <3>3, Multiples
    <3> DEFINE c == q * LargeStepBytes
               r == n % LargeStepBytes
    <3>5. c \in Nat /\ r \in Nat /\ r < LargeStepBytes /\ n = c + r /\ SizeClass(bytes) = c
      BY <3>2, <3>3, <3>4
    <3> HIDE DEF c, r, q
    <3> QED
      BY <1>1, <1>2, <1>4, <3>5 DEF n
  <2> QED
    BY <2>1, <2>2
<1> QED
  BY <1>1, <1>3, <1>4

\* The classes are finitely many positive numbers.
LEMMA ClassesFacts ==
  IsFiniteSet(Classes) /\ \A c \in Classes : c \in Nat \ {0}
<1>1. IsFiniteSet(Requests)
  <2>1. SizeMax \in Nat /\ Requests \subseteq 1..SizeMax
    BY CachingAllocatorAssumption
  <2> QED
    BY <2>1, CountUp, FS_Subset
<1>2. IsFiniteSet(Classes)
  <2> DEFINE f == [b \in Requests |-> SizeClass(b)]
  <2>1. f \in Surjection(Requests, Classes)
    BY DEF Classes, Surjection
  <2> QED
    BY <1>1, <2>1, FS_Surjection
<1> QED
  BY <1>2, SizeClassFacts DEF Classes
----------------------------------------------------------------------------
(* The invariant. *)

\* The state's types.
AllocatorTypeOK ==
  /\ live \in SUBSET [ptr : Addresses, class : Classes, bytes : Requests]
  /\ freeLists \in [Classes -> Seq(Addresses)]
  /\ victims \in [Threads -> SUBSET Addresses]
  /\ allocated \in Int /\ reserved \in Int
  /\ upstream \in [Addresses -> Nat]
  /\ destroyed \in BOOLEAN

\* A tenant has a block of its request's class and no other tenant has it.
TenantInv ==
  /\ \A b \in live : b.class = SizeClass(b.bytes) /\ upstream[b.ptr] = b.class
  /\ \A b, d \in live : b.ptr = d.ptr => b = d

\* A list holds blocks of its class, each once, that have no tenant.
ListInv ==
  \A c \in Classes :
    /\ NoDuplicates(freeLists[c])
    /\ \A a \in Range(freeLists[c]) : upstream[a] = c /\ a \notin LivePtrs

\* A victim is still allocated, has no tenant, is in no list, and one thread
\* destroys it.
VictimInv ==
  \A t \in Threads : \A a \in victims[t] :
    /\ upstream[a] # 0 /\ a \notin LivePtrs /\ a \notin Cached(freeLists)
    /\ \A u \in Threads : a \in victims[u] => u = t

\* Nothing the upstream has given is forgotten.
HeldInv ==
  \A a \in Addresses : upstream[a] # 0 =>
    a \in LivePtrs \/ a \in Cached(freeLists) \/ \E t \in Threads : a \in victims[t]

\* The two halves of StatsExact.
AllocatedInv == allocated = SumOver([a \in LivePtrs |-> upstream[a]], LivePtrs)
ReservedInv == ~destroyed => reserved = allocated + CachedBytes(freeLists)

AllocatorInv == AllocatorTypeOK /\ TenantInv /\ ListInv /\ VictimInv /\ HeldInv /\ AllocatedInv /\ ReservedInv
----------------------------------------------------------------------------
(* Lists and tenants. *)

\* The cached blocks are the elements of the lists, and their bytes a number.
LEMMA CachedFacts ==
  ASSUME NEW lists \in [Classes -> Seq(Addresses)]
  PROVE  /\ \A a : a \in Cached(lists) <=> \E c \in Classes : a \in Range(lists[c])
         /\ Cached(lists) \in SUBSET Addresses
         /\ CachedBytes(lists) \in Int
<1>1. \A a : a \in Cached(lists) <=> \E c \in Classes : a \in Range(lists[c])
  BY DEF Cached, ToSet, Range
<1>2. \A c \in Classes : Range(lists[c]) \subseteq Addresses
  BY RangeType
<1>3. CachedBytes(lists) \in Int
  <2> DEFINE f == [c \in Classes |-> c * Len(lists[c])]
  <2>1. \A c \in Classes : f[c] \in Int
    BY ClassesFacts
  <2> HIDE DEF f
  <2>2. SumOver(f, Classes) \in Int
    BY <2>1, ClassesFacts, SumType
  <2> QED
    BY <2>2 DEF f, CachedBytes
<1> QED
  BY <1>1, <1>2, <1>3

\* Empty lists cache nothing.
LEMMA NoneCachedFacts ==
  /\ NoneCached \in [Classes -> Seq(Addresses)]
  /\ \A c \in Classes : NoneCached[c] = <<>>
  /\ Cached(NoneCached) = {}
  /\ CachedBytes(NoneCached) = 0
<1>1. /\ NoneCached \in [Classes -> Seq(Addresses)]
      /\ \A c \in Classes : NoneCached[c] = <<>>
  BY DEF NoneCached
<1>2. Cached(NoneCached) = {}
  BY <1>1, CachedFacts, EmptyFacts
<1>3. CachedBytes(NoneCached) = 0
  <2>1. PICK f : f = [c \in Classes |-> c * Len(NoneCached[c])]
    OBVIOUS
  <2>2. \A c \in Classes : f[c] = 0
    BY <1>1, <2>1, ClassesFacts
  <2>3. SumOver(f, Classes) = 0
    BY <2>2, ClassesFacts, SumZero
  <2> QED
    BY <2>1, <2>3 DEF CachedBytes
<1> QED
  BY <1>1, <1>2, <1>3

\* A list that changes length changes the cached bytes by its class per block.
LEMMA CachedBytesChange ==
  ASSUME NEW lists \in [Classes -> Seq(Addresses)], NEW c \in Classes,
         NEW s \in Seq(Addresses)
  PROVE  CachedBytes([lists EXCEPT ![c] = s])
           = CachedBytes(lists) - c * Len(lists[c]) + c * Len(s)
<1>1. PICK f : f = [d \in Classes |-> d * Len(lists[d])]
  OBVIOUS
<1>2. PICK new : new = [lists EXCEPT ![c] = s]
  OBVIOUS
<1>3. PICK e : e = [d \in Classes |-> d * Len(new[d])]
  OBVIOUS
<1>4. CachedBytes(lists) = SumOver(f, Classes) /\ CachedBytes(new) = SumOver(e, Classes)
  BY <1>1, <1>3 DEF CachedBytes
<1>5. /\ \A d \in Classes : f[d] \in Int /\ e[d] \in Int
      /\ \A d \in Classes \ {c} : f[d] = e[d]
      /\ f[c] = c * Len(lists[c]) /\ e[c] = c * Len(s)
  BY <1>1, <1>2, <1>3, ClassesFacts
<1>6. SumOver(e, Classes) + f[c] = SumOver(f, Classes) + e[c]
  BY <1>5, ClassesFacts, SumChange
<1>7. SumOver(e, Classes) \in Int /\ SumOver(f, Classes) \in Int
  BY <1>5, ClassesFacts, SumType
<1>8. CachedBytes(new) = CachedBytes(lists) - f[c] + e[c]
  <2>1. f[c] \in Int /\ e[c] \in Int
    BY <1>5
  <2>2. PICK u, v, x, y \in Int : /\ u = SumOver(e, Classes) /\ v = SumOver(f, Classes)
                                 /\ x = f[c] /\ y = e[c]
    BY <1>7, <2>1
  <2>3. u + x = v + y
    BY <1>6, <2>2
  <2>4. u = v - x + y
    BY <2>3
  <2>5. CachedBytes(new) = u /\ CachedBytes(lists) = v
    BY <1>4, <2>2
  <2> QED
    BY <2>2, <2>4, <2>5
<1> QED
  BY <1>2, <1>5, <1>8

\* The tenants' bytes as a sum over any set of addresses.
BytesHeld(ptrs, up) == SumOver([a \in ptrs |-> up[a]], ptrs)

\* BytesHeld depends on the bytes at its addresses, and grows by a new one's.
LEMMA HeldFacts ==
  ASSUME NEW ptrs \in SUBSET Addresses, NEW up \in [Addresses -> Nat]
  PROVE  /\ BytesHeld(ptrs, up) \in Int
         /\ ptrs = {} => BytesHeld(ptrs, up) = 0
         /\ \A to \in [Addresses -> Nat] :
              (\A a \in ptrs : to[a] = up[a]) => BytesHeld(ptrs, to) = BytesHeld(ptrs, up)
         /\ \A a \in Addresses \ ptrs : BytesHeld(ptrs \cup {a}, up) = BytesHeld(ptrs, up) + up[a]
<1> DEFINE F(S, u) == [a \in S |-> u[a]]
<1>1. IsFiniteSet(ptrs)
  BY CachingAllocatorAssumption, FS_Subset
<1>2. \A x \in ptrs : F(ptrs, up)[x] \in Int
  OBVIOUS
<1>3. BytesHeld(ptrs, up) \in Int /\ (ptrs = {} => BytesHeld(ptrs, up) = 0)
  <2> HIDE DEF F
  <2>1. SumOver(F(ptrs, up), ptrs) \in Int /\ (ptrs = {} => SumOver(F(ptrs, up), ptrs) = 0)
    BY <1>1, <1>2, SumType
  <2> QED
    BY <2>1 DEF F, BytesHeld
<1>4. ASSUME NEW to \in [Addresses -> Nat], \A a \in ptrs : to[a] = up[a]
      PROVE  BytesHeld(ptrs, to) = BytesHeld(ptrs, up)
  <2>1. F(ptrs, to) = F(ptrs, up)
    BY <1>4
  <2> QED
    BY <2>1 DEF BytesHeld
<1>5. ASSUME NEW a \in Addresses \ ptrs
      PROVE  BytesHeld(ptrs \cup {a}, up) = BytesHeld(ptrs, up) + up[a]
  <2> DEFINE f == F(ptrs \cup {a}, up)
             e == F(ptrs, up)
  <2>1. \A x \in ptrs \cup {a} : f[x] \in Int
    OBVIOUS
  <2>2. \A x \in ptrs : f[x] = e[x] /\ e[x] \in Int
    OBVIOUS
  <2>3. f[a] = up[a] /\ up[a] \in Int
    OBVIOUS
  <2>4. BytesHeld(ptrs \cup {a}, up) = SumOver(f, ptrs \cup {a}) /\ BytesHeld(ptrs, up) = SumOver(e, ptrs)
    BY DEF BytesHeld
  <2> HIDE DEF f, e, F
  <2>5. SumOver(f, ptrs \cup {a}) = f[a] + SumOver(f, ptrs)
    BY <1>1, <2>1, SumAdd
  <2>6. SumOver(f, ptrs) = SumOver(e, ptrs)
    BY <1>1, <2>2, SumSame
  <2>7. BytesHeld(ptrs \cup {a}, up) = up[a] + BytesHeld(ptrs, up)
    BY <2>3, <2>4, <2>5, <2>6
  <2> QED
    BY <1>3, <2>3, <2>7
<1> QED
  BY <1>3, <1>4, <1>5

\* Handing out a block nobody has, of the request's class.
LEMMA HandOutTenant ==
  ASSUME AllocatorTypeOK, TenantInv, AllocatedInv, NEW a \in Addresses, NEW bytes \in Requests,
         a \notin LivePtrs, HandOut(a, bytes), upstream' \in [Addresses -> Nat],
         upstream'[a] = SizeClass(bytes), \A p \in LivePtrs : upstream'[p] = upstream[p]
  PROVE  /\ live' \in SUBSET [ptr : Addresses, class : Classes, bytes : Requests]
         /\ LivePtrs' = LivePtrs \cup {a}
         /\ TenantInv' /\ AllocatedInv'
         /\ allocated' = allocated + SizeClass(bytes) /\ allocated' \in Int
<1>1. PICK d : d = [ptr |-> a, class |-> SizeClass(bytes), bytes |-> bytes]
  OBVIOUS
<1>2. /\ d \in [ptr : Addresses, class : Classes, bytes : Requests]
      /\ d.ptr = a /\ d.class = SizeClass(bytes) /\ d.bytes = bytes
  BY <1>1, SizeClassFacts
<1>3. live' = live \cup {d} /\ allocated' = allocated + SizeClass(bytes)
  BY <1>1 DEF HandOut
<1>4. live' \in SUBSET [ptr : Addresses, class : Classes, bytes : Requests]
  BY <1>2, <1>3 DEF AllocatorTypeOK
<1>5. LivePtrs' = LivePtrs \cup {a}
  BY <1>2, <1>3 DEF LivePtrs
<1>6. \A b \in live : b.ptr \in LivePtrs /\ b.ptr # a
  BY DEF LivePtrs
<1>7. TenantInv'
  <2>1. \A b \in live' : b.class = SizeClass(b.bytes) /\ upstream'[b.ptr] = b.class
    BY <1>2, <1>3, <1>6 DEF TenantInv
  <2>2. \A b, e \in live' : b.ptr = e.ptr => b = e
    BY <1>2, <1>3, <1>6 DEF TenantInv
  <2> QED
    BY <2>1, <2>2 DEF TenantInv
<1>8. SizeClass(bytes) \in Nat /\ allocated \in Int
  BY SizeClassFacts DEF AllocatorTypeOK
<1>9. AllocatedInv'
  <2>1. PICK ptrs \in SUBSET Addresses, up \in [Addresses -> Nat], to \in [Addresses -> Nat] :
          ptrs = LivePtrs /\ up = upstream /\ to = upstream'
    BY DEF AllocatorTypeOK, LivePtrs
  <2>2. BytesHeld(ptrs, to) = BytesHeld(ptrs, up) /\ BytesHeld(ptrs, up) \in Int
    BY <2>1, HeldFacts
  <2>3. BytesHeld(ptrs \cup {a}, to) = BytesHeld(ptrs, to) + to[a]
    BY <2>1, HeldFacts
  <2>4. allocated = BytesHeld(ptrs, up)
    BY <2>1 DEF AllocatedInv, BytesHeld
  <2>5. allocated' = BytesHeld(ptrs \cup {a}, to)
    BY <1>3, <2>1, <2>2, <2>3, <2>4
  <2> QED
    BY <1>5, <2>1, <2>5 DEF AllocatedInv, BytesHeld
<1> QED
  BY <1>3, <1>4, <1>5, <1>7, <1>8, <1>9

\* Tenants that stay on blocks that stay.
LEMMA KeepTenants ==
  ASSUME AllocatorTypeOK, TenantInv, AllocatedInv, UNCHANGED <<live, allocated>>,
         upstream' \in [Addresses -> Nat], \A p \in LivePtrs : upstream'[p] = upstream[p]
  PROVE  LivePtrs' = LivePtrs /\ TenantInv' /\ AllocatedInv'
<1>1. LivePtrs' = LivePtrs
  BY DEF LivePtrs
<1>2. TenantInv'
  <2>1. \A b \in live : b.ptr \in LivePtrs
    BY DEF LivePtrs
  <2> QED
    BY <2>1 DEF TenantInv
<1>3. AllocatedInv'
  <2>1. PICK ptrs \in SUBSET Addresses, up \in [Addresses -> Nat], to \in [Addresses -> Nat] :
          ptrs = LivePtrs /\ up = upstream /\ to = upstream'
    BY DEF AllocatorTypeOK, LivePtrs
  <2>2. BytesHeld(ptrs, to) = BytesHeld(ptrs, up)
    BY <2>1, HeldFacts
  <2>3. allocated' = BytesHeld(ptrs, to)
    BY <2>1, <2>2 DEF AllocatedInv, BytesHeld
  <2> QED
    BY <1>1, <2>1, <2>3 DEF AllocatedInv, BytesHeld
<1> QED
  BY <1>1, <1>2, <1>3

\* An address the upstream has not given has no holder, and one in a list or
\* with a tenant is given and not another's.
LEMMA HolderFacts ==
  ASSUME AllocatorTypeOK, TenantInv, ListInv, VictimInv
  PROVE  /\ LivePtrs \in SUBSET Addresses
         /\ Cached(freeLists) \in SUBSET Addresses
         /\ \A a \in LivePtrs : upstream[a] # 0 /\ a \notin Cached(freeLists)
         /\ \A a \in Cached(freeLists) : upstream[a] # 0
         /\ \A t \in Threads : \A a \in victims[t] :
              /\ a \in Addresses /\ upstream[a] # 0
              /\ a \notin LivePtrs /\ a \notin Cached(freeLists)
<1>1. \A a : a \in Cached(freeLists) <=> \E c \in Classes : a \in Range(freeLists[c])
  BY CachedFacts DEF AllocatorTypeOK
<1>2. LivePtrs \in SUBSET Addresses /\ Cached(freeLists) \in SUBSET Addresses
  BY CachedFacts DEF AllocatorTypeOK, LivePtrs
<1>3. \A a \in LivePtrs : upstream[a] # 0
  BY ClassesFacts DEF AllocatorTypeOK, LivePtrs, TenantInv
<1>4. \A a \in Cached(freeLists) : upstream[a] # 0 /\ a \notin LivePtrs
  BY <1>1, ClassesFacts DEF ListInv
<1> QED
  BY <1>2, <1>3, <1>4 DEF VictimInv, AllocatorTypeOK
----------------------------------------------------------------------------
(* The actions. *)

\* A hit keeps the invariant.
LEMMA HitInv ==
  ASSUME AllocatorInv, NEW bytes \in Requests, AllocateHit(bytes)
  PROVE  AllocatorInv'
<1> USE DEF AllocatorInv
<1>1. PICK c \in Classes : c = SizeClass(bytes)
  BY SizeClassFacts
<1>2. PICK s \in Seq(Addresses) : s = freeLists[c]
  BY DEF AllocatorTypeOK
<1>3. PICK a : a = s[Len(s)]
  OBVIOUS
<1>4. PICK t : t = SubSeq(s, 1, Len(s) - 1)
  OBVIOUS
<1>5. /\ ~destroyed /\ s # <<>> /\ HandOut(a, bytes)
      /\ freeLists' = [freeLists EXCEPT ![c] = t]
      /\ UNCHANGED <<victims, reserved, upstream, destroyed>>
  BY <1>1, <1>2, <1>3, <1>4 DEF AllocateHit, Last, Front
<1>6. NoDuplicates(s) /\ \A x \in Range(s) : upstream[x] = c /\ x \notin LivePtrs
  BY <1>2 DEF ListInv
<1>7. /\ a \in Addresses /\ a \in Range(s)
      /\ t \in Seq(Addresses) /\ Len(t) = Len(s) - 1
      /\ NoDuplicates(t) /\ Range(t) = Range(s) \ {a}
  BY <1>3, <1>4, <1>5, <1>6, FrontFacts
<1>8. upstream[a] = c /\ a \notin LivePtrs
  BY <1>6, <1>7
<1>9. /\ live' \in SUBSET [ptr : Addresses, class : Classes, bytes : Requests]
      /\ LivePtrs' = LivePtrs \cup {a}
      /\ TenantInv' /\ AllocatedInv'
      /\ allocated' = allocated + c /\ allocated' \in Int
  <2>1. upstream' \in [Addresses -> Nat] /\ upstream'[a] = SizeClass(bytes)
    BY <1>1, <1>5, <1>8 DEF AllocatorTypeOK
  <2>2. \A p \in LivePtrs : upstream'[p] = upstream[p]
    BY <1>5
  <2> QED
    BY <1>1, <1>5, <1>7, <1>8, <2>1, <2>2, HandOutTenant
<1>10. /\ freeLists' \in [Classes -> Seq(Addresses)]
       /\ freeLists'[c] = t /\ \A d \in Classes \ {c} : freeLists'[d] = freeLists[d]
  BY <1>5, <1>7 DEF AllocatorTypeOK
<1>11. AllocatorTypeOK'
  BY <1>5, <1>9, <1>10 DEF AllocatorTypeOK
<1>12. \A d \in Classes \ {c} : a \notin Range(freeLists[d])
  BY <1>8 DEF ListInv
<1>13. ListInv'
  <2> SUFFICES ASSUME NEW d \in Classes
               PROVE  /\ NoDuplicates(freeLists'[d])
                      /\ \A x \in Range(freeLists'[d]) :
                           upstream'[x] = d /\ x \notin LivePtrs'
    BY DEF ListInv
  <2>1. CASE d = c
    BY <1>5, <1>6, <1>7, <1>9, <1>10, <2>1
  <2>2. CASE d # c
    BY <1>5, <1>9, <1>10, <1>12, <2>2 DEF ListInv
  <2> QED
    BY <2>1, <2>2
<1>14. \A x : x \in Cached(freeLists)' <=> x \in Cached(freeLists) /\ x # a
  <2>1. \A x : x \in Cached(freeLists) <=> \E d \in Classes : x \in Range(freeLists[d])
    BY CachedFacts DEF AllocatorTypeOK
  <2>2. \A x : x \in Cached(freeLists') <=> \E d \in Classes : x \in Range(freeLists'[d])
    BY <1>10, CachedFacts
  <2>3. \A d \in Classes : \A x : x \in Range(freeLists'[d]) <=> x \in Range(freeLists[d]) /\ x # a
    BY <1>2, <1>7, <1>10, <1>12
  <2> QED
    BY <2>1, <2>2, <2>3
<1>15. a \in Cached(freeLists)
  BY <1>2, <1>7, CachedFacts DEF AllocatorTypeOK
<1>16. VictimInv'
  BY <1>5, <1>9, <1>14, <1>15 DEF VictimInv
<1>17. HeldInv'
  BY <1>5, <1>9, <1>14 DEF HeldInv
<1>18. ReservedInv'
  <2>1. CachedBytes(freeLists') = CachedBytes(freeLists) - c * Len(s) + c * Len(t)
    BY <1>2, <1>5, <1>7, CachedBytesChange DEF AllocatorTypeOK
  <2>2. PICK n \in Nat : n = Len(s)
    OBVIOUS
  <2>3. c \in Nat /\ c * n \in Int /\ c * (n - 1) = c * n - c
    BY ClassesFacts
  <2>4. PICK m \in Int : m = c * n
    BY <2>3
  <2>5. PICK old \in Int : old = CachedBytes(freeLists)
    BY CachedFacts DEF AllocatorTypeOK
  <2>6. c * Len(t) = m - c /\ c * Len(s) = m
    BY <1>7, <2>2, <2>3, <2>4
  <2>7. CachedBytes(freeLists') = old - c
    BY <2>1, <2>3, <2>5, <2>6
  <2>8. reserved = allocated + old /\ reserved' = reserved /\ allocated \in Int
    BY <1>5, <2>5 DEF ReservedInv, AllocatorTypeOK
  <2>9. reserved' = (allocated + c) + (old - c)
    BY <2>3, <2>8
  <2> QED
    BY <1>9, <2>7, <2>9 DEF ReservedInv
<1> QED
  BY <1>9, <1>11, <1>13, <1>16, <1>17, <1>18

\* A miss that the upstream serves keeps the invariant.
LEMMA MissInv ==
  ASSUME AllocatorInv, NEW bytes \in Requests, AllocateMiss(bytes)
  PROVE  AllocatorInv'
<1> USE DEF AllocatorInv
<1>1. PICK c \in Classes : c = SizeClass(bytes)
  BY SizeClassFacts
<1>2. PICK a \in Addresses :
        upstream[a] = 0 /\ upstream' = [upstream EXCEPT ![a] = c] /\ HandOut(a, bytes)
  BY <1>1 DEF AllocateMiss, UpstreamAddresses
<1>3. /\ reserved' = reserved + c
      /\ UNCHANGED <<freeLists, victims, destroyed>>
  BY <1>1 DEF AllocateMiss
<1>4. /\ LivePtrs \in SUBSET Addresses
      /\ a \notin LivePtrs /\ a \notin Cached(freeLists)
      /\ \A t \in Threads : a \notin victims[t]
  BY <1>2, HolderFacts
<1>5. /\ c \in Nat \ {0} /\ upstream' \in [Addresses -> Nat] /\ upstream'[a] = c
      /\ \A x \in Addresses \ {a} : upstream'[x] = upstream[x]
  BY <1>2, ClassesFacts DEF AllocatorTypeOK
<1>6. /\ live' \in SUBSET [ptr : Addresses, class : Classes, bytes : Requests]
      /\ LivePtrs' = LivePtrs \cup {a}
      /\ TenantInv' /\ AllocatedInv'
      /\ allocated' = allocated + c /\ allocated' \in Int
  <2>1. \A p \in LivePtrs : upstream'[p] = upstream[p]
    BY <1>4, <1>5
  <2> QED
    BY <1>1, <1>2, <1>4, <1>5, <2>1, HandOutTenant
<1>7. AllocatorTypeOK'
  BY <1>3, <1>5, <1>6 DEF AllocatorTypeOK
<1>8. \A x : x \in Cached(freeLists) <=> \E d \in Classes : x \in Range(freeLists[d])
  BY CachedFacts DEF AllocatorTypeOK
<1>9. \A d \in Classes : \A x \in Range(freeLists[d]) : x \in Addresses /\ x # a
  BY <1>4, <1>8, CachedFacts DEF AllocatorTypeOK
<1>10. ListInv'
  BY <1>3, <1>5, <1>6, <1>9 DEF ListInv
<1>11. Cached(freeLists)' = Cached(freeLists)
  BY <1>3
<1>12. VictimInv'
  BY <1>3, <1>4, <1>5, <1>6, <1>11 DEF VictimInv, AllocatorTypeOK
<1>13. HeldInv'
  BY <1>3, <1>5, <1>6, <1>11 DEF HeldInv
<1>14. ReservedInv'
  <2>1. PICK old \in Int : old = CachedBytes(freeLists)
    BY CachedFacts DEF AllocatorTypeOK
  <2>2. ~destroyed /\ reserved = allocated + old /\ allocated \in Int
    BY <2>1 DEF ReservedInv, AllocatorTypeOK, AllocateMiss
  <2>3. CachedBytes(freeLists') = old
    BY <1>3, <2>1
  <2>4. reserved' = (allocated + c) + old
    BY <1>3, <1>5, <2>2
  <2> QED
    BY <1>6, <2>3, <2>4 DEF ReservedInv
<1> QED
  BY <1>6, <1>7, <1>10, <1>12, <1>13, <1>14

\* What the upstream holds once everything cached is destroyed.
LEMMA FreedFacts ==
  ASSUME AllocatorTypeOK, TenantInv, ListInv, VictimInv, HeldInv, NEW freed,
         freed = Freed(upstream, Cached(freeLists))
  PROVE  /\ freed \in [Addresses -> Nat]
         /\ \A p \in LivePtrs : freed[p] = upstream[p] /\ freed[p] # 0
         /\ \A t \in Threads : \A a \in victims[t] : freed[a] = upstream[a] /\ freed[a] # 0
         /\ \A a \in Addresses : freed[a] # 0 =>
              a \in LivePtrs \/ \E t \in Threads : a \in victims[t]
<1>1. /\ freed \in [Addresses -> Nat]
      /\ \A a \in Addresses : freed[a] = IF a \in Cached(freeLists) THEN 0 ELSE upstream[a]
  BY DEF Freed, AllocatorTypeOK
<1>2. \A a \in Addresses : freed[a] # 0 =>
        a \in LivePtrs \/ \E t \in Threads : a \in victims[t]
  BY <1>1 DEF HeldInv
<1> QED
  BY <1>1, <1>2, HolderFacts

\* Emptied lists satisfy their part of the invariant.
LEMMA EmptiedLists ==
  ASSUME freeLists' = NoneCached
  PROVE  /\ freeLists' \in [Classes -> Seq(Addresses)]
         /\ Cached(freeLists') = {} /\ CachedBytes(freeLists') = 0
         /\ ListInv'
<1>1. \A c \in Classes : freeLists'[c] = <<>>
  BY NoneCachedFacts
<1> QED
  BY <1>1, NoneCachedFacts, EmptyFacts DEF ListInv

\* A miss that destroys what is cached keeps the invariant, served or not.
LEMMA RetryInv ==
  ASSUME AllocatorInv, NEW bytes \in Requests, AllocateRetry(bytes)
  PROVE  AllocatorInv'
<1> USE DEF AllocatorInv
<1>1. PICK c \in Classes : c = SizeClass(bytes)
  BY SizeClassFacts
<1>2. PICK freed : freed = Freed(upstream, Cached(freeLists))
  OBVIOUS
<1>3. /\ freed \in [Addresses -> Nat]
      /\ \A p \in LivePtrs : freed[p] = upstream[p] /\ freed[p] # 0
      /\ \A t \in Threads : \A a \in victims[t] : freed[a] = upstream[a] /\ freed[a] # 0
      /\ \A a \in Addresses : freed[a] # 0 =>
           a \in LivePtrs \/ \E t \in Threads : a \in victims[t]
  BY <1>2, FreedFacts
<1>4. PICK old \in Int : old = CachedBytes(freeLists)
  BY CachedFacts DEF AllocatorTypeOK
<1>5. /\ ~destroyed /\ freeLists' = NoneCached /\ UNCHANGED <<victims, destroyed>>
  BY DEF AllocateRetry
<1>6. /\ freeLists' \in [Classes -> Seq(Addresses)]
      /\ Cached(freeLists') = {} /\ CachedBytes(freeLists') = 0
      /\ ListInv'
  BY <1>5, EmptiedLists
<1>7. /\ reserved = allocated + old /\ allocated \in Int /\ reserved \in Int
      /\ LivePtrs \in SUBSET Addresses
      /\ \A t \in Threads : \A a \in victims[t] : a \in Addresses /\ a \notin LivePtrs
  BY <1>4, <1>5, HolderFacts DEF ReservedInv, AllocatorTypeOK
<1>8. CASE upstream' = freed /\ reserved' = reserved - old /\ UNCHANGED <<live, allocated>>
  <2>1. LivePtrs' = LivePtrs /\ TenantInv' /\ AllocatedInv'
    BY <1>3, <1>8, KeepTenants
  <2>2. reserved' = allocated' + 0 /\ reserved' \in Int
    BY <1>4, <1>7, <1>8
  <2>3. AllocatorTypeOK'
    BY <1>3, <1>5, <1>6, <1>8, <2>2 DEF AllocatorTypeOK
  <2>4. VictimInv'
    BY <1>3, <1>5, <1>6, <1>8, <2>1 DEF VictimInv
  <2>5. HeldInv'
    BY <1>3, <1>5, <1>8, <2>1 DEF HeldInv
  <2>6. ReservedInv'
    BY <1>6, <2>2 DEF ReservedInv
  <2> QED
    BY <1>6, <2>1, <2>3, <2>4, <2>5, <2>6
<1>9. CASE \E a \in UpstreamAddresses(freed, c) :
             /\ upstream' = [freed EXCEPT ![a] = c]
             /\ HandOut(a, bytes)
             /\ reserved' = reserved - old + c
  <2>1. PICK a \in Addresses :
          /\ freed[a] = 0 /\ upstream' = [freed EXCEPT ![a] = c]
          /\ HandOut(a, bytes) /\ reserved' = reserved - old + c
    BY <1>9 DEF UpstreamAddresses
  <2>2. a \notin LivePtrs /\ \A t \in Threads : a \notin victims[t]
    BY <1>3, <2>1
  <2>3. /\ c \in Nat \ {0} /\ upstream' \in [Addresses -> Nat] /\ upstream'[a] = c
        /\ \A x \in Addresses \ {a} : upstream'[x] = freed[x]
    BY <1>3, <2>1, ClassesFacts
  <2>4. /\ live' \in SUBSET [ptr : Addresses, class : Classes, bytes : Requests]
        /\ LivePtrs' = LivePtrs \cup {a}
        /\ TenantInv' /\ AllocatedInv'
        /\ allocated' = allocated + c /\ allocated' \in Int
    <3>1. \A p \in LivePtrs : upstream'[p] = upstream[p]
      BY <1>3, <1>7, <2>2, <2>3
    <3> QED
      BY <1>1, <2>1, <2>2, <2>3, <3>1, HandOutTenant
  <2>5. reserved' = (allocated + c) + 0 /\ reserved' \in Int
    BY <1>4, <1>7, <2>1, <2>3
  <2>6. AllocatorTypeOK'
    BY <1>5, <1>6, <2>3, <2>4, <2>5 DEF AllocatorTypeOK
  <2>7. VictimInv'
    <3> SUFFICES ASSUME NEW t \in Threads, NEW x \in victims[t]
                 PROVE  /\ upstream'[x] # 0 /\ x \notin LivePtrs'
                        /\ x \notin Cached(freeLists')
                        /\ \A u \in Threads : x \in victims[u] => u = t
      BY <1>5 DEF VictimInv
    <3> QED
      BY <1>3, <1>6, <1>7, <2>2, <2>3, <2>4 DEF VictimInv
  <2>8. HeldInv'
    BY <1>3, <1>5, <2>3, <2>4 DEF HeldInv
  <2>9. ReservedInv'
    BY <1>6, <2>4, <2>5 DEF ReservedInv
  <2> QED
    BY <1>6, <2>4, <2>6, <2>7, <2>8, <2>9
<1> QED
  BY <1>1, <1>2, <1>4, <1>8, <1>9 DEF AllocateRetry

\* A Buffer's deleter keeps the invariant.
LEMMA ReturnInv ==
  ASSUME AllocatorInv, NEW b \in live, Return(b)
  PROVE  AllocatorInv'
<1> USE DEF AllocatorInv
<1>1. PICK a, c : a = b.ptr /\ c = b.class
  OBVIOUS
<1>2. a \in Addresses /\ c \in Classes /\ c \in Nat \ {0} /\ upstream[a] = c /\ a \in LivePtrs
  BY <1>1, ClassesFacts DEF AllocatorTypeOK, TenantInv, LivePtrs
<1>3. PICK s \in Seq(Addresses) : s = freeLists[c]
  BY <1>2 DEF AllocatorTypeOK
<1>4. PICK t : t = Append(s, a)
  OBVIOUS
<1>5. /\ live' = live \ {b} /\ allocated' = allocated - c
      /\ freeLists' = [freeLists EXCEPT ![c] = t]
      /\ UNCHANGED <<victims, reserved, upstream, destroyed>>
  BY <1>1, <1>2, <1>3, <1>4 DEF Return, AllocatorTypeOK
<1>6. NoDuplicates(s) /\ a \notin Range(s)
  BY <1>2, <1>3 DEF ListInv
<1>7. /\ t \in Seq(Addresses) /\ Len(t) = Len(s) + 1
      /\ NoDuplicates(t) /\ Range(t) = Range(s) \cup {a}
  BY <1>2, <1>4, <1>6, AppendFacts
<1>8. LivePtrs' = LivePtrs \ {a}
  <2>1. \A d \in live : d.ptr = a => d = b
    BY <1>1 DEF TenantInv
  <2> QED
    BY <1>1, <1>5, <2>1 DEF LivePtrs
<1>9. TenantInv'
  BY <1>5 DEF TenantInv
<1>10. AllocatedInv' /\ allocated' \in Int /\ allocated = allocated' + c
  <2>1. PICK ptrs \in SUBSET Addresses, up \in [Addresses -> Nat] :
          ptrs = LivePtrs' /\ up = upstream
    <3>1. LivePtrs' \in SUBSET Addresses
      BY <1>8, HolderFacts
    <3> QED
      BY <3>1 DEF AllocatorTypeOK
  <2>2. BytesHeld(ptrs, up) \in Int /\ BytesHeld(ptrs \cup {a}, up) = BytesHeld(ptrs, up) + up[a]
    <3>1. a \in Addresses \ ptrs
      BY <1>2, <1>8, <2>1
    <3> QED
      BY <3>1, HeldFacts
  <2>3. LivePtrs = ptrs \cup {a} /\ up[a] = c
    BY <1>2, <1>8, <2>1
  <2>4. allocated = BytesHeld(ptrs \cup {a}, up)
    BY <2>1, <2>3 DEF AllocatedInv, BytesHeld
  <2>5. PICK h \in Int : h = BytesHeld(ptrs, up)
    BY <2>2
  <2>6. allocated = h + c
    BY <2>2, <2>3, <2>4, <2>5
  <2>7. allocated' = h
    BY <1>2, <1>5, <2>6
  <2> QED
    BY <1>5, <2>1, <2>5, <2>6, <2>7 DEF AllocatedInv, BytesHeld
<1>11. /\ freeLists' \in [Classes -> Seq(Addresses)]
       /\ freeLists'[c] = t /\ \A d \in Classes \ {c} : freeLists'[d] = freeLists[d]
  BY <1>2, <1>5, <1>7 DEF AllocatorTypeOK
<1>12. AllocatorTypeOK'
  BY <1>5, <1>10, <1>11 DEF AllocatorTypeOK
<1>13. ListInv'
  <2> SUFFICES ASSUME NEW d \in Classes
               PROVE  /\ NoDuplicates(freeLists'[d])
                      /\ \A x \in Range(freeLists'[d]) :
                           upstream'[x] = d /\ x \notin LivePtrs'
    BY DEF ListInv
  <2>1. CASE d = c
    BY <1>2, <1>3, <1>5, <1>7, <1>8, <1>11, <2>1 DEF ListInv
  <2>2. CASE d # c
    BY <1>5, <1>8, <1>11, <2>2 DEF ListInv
  <2> QED
    BY <2>1, <2>2
<1>14. \A x : x \in Cached(freeLists') <=> x \in Cached(freeLists) \/ x = a
  <2>1. \A x : x \in Cached(freeLists) <=> \E d \in Classes : x \in Range(freeLists[d])
    BY CachedFacts DEF AllocatorTypeOK
  <2>2. \A x : x \in Cached(freeLists') <=> \E d \in Classes : x \in Range(freeLists'[d])
    BY <1>11, CachedFacts
  <2>3. /\ \A x : x \in Range(freeLists'[c]) <=> x \in Range(freeLists[c]) \/ x = a
        /\ \A d \in Classes \ {c} : Range(freeLists'[d]) = Range(freeLists[d])
    BY <1>3, <1>7, <1>11
  <2> QED
    BY <1>2, <2>1, <2>2, <2>3
<1>15. VictimInv'
  <2> SUFFICES ASSUME NEW u \in Threads, NEW x \in victims[u]
               PROVE  /\ upstream'[x] # 0 /\ x \notin LivePtrs'
                      /\ x \notin Cached(freeLists')
                      /\ \A w \in Threads : x \in victims[w] => w = u
    BY <1>5 DEF VictimInv
  <2>1. /\ upstream[x] # 0 /\ x \notin LivePtrs /\ x \notin Cached(freeLists)
        /\ \A w \in Threads : x \in victims[w] => w = u
    BY DEF VictimInv
  <2>2. x # a
    BY <1>2, <2>1
  <2> QED
    BY <1>5, <1>8, <1>14, <2>1, <2>2
<1>16. HeldInv'
  BY <1>5, <1>8, <1>14 DEF HeldInv
<1>17. ReservedInv'
  <2>1. CachedBytes(freeLists') = CachedBytes(freeLists) - c * Len(s) + c * Len(t)
    BY <1>2, <1>3, <1>5, <1>7, CachedBytesChange DEF AllocatorTypeOK
  <2>2. PICK n \in Nat : n = Len(s)
    OBVIOUS
  <2>3. c * n \in Int /\ c * (n + 1) = c * n + c
    BY <1>2
  <2>4. PICK m \in Int : m = c * n
    BY <2>3
  <2>5. PICK old \in Int : old = CachedBytes(freeLists)
    BY CachedFacts DEF AllocatorTypeOK
  <2>6. c * Len(t) = m + c /\ c * Len(s) = m
    BY <1>7, <2>2, <2>3, <2>4
  <2>7. CachedBytes(freeLists') = old + c
    BY <1>2, <2>1, <2>5, <2>6
  <2>8. ~destroyed => reserved = allocated + old
    BY <2>5 DEF ReservedInv
  <2>9. ~destroyed' => reserved' = allocated' + (old + c)
    BY <1>2, <1>5, <1>10, <2>8
  <2> QED
    BY <2>7, <2>9 DEF ReservedInv
<1> QED
  BY <1>9, <1>10, <1>12, <1>13, <1>15, <1>16, <1>17

\* release_cached's critical section keeps the invariant.
LEMMA ReleaseInv ==
  ASSUME AllocatorInv, NEW t \in Threads, ReleaseCached(t)
  PROVE  AllocatorInv'
<1> USE DEF AllocatorInv
<1>1. PICK old \in Int : old = CachedBytes(freeLists)
  BY CachedFacts DEF AllocatorTypeOK
<1>2. /\ ~destroyed /\ victims[t] = {}
      /\ victims' = [victims EXCEPT ![t] = Cached(freeLists)]
      /\ reserved' = reserved - old /\ freeLists' = NoneCached
      /\ UNCHANGED <<live, allocated, upstream, destroyed>>
  BY <1>1 DEF ReleaseCached
<1>3. /\ freeLists' \in [Classes -> Seq(Addresses)]
      /\ Cached(freeLists') = {} /\ CachedBytes(freeLists') = 0
      /\ ListInv'
  BY <1>2, EmptiedLists
<1>4. LivePtrs' = LivePtrs /\ TenantInv' /\ AllocatedInv'
  BY <1>2, KeepTenants DEF AllocatorTypeOK
<1>5. /\ victims' \in [Threads -> SUBSET Addresses]
      /\ victims'[t] = Cached(freeLists)
      /\ \A u \in Threads \ {t} : victims'[u] = victims[u]
  BY <1>2, CachedFacts DEF AllocatorTypeOK
<1>6. reserved = allocated + old /\ allocated \in Int
  BY <1>1, <1>2 DEF ReservedInv, AllocatorTypeOK
<1>7. reserved' = allocated' + 0 /\ reserved' \in Int
  BY <1>1, <1>2, <1>6
<1>8. AllocatorTypeOK'
  BY <1>2, <1>3, <1>5, <1>7 DEF AllocatorTypeOK
<1>9. VictimInv'
  <2> SUFFICES ASSUME NEW u \in Threads, NEW a \in victims'[u]
               PROVE  /\ upstream[a] # 0 /\ a \notin LivePtrs
                      /\ \A w \in Threads : a \in victims'[w] => w = u
    BY <1>2, <1>3, <1>4 DEF VictimInv
  <2>1. CASE u = t
    BY <1>5, <2>1, HolderFacts DEF VictimInv
  <2>2. CASE u # t
    BY <1>5, <2>2 DEF VictimInv
  <2> QED
    BY <2>1, <2>2
<1>10. HeldInv'
  <2> SUFFICES ASSUME NEW a \in Addresses, upstream[a] # 0
               PROVE  a \in LivePtrs \/ \E u \in Threads : a \in victims'[u]
    BY <1>2, <1>4 DEF HeldInv
  <2> QED
    BY <1>2, <1>5 DEF HeldInv
<1>11. ReservedInv'
  BY <1>3, <1>7 DEF ReservedInv
<1> QED
  BY <1>3, <1>4, <1>8, <1>9, <1>10, <1>11

\* Destroying a victim outside the lock keeps the invariant.
LEMMA DestroyVictimInv ==
  ASSUME AllocatorInv, NEW t \in Threads, NEW a \in victims[t], DestroyVictim(t, a)
  PROVE  AllocatorInv'
<1> USE DEF AllocatorInv
<1>1. /\ victims' = [victims EXCEPT ![t] = @ \ {a}]
      /\ upstream' = Freed(upstream, {a})
      /\ UNCHANGED <<live, freeLists, allocated, reserved, destroyed>>
  BY DEF DestroyVictim
<1>2. a \in Addresses /\ a \notin LivePtrs /\ a \notin Cached(freeLists)
  BY HolderFacts
<1>3. /\ upstream' \in [Addresses -> Nat] /\ upstream'[a] = 0
      /\ \A x \in Addresses \ {a} : upstream'[x] = upstream[x]
  BY <1>1, <1>2 DEF Freed, AllocatorTypeOK
<1>4. \A p \in LivePtrs : upstream'[p] = upstream[p]
  BY <1>2, <1>3, HolderFacts
<1>5. LivePtrs' = LivePtrs /\ TenantInv' /\ AllocatedInv'
  BY <1>1, <1>3, <1>4, KeepTenants
<1>6. /\ victims' \in [Threads -> SUBSET Addresses]
      /\ \A u \in Threads : \A x : x \in victims'[u] <=> x \in victims[u] /\ x # a
  BY <1>1 DEF AllocatorTypeOK, VictimInv
<1>7. AllocatorTypeOK'
  BY <1>1, <1>3, <1>6 DEF AllocatorTypeOK
<1>8. \A d \in Classes : \A x \in Range(freeLists[d]) : x \in Addresses /\ x # a
  BY <1>2, CachedFacts DEF AllocatorTypeOK
<1>9. ListInv'
  BY <1>1, <1>3, <1>5, <1>8 DEF ListInv
<1>10. VictimInv'
  <2> SUFFICES ASSUME NEW u \in Threads, NEW x \in victims'[u]
               PROVE  /\ upstream'[x] # 0 /\ x \notin LivePtrs
                      /\ x \notin Cached(freeLists)
                      /\ \A w \in Threads : x \in victims'[w] => w = u
    BY <1>1, <1>5 DEF VictimInv
  <2>1. x \in victims[u] /\ x \in Addresses \ {a}
    BY <1>6, HolderFacts
  <2> QED
    BY <1>3, <1>6, <2>1 DEF VictimInv
<1>11. HeldInv'
  <2> SUFFICES ASSUME NEW x \in Addresses, upstream'[x] # 0
               PROVE  \/ x \in LivePtrs \/ x \in Cached(freeLists)
                      \/ \E u \in Threads : x \in victims'[u]
    BY <1>1, <1>5 DEF HeldInv
  <2>1. x # a /\ upstream[x] # 0
    BY <1>3
  <2> QED
    BY <1>6, <2>1 DEF HeldInv
<1>12. ReservedInv'
  BY <1>1 DEF ReservedInv
<1> QED
  BY <1>5, <1>7, <1>9, <1>10, <1>11, <1>12

\* The destructor keeps the invariant.
LEMMA DestroyInv ==
  ASSUME AllocatorInv, Destroy
  PROVE  AllocatorInv'
<1> USE DEF AllocatorInv
<1>1. /\ upstream' = Freed(upstream, Cached(freeLists))
      /\ freeLists' = NoneCached /\ destroyed' = TRUE
      /\ UNCHANGED <<live, victims, allocated, reserved>>
  BY DEF Destroy
<1>2. PICK freed : freed = Freed(upstream, Cached(freeLists))
  OBVIOUS
<1>3. /\ freed \in [Addresses -> Nat]
      /\ \A p \in LivePtrs : freed[p] = upstream[p] /\ freed[p] # 0
      /\ \A t \in Threads : \A a \in victims[t] : freed[a] = upstream[a] /\ freed[a] # 0
      /\ \A a \in Addresses : freed[a] # 0 =>
           a \in LivePtrs \/ \E t \in Threads : a \in victims[t]
  BY <1>2, FreedFacts
<1>4. /\ freeLists' \in [Classes -> Seq(Addresses)]
      /\ Cached(freeLists') = {} /\ ListInv'
  BY <1>1, EmptiedLists
<1>5. LivePtrs' = LivePtrs /\ TenantInv' /\ AllocatedInv'
  BY <1>1, <1>2, <1>3, KeepTenants
<1>6. AllocatorTypeOK'
  BY <1>1, <1>2, <1>3, <1>4 DEF AllocatorTypeOK
<1>7. VictimInv'
  BY <1>1, <1>2, <1>3, <1>4, <1>5 DEF VictimInv
<1>8. HeldInv'
  BY <1>1, <1>2, <1>3, <1>5 DEF HeldInv
<1>9. ReservedInv'
  BY <1>1 DEF ReservedInv
<1> QED
  BY <1>4, <1>5, <1>6, <1>7, <1>8, <1>9
----------------------------------------------------------------------------
(* The theorems. *)

\* The empty pool satisfies the invariant.
LEMMA InitAllocatorInv == AllocatorInit => AllocatorInv
<1> SUFFICES ASSUME AllocatorInit PROVE AllocatorInv
  OBVIOUS
<1> USE DEF AllocatorInit
<1>1. LivePtrs = {}
  BY DEF LivePtrs
<1>2. AllocatorTypeOK
  <2>1. freeLists \in [Classes -> Seq(Addresses)] /\ upstream \in [Addresses -> Nat]
    BY NoneCachedFacts
  <2>2. live = {} /\ victims \in [Threads -> SUBSET Addresses] /\ destroyed = FALSE
    OBVIOUS
  <2>3. allocated \in Int /\ reserved \in Int
    OBVIOUS
  <2> QED
    BY <2>1, <2>2, <2>3 DEF AllocatorTypeOK
<1>3. TenantInv /\ VictimInv /\ HeldInv
  BY DEF TenantInv, VictimInv, HeldInv
<1>4. ListInv
  BY NoneCachedFacts, EmptyFacts DEF ListInv
<1>5. AllocatedInv
  <2>1. PICK up \in [Addresses -> Nat] : up = upstream
    BY <1>2 DEF AllocatorTypeOK
  <2>2. BytesHeld({}, up) = 0
    BY HeldFacts
  <2> QED
    BY <1>1, <2>1, <2>2 DEF AllocatedInv, BytesHeld
<1>6. ReservedInv
  BY NoneCachedFacts DEF ReservedInv
<1> QED
  BY <1>2, <1>3, <1>4, <1>5, <1>6 DEF AllocatorInv

\* Every call keeps the invariant.
LEMMA NextIInv == AllocatorInv /\ [AllocatorNext]_allocatorVars => AllocatorInv'
<1> SUFFICES ASSUME AllocatorInv, [AllocatorNext]_allocatorVars PROVE AllocatorInv'
  OBVIOUS
<1>1. CASE UNCHANGED allocatorVars
  BY <1>1 DEF allocatorVars, AllocatorInv, AllocatorTypeOK, TenantInv, ListInv, VictimInv, HeldInv,
              AllocatedInv, ReservedInv, LivePtrs
<1>2. CASE AllocatorNext
  BY <1>2, HitInv, MissInv, RetryInv, ReturnInv, ReleaseInv, DestroyVictimInv,
     DestroyInv DEF AllocatorNext
<1> QED
  BY <1>1, <1>2

\* The invariant holds in every reachable state.
LEMMA AllocatorInvariance == AllocatorSpec => []AllocatorInv
BY InitAllocatorInv, NextIInv, PTL DEF AllocatorSpec

\* The stats that stats() returns are exact after any calls of any threads:
\* bytes_allocated is what the tenants' blocks have, bytes_reserved that and the
\* cached bytes.
THEOREM StatsAlwaysExact == AllocatorSpec => []StatsExact
<1>1. AllocatorInv => StatsExact
  BY DEF AllocatorInv, StatsExact, AllocatedInv, ReservedInv
<1> QED
  BY <1>1, AllocatorInvariance, PTL

\* The parts of the invariant give every block of the upstream one holder.
LEMMA OneHolderHolds ==
  ASSUME AllocatorInv
  PROVE  OneHolder
<1> USE DEF AllocatorInv
<1>1. \A c \in Classes : IsInjective(freeLists[c])
  BY DEF ListInv, NoDuplicates, IsInjective
<1>2. ASSUME NEW a \in Addresses
      PROVE  Cardinality({<<"live", b>> : b \in {b \in live : b.ptr = a}}
                         \cup {<<"cached", c>> : c \in {c \in Classes : a \in ToSet(freeLists[c])}}
                         \cup {<<"victim", t>> : t \in {t \in Threads : a \in victims[t]}})
               = (IF upstream[a] = 0 THEN 0 ELSE 1)
  <2> DEFINE L == {<<"live", b>> : b \in {b \in live : b.ptr = a}}
             C == {<<"cached", c>> : c \in {c \in Classes : a \in ToSet(freeLists[c])}}
             V == {<<"victim", t>> : t \in {t \in Threads : a \in victims[t]}}
  <2>1. \A c \in Classes : a \in ToSet(freeLists[c]) <=> a \in Range(freeLists[c])
    BY DEF ToSet, Range
  <2>2. a \in Cached(freeLists) <=> \E c \in Classes : a \in Range(freeLists[c])
    BY CachedFacts DEF AllocatorTypeOK
  <2>3. a \in LivePtrs <=> \E b \in live : b.ptr = a
    BY DEF LivePtrs
  <2>4. /\ a \notin LivePtrs => L = {}
        /\ a \notin Cached(freeLists) => C = {}
        /\ (\A t \in Threads : a \notin victims[t]) => V = {}
    BY <2>1, <2>2, <2>3
  <2>5. CASE upstream[a] = 0
    <3>1. L = {} /\ C = {} /\ V = {}
      BY <2>4, <2>5, HolderFacts
    <3>2. L \cup C \cup V = {}
      BY <3>1
    <3> QED
      BY <2>5, <3>2, FS_EmptySet
  <2>6. CASE upstream[a] # 0
    <3>1. \E h : L \cup C \cup V = {h}
      <4>1. CASE a \in LivePtrs
        <5>1. C = {} /\ V = {}
          BY <2>4, <4>1, HolderFacts
        <5>2. PICK b \in live : b.ptr = a
          BY <2>3, <4>1
        <5>3. \A d \in live : d.ptr = a => d = b
          BY <5>2 DEF TenantInv
        <5>4. L = {<<"live", b>>}
          BY <5>2, <5>3
        <5> QED
          BY <5>1, <5>4
      <4>2. CASE a \in Cached(freeLists)
        <5>1. L = {} /\ V = {}
          BY <2>4, <4>2, HolderFacts
        <5>2. PICK c \in Classes : a \in Range(freeLists[c])
          BY <2>2, <4>2
        <5>3. \A d \in Classes : a \in Range(freeLists[d]) => d = c
          BY <5>2 DEF ListInv
        <5>4. C = {<<"cached", c>>}
          BY <2>1, <5>2, <5>3
        <5> QED
          BY <5>1, <5>4
      <4>3. CASE \E t \in Threads : a \in victims[t]
        <5>1. L = {} /\ C = {}
          BY <2>4, <4>3, HolderFacts
        <5>2. PICK t \in Threads : a \in victims[t]
          BY <4>3
        <5>3. \A u \in Threads : a \in victims[u] => u = t
          BY <5>2 DEF VictimInv
        <5>4. V = {<<"victim", t>>}
          BY <5>2, <5>3
        <5> QED
          BY <5>1, <5>4
      <4> QED
        BY <2>6, <4>1, <4>2, <4>3 DEF HeldInv
    <3> HIDE DEF L, C, V
    <3>2. Cardinality(L \cup C \cup V) = 1
      BY <3>1, FS_Singleton
    <3> QED
      BY <2>6, <3>2 DEF L, C, V
  <2> QED
    BY <2>5, <2>6
<1> QED
  BY <1>1, <1>2 DEF OneHolder

\* Whatever the threads do, every block the upstream has given is held in
\* exactly one place (a tenant, a list, one thread's victims), and a tenant's
\* block is as large as was asked for and no larger than the table says.
THEOREM BlocksAlwaysSound == AllocatorSpec => []BlocksSound
<1>1. AllocatorInv => BlocksSound
  <2> SUFFICES ASSUME AllocatorInv PROVE BlocksSound
    OBVIOUS
  <2>1. OneHolder
    BY OneHolderHolds
  <2>2. BlocksLargeEnough
    <3> SUFFICES ASSUME NEW b \in live
                 PROVE  /\ upstream[b.ptr] = b.class /\ b.class >= b.bytes
                        /\ b.bytes > LargeStepBytes => b.class - b.bytes < LargeStepBytes
                        /\ b.bytes \in MinClassBytes..LargeStepBytes => b.class < 2 * b.bytes
      BY DEF BlocksLargeEnough
    <3>1. PICK n \in Requests : n = b.bytes
      BY DEF AllocatorInv, AllocatorTypeOK
    <3>2. b.class = SizeClass(n) /\ upstream[b.ptr] = b.class
      BY <3>1 DEF AllocatorInv, TenantInv
    <3> QED
      BY <3>1, <3>2, SizeClassFacts
  <2> QED
    BY <2>1, <2>2 DEF BlocksSound
<1> QED
  BY <1>1, AllocatorInvariance, PTL
=============================================================================
