-------------------------- MODULE CachingAllocator --------------------------
(***************************************************************************)
(* The size-class pool in front of a device or host allocator.  Threads    *)
(* allocate, drop and trim concurrently; mutex_ makes each call one step,  *)
(* but release_cached destroys its victims after the unlock, one by one,   *)
(* while other threads go on.                                              *)
(*                                                                         *)
(* The upstream allocator (external) is a set of addresses, each free or   *)
(* backing a block, with a byte capacity: it refuses what does not fit and *)
(* may hand out an address again as soon as it was freed.  hit_count,      *)
(* miss_count and zero-byte requests, which never reach the pool, are left *)
(* out.  The table's two constants, 512 bytes and 1 MiB, are parameters.   *)
(***************************************************************************)
EXTENDS Integers, Sequences, FiniteSets, SequencesExt, OrderedSeqs

CONSTANTS
  Threads,          \* threads that call release_cached
  Addresses,        \* addresses the upstream may hand out
  Capacity,         \* bytes the upstream has
  Requests,         \* byte counts asked for
  MinClassBytes,    \* kMinClassBytes
  LargeStepBytes,   \* kLargeStepBytes
  SizeMax           \* numeric_limits<size_t>::max()

ASSUME CachingAllocatorAssumption ==
  /\ Capacity \in Nat /\ SizeMax \in Nat
  /\ Requests \in SUBSET (1..SizeMax)
  /\ MinClassBytes \in Nat \ {0} /\ LargeStepBytes \in Nat
  /\ MinClassBytes <= LargeStepBytes
  /\ IsFiniteSet(Addresses)

VARIABLES
  live,         \* live_, with what the caller asked for
  freeLists,    \* free_lists_
  victims,      \* what each thread's release_cached has still to destroy
  allocated,    \* stats_.bytes_allocated
  reserved,     \* stats_.bytes_reserved
  upstream,     \* bytes behind each address, 0 when it is not allocated
  destroyed     \* the pool's destructor has run

allocatorVars == <<live, freeLists, victims, allocated, reserved, upstream, destroyed>>

PowerOfTwo[k \in Nat] == IF k = 0 THEN 1 ELSE 2 * PowerOfTwo[k - 1]

\* std::bit_ceil: the smallest power of two that is not smaller.
BitCeil(n) ==
  PowerOfTwo[CHOOSE k \in 0..n :
               PowerOfTwo[k] >= n /\ \A j \in 0..(k - 1) : PowerOfTwo[j] < n]

\* The table; the last but one case is the guard against overflow in the last.
SizeClass(bytes) ==
  IF bytes <= MinClassBytes THEN MinClassBytes
  ELSE IF bytes <= LargeStepBytes THEN BitCeil(bytes)
  ELSE IF bytes > SizeMax - (LargeStepBytes - 1) THEN bytes
  ELSE ((bytes + LargeStepBytes - 1) \div LargeStepBytes) * LargeStepBytes

Classes == {SizeClass(b) : b \in Requests}

Footprint(up) == SumOver(up, Addresses)
CachedBytes(lists) == SumOver([c \in Classes |-> c * Len(lists[c])], Classes)
Cached(lists) == UNION {ToSet(lists[c]) : c \in Classes}
NoneCached == [c \in Classes |-> <<>>]
LivePtrs == {b.ptr : b \in live}

AllocatorInit ==
  /\ live = {} /\ freeLists = NoneCached
  /\ victims = [t \in Threads |-> {}]
  /\ allocated = 0 /\ reserved = 0
  /\ upstream = [a \in Addresses |-> 0]
  /\ destroyed = FALSE
----------------------------------------------------------------------------
\* The upstream's Allocate: any address that is free, if the bytes fit.
Fits(up, bytes) == Footprint(up) + bytes <= Capacity
UpstreamAddresses(up, bytes) ==
  IF Fits(up, bytes) THEN {a \in Addresses : up[a] = 0} ELSE {}

\* What the upstream holds once the blocks of S have been destroyed.
Freed(up, S) == [a \in Addresses |-> IF a \in S THEN 0 ELSE up[a]]

HandOut(a, bytes) ==
  /\ live' = live \cup {[ptr |-> a, class |-> SizeClass(bytes), bytes |-> bytes]}
  /\ allocated' = allocated + SizeClass(bytes)

\* Allocate, a hit: the most recently returned block of the class.
AllocateHit(bytes) ==
  LET class == SizeClass(bytes) IN
  /\ ~destroyed /\ freeLists[class] # <<>>
  /\ HandOut(Last(freeLists[class]), bytes)
  /\ freeLists' = [freeLists EXCEPT ![class] = Front(@)]
  /\ UNCHANGED <<victims, reserved, upstream, destroyed>>

\* Allocate, a miss that the upstream serves.
AllocateMiss(bytes) ==
  LET class == SizeClass(bytes) IN
  /\ ~destroyed /\ freeLists[class] = <<>>
  /\ \E a \in UpstreamAddresses(upstream, class) :
       /\ upstream' = [upstream EXCEPT ![a] = class]
       /\ HandOut(a, bytes)
  /\ reserved' = reserved + class
  /\ UNCHANGED <<freeLists, victims, destroyed>>

\* Mutant: the cached blocks are dropped from the lists and still reserved.
AllocateRetryKeepsReserved(bytes) ==
  LET class == SizeClass(bytes)
      freed == Freed(upstream, Cached(freeLists)) IN
  /\ ~destroyed /\ freeLists[class] = <<>>
  /\ UpstreamAddresses(upstream, class) = {}
  /\ freeLists' = NoneCached
  /\ \/ /\ UpstreamAddresses(freed, class) = {}
        /\ upstream' = freed
        /\ UNCHANGED <<live, allocated, reserved>>
     \/ \E a \in UpstreamAddresses(freed, class) :
          /\ upstream' = [freed EXCEPT ![a] = class]
          /\ HandOut(a, bytes)
          /\ reserved' = reserved + class
  /\ UNCHANGED <<victims, destroyed>>

\* Allocate, a miss the upstream refuses: everything cached is destroyed under
\* the lock and the upstream asked once more; it may still refuse.
AllocateRetry(bytes) ==
  LET class    == SizeClass(bytes)
      freed    == Freed(upstream, Cached(freeLists))
      released == CachedBytes(freeLists) IN
  /\ ~destroyed /\ freeLists[class] = <<>>
  /\ UpstreamAddresses(upstream, class) = {}
  /\ freeLists' = NoneCached
  /\ \/ /\ UpstreamAddresses(freed, class) = {}
        /\ upstream' = freed
        /\ reserved' = reserved - released
        /\ UNCHANGED <<live, allocated>>
     \/ \E a \in UpstreamAddresses(freed, class) :
          /\ upstream' = [freed EXCEPT ![a] = class]
          /\ HandOut(a, bytes)
          /\ reserved' = reserved - released + class
  /\ UNCHANGED <<victims, destroyed>>

\* Return, the deleter of a live Buffer.
Return(b) ==
  /\ b \in live
  /\ live' = live \ {b}
  /\ allocated' = allocated - b.class
  /\ freeLists' = [freeLists EXCEPT ![b.class] = Append(@, b.ptr)]
  /\ UNCHANGED <<victims, reserved, upstream, destroyed>>

\* Mutant: the lists keep the blocks the victims vector took.
ReleaseKeepsLists(t) ==
  /\ ~destroyed /\ victims[t] = {} /\ Cached(freeLists) # {}
  /\ victims' = [victims EXCEPT ![t] = Cached(freeLists)]
  /\ UNCHANGED <<live, freeLists, allocated, reserved, upstream, destroyed>>

\* release_cached's critical section: the lists move to the thread's victims.
ReleaseCached(t) ==
  /\ ~destroyed /\ victims[t] = {} /\ Cached(freeLists) # {}
  /\ victims' = [victims EXCEPT ![t] = Cached(freeLists)]
  /\ reserved' = reserved - CachedBytes(freeLists)
  /\ freeLists' = NoneCached
  /\ UNCHANGED <<live, allocated, upstream, destroyed>>

\* victims.clear(), outside the lock.
DestroyVictim(t, a) ==
  /\ a \in victims[t]
  /\ victims' = [victims EXCEPT ![t] = @ \ {a}]
  /\ upstream' = Freed(upstream, {a})
  /\ UNCHANGED <<live, freeLists, allocated, reserved, destroyed>>

\* The destructor: CHECKs that nothing is live and drops the lists.  Nobody may
\* still be inside a call.
Destroy ==
  /\ ~destroyed /\ live = {} /\ \A t \in Threads : victims[t] = {}
  /\ destroyed' = TRUE
  /\ upstream' = Freed(upstream, Cached(freeLists))
  /\ freeLists' = NoneCached
  /\ UNCHANGED <<live, victims, allocated, reserved>>

AllocatorNext ==
  \/ \E bytes \in Requests :
       AllocateHit(bytes) \/ AllocateMiss(bytes) \/ AllocateRetry(bytes)
  \/ \E b \in live : Return(b)
  \/ \E t \in Threads :
       ReleaseCached(t) \/ \E a \in victims[t] : DestroyVictim(t, a)
  \/ Destroy

AllocatorSpec == AllocatorInit /\ [][AllocatorNext]_allocatorVars
----------------------------------------------------------------------------
\* The invariant stats() documents: reserved is what is handed out plus what is
\* cached, through hits, misses, retries and trims.
StatsExact ==
  /\ allocated = SumOver([a \in LivePtrs |-> upstream[a]], LivePtrs)
  /\ ~destroyed => reserved = allocated + CachedBytes(freeLists)

\* Every block the upstream has given is held in exactly one place: handed out
\* once, cached once, or waiting to be destroyed by one thread.  So no block has
\* two tenants, none is freed under its tenant, and none leaks.
OneHolder ==
  /\ \A c \in Classes : IsInjective(freeLists[c])
  /\ \A a \in Addresses :
       Cardinality({<<"live", b>> : b \in {b \in live : b.ptr = a}}
                   \cup {<<"cached", c>> : c \in {c \in Classes : a \in ToSet(freeLists[c])}}
                   \cup {<<"victim", t>> : t \in {t \in Threads : a \in victims[t]}})
         = (IF upstream[a] = 0 THEN 0 ELSE 1)

\* A tenant has at least the bytes it asked for, from a block of its class, with
\* at most double for a small one and less than a step more for a big one.
BlocksLargeEnough ==
  \A b \in live :
    /\ upstream[b.ptr] = b.class /\ b.class >= b.bytes
    /\ b.bytes > LargeStepBytes => b.class - b.bytes < LargeStepBytes
    /\ b.bytes \in MinClassBytes..LargeStepBytes => b.class < 2 * b.bytes

\* Every block has one holder, and a tenant's is large enough.
BlocksSound == OneHolder /\ BlocksLargeEnough
=============================================================================
