---------------------------- MODULE EngineProofs ----------------------------
(***************************************************************************)
(* Safety of the runtime for every configuration, number of requests,      *)
(* prompt length and limit, with faults and with another user of the pool  *)
(* (the theorems about running out of blocks assume there is none).        *)
(*                                                                         *)
(* None of the properties is inductive alone.  That a token lands in its   *)
(* place needs the cache to be aligned with what was generated; alignment  *)
(* is broken and restored inside a pass, so AlignInv follows each running  *)
(* sequence through it (before, inside and after the forward, and while it *)
(* waits to be re-run); that a pass meets a sequence at most once, and an  *)
(* admission only empty caches, needs the queues to partition the live     *)
(* requests; and that needs to know what the command queue holds.  Two     *)
(* later sections add to this invariant what the blocks and the cancelled  *)
(* requests need.                                                          *)
(***************************************************************************)
EXTENDS Engine, SchedulerProofs

Passing == {"forward", "rows", "recover"}

Queued == {commands[i].id : i \in At("submit")}

\* Submits still in the command queue: each request once, accepted, not live.
QueuedInv ==
  /\ \A i, j \in At("submit") : commands[i].id = commands[j].id => i = j
  /\ \A r \in Queued : /\ r < nextId
                       /\ r \notin live
                       /\ state[r] = "kWaiting"
                       /\ closed[r] = "open"

\* An accepted request that is neither queued nor live is over and closed.
StateInv ==
  /\ \A r \in Ids : r >= nextId => state[r] = "none" /\ closed[r] = "open"
  /\ \A r \in Ids : r < nextId => state[r] # "none"
  /\ \A r \in live : r < nextId /\ closed[r] = "open"
  /\ \A r \in Ids : r < nextId /\ r \notin live /\ r \notin Queued =>
                      state[r] \in Terminal /\ closed[r] # "open"

\* Only members of the running list have anything cached.
CacheInv == \A r \in Ids : r \notin Range(running) => length[r] = 0

\* What was generated, what was pushed and what is still allowed.
ProgressInv ==
  \A r \in Ids :
    /\ state[r] \in {"none", "kWaiting"} => generated[r] = 0
    /\ state[r] \in {"kWaiting", "kPreempted", "kRunning"} =>
         prompt[r] > 0 /\ generated[r] < limit[r]
    /\ state[r] # "kFailed" => Len(stream[r]) = generated[r]

\* The pass under way.
PassInv ==
  /\ pc \notin Passing => todo = <<>>
  /\ NoDuplicates(todo)
  /\ pc \in {"forward", "rows"} => \A r \in Range(todo) : state[r] = "kRunning"
  /\ pc \in Passing /\ prefillPass => NoDuplicates(decodeList)

Aligned(r) == generated[r] >= 1 /\ length[r] = prompt[r] + generated[r] - 1

\* Where the cache of a running sequence stands.
AlignInv ==
  \A r \in Ids : state[r] = "kRunning" =>
    /\ r \notin Range(todo) => Aligned(r)
    /\ r \in Range(todo) /\ pc = "forward" =>
         IF prefillPass THEN length[r] = 0 ELSE Aligned(r)
    /\ r \in Range(todo) /\ pc = "rows" => length[r] = prompt[r] + generated[r]
    /\ r \in Range(todo) /\ pc = "recover" =>
         IF prefillPass THEN preLen[r] = 0
         ELSE generated[r] >= 1 /\ preLen[r] = prompt[r] + generated[r] - 1

IInv ==
  /\ TypeOK
  /\ QueuesPartitionLive
  /\ QueuedInv
  /\ StateInv
  /\ CacheInv
  /\ ProgressInv
  /\ StreamsInOrder
  /\ PassInv
  /\ AlignInv

----------------------------------------------------------------------------
(* Helpers. *)

\* Put changes a function at the points of the set and nowhere else.
LEMMA PutFacts ==
  ASSUME NEW A, NEW B, NEW f \in [A -> B], NEW S, NEW v \in B
  PROVE  /\ Put(f, S, v) \in [A -> B]
         /\ \A r \in A : Put(f, S, v)[r] = IF r \in S THEN v ELSE f[r]
BY DEF Put

\* Appending a cancel to the command queue leaves its submits as they are;
\* appending a submit adds that one.
LEMMA AppendCommand ==
  ASSUME commands \in Seq(Command), NEW c \in Command,
         commands' = Append(commands, c),
         \A i, j \in At("submit") : commands[i].id = commands[j].id => i = j
  PROVE  /\ commands' \in Seq(Command)
         /\ c.op = "cancel" => Queued' = Queued
         /\ c.op = "submit" => Queued' = Queued \cup {c.id}
         /\ c.op = "cancel" \/ c.id \notin Queued =>
              (\A i, j \in At("submit") : commands[i].id = commands[j].id => i = j)'
<1> DEFINE n == Len(commands)
<1>1. /\ n \in Nat /\ DOMAIN commands = 1..n /\ DOMAIN commands' = 1..(n + 1)
      /\ \A i \in 1..n : commands'[i] = commands[i]
      /\ commands'[n + 1] = c
      /\ commands' \in Seq(Command)
  OBVIOUS
<1> HIDE DEF n
<1>2. At("submit")' = At("submit") \cup (IF c.op = "submit" THEN {n + 1} ELSE {})
  BY <1>1 DEF At
<1>3. \A i \in At("submit") : commands'[i] = commands[i] /\ i # n + 1 /\ i \in Nat
  BY <1>1 DEF At
<1>4. c.op = "cancel" => c.op # "submit"
  OBVIOUS
<1>5. /\ \A x : x \in Queued <=> \E i \in At("submit") : commands[i].id = x
      /\ \A x : x \in Queued' <=> \E i \in At("submit")' : commands'[i].id = x
  BY Zenon DEF Queued
<1>6. /\ c.op = "cancel" => Queued' = Queued
      /\ c.op = "submit" => Queued' = Queued \cup {c.id}
  <2>1. ASSUME c.op = "cancel" PROVE Queued' = Queued
    <3>1. At("submit") \subseteq At("submit")'
      BY <1>2
    <3>2. \A i \in At("submit")' : i \in At("submit")
      BY <1>2, <1>4, <2>1
    <3>3. \A x \in Queued : x \in Queued'
      BY <1>3, <1>5, <3>1, ZenonT(60)
    <3>4. \A x \in Queued' : x \in Queued
      <4> SUFFICES ASSUME NEW i \in At("submit")' PROVE commands'[i].id \in Queued
        BY <1>5, ZenonT(60)
      <4>1. i \in At("submit") /\ commands'[i] = commands[i]
        BY <1>3, <3>2
      <4> QED
        BY <1>5, <4>1, Zenon
    <3> QED
      BY <3>3, <3>4
  <2>2. ASSUME c.op = "submit" PROVE Queued' = Queued \cup {c.id}
    <3>1. \A i \in At("submit")' : i \in At("submit") \/ i = n + 1
      BY <1>2, <2>2
    <3>2. At("submit") \subseteq At("submit")' /\ n + 1 \in At("submit")'
      BY <1>2, <2>2
    <3>3. \A x \in Queued' : x \in Queued \/ x = c.id
      <4> SUFFICES ASSUME NEW x, \E i \in At("submit")' : commands'[i].id = x
                   PROVE  x \in Queued \/ x = c.id
        BY <1>5, Zenon
      <4>1. PICK i \in At("submit")' : commands'[i].id = x
        OBVIOUS
      <4>2. CASE i = n + 1
        BY <1>1, <4>1, <4>2
      <4>3. CASE i \in At("submit")
        <5>1. commands[i].id = x
          BY <1>3, <4>1, <4>3
        <5> QED
          BY <1>5, <4>3, <5>1, Zenon
      <4> QED
        BY <3>1, <4>2, <4>3
    <3>4. \A x \in Queued : x \in Queued'
      BY <1>3, <1>5, <3>2, ZenonT(60)
    <3>5. c.id \in Queued'
      BY <1>1, <1>5, <3>2
    <3> QED
      BY <3>3, <3>4, <3>5
  <2> QED
    BY <2>1, <2>2
<1>7. ASSUME c.op = "cancel" \/ c.id \notin Queued
      PROVE  (\A i, j \in At("submit") : commands[i].id = commands[j].id => i = j)'
  <2>1. CASE c.op = "cancel"
    BY <1>2, <1>3, <1>4, <2>1
  <2>2. CASE c.id \notin Queued
    <3>1. \A i \in At("submit") : commands[i].id # c.id
      BY <2>2 DEF Queued
    <3> QED
      BY <1>1, <1>2, <1>3, <3>1
  <2> QED
    BY <1>7, <2>1, <2>2
<1> QED
  BY <1>1, <1>6, <1>7

\* Queued requests have ids the engine handed out.
LEMMA QueuedIds ==
  ASSUME commands \in Seq(Command)
  PROVE  Queued \subseteq Ids
<1>1. \A i \in DOMAIN commands : commands[i] \in Command
  OBVIOUS
<1>2. \A i \in At("submit") : commands[i].id \in Ids
  BY <1>1 DEF At, Command
<1> QED
  BY <1>2 DEF Queued

\* A running sequence is on the running list.
LEMMA RunningListed ==
  ASSUME IInv
  PROVE  \A r \in Ids : state[r] = "kRunning" => r \in Range(running)
<1> SUFFICES ASSUME NEW r \in Ids, state[r] = "kRunning" PROVE r \in Range(running)
  OBVIOUS
<1>1. r < nextId
  BY DEF IInv, StateInv, TypeOK, Ids
<1>2. r \notin Queued
  BY DEF IInv, QueuedInv
<1>3. r \in live
  BY <1>1, <1>2 DEF IInv, StateInv, Terminal
<1> QED
  BY <1>3 DEF IInv, QueuesPartitionLive

----------------------------------------------------------------------------
(* The invariant holds initially and every action keeps it. *)

\* The initial state satisfies the invariant.
LEMMA InitIInv == Init => IInv
<1> SUFFICES ASSUME Init PROVE IInv
  OBVIOUS
<1>0. At("submit") = {} /\ Queued = {}
  BY DEF Init, At, Queued
<1>1. TypeOK
  <2>1. /\ nextId \in 1..(MaxRequests + 1) /\ cancels \in 0..MaxCancels
        /\ external \in 0..MaxExternal /\ cancelAt \in [Ids -> Nat \cup {-1}]
    BY EngineAssumption DEF Init
  <2>2. /\ commands \in Seq(Command) /\ waiting \in Seq(Ids) /\ running \in Seq(Ids)
        /\ decodeList \in Seq(Ids) /\ todo \in Seq(Ids)
        /\ stream \in [Ids -> Seq(Int)]
    BY DEF Init
  <2> QED
    BY <2>1, <2>2 DEF Init, TypeOK, Boundary, SeqState, Terminal
<1>2. QueuesPartitionLive
  BY EmptyFacts DEF Init, QueuesPartitionLive
<1>3. QueuedInv
  BY <1>0 DEF QueuedInv
<1>4. StateInv
  BY EngineAssumption, <1>0 DEF Init, StateInv, Ids
<1>5. CacheInv
  BY DEF Init, CacheInv
<1>6. ProgressInv
  BY DEF Init, ProgressInv
<1>7. StreamsInOrder
  <2>1. \A r \in Ids : Len(stream[r]) = 0 /\ stream[r] = <<>>
    BY DEF Init
  <2>2. [i \in 1..0 |-> i] = <<>>
    OBVIOUS
  <2> QED
    BY <2>1, <2>2, Zenon DEF StreamsInOrder
<1>8. PassInv
  BY EmptyFacts DEF Init, PassInv, Passing
<1>9. AlignInv
  BY DEF Init, AlignInv
<1> QED
  BY <1>1, <1>2, <1>3, <1>4, <1>5, <1>6, <1>7, <1>8, <1>9 DEF IInv

\* Submit adds one queued, waiting request.
LEMMA SubmitInv ==
  ASSUME IInv, NEW p \in PromptLens, NEW m \in TokenLimits, Submit(p, m)
  PROVE  IInv'
<1> DEFINE c == [op |-> "submit", id |-> nextId]
<1>1. /\ nextId \in Ids /\ nextId \in Nat /\ nextId' = nextId + 1
      /\ p \in Nat /\ p > 0 /\ m \in Nat /\ m > 0
      /\ nextId' \in 1..(MaxRequests + 1)
  BY EngineAssumption DEF IInv, TypeOK, Submit, Accepts, Ids
<1>2. c \in Command /\ c.op = "submit" /\ c.id = nextId
  BY <1>1 DEF Command
<1>3. nextId \notin Queued /\ nextId \notin live /\ state[nextId] = "none"
  BY <1>1 DEF IInv, QueuedInv, StateInv
<1>4. /\ commands' \in Seq(Command)
      /\ Queued \subseteq Ids
      /\ Queued' = Queued \cup {nextId}
      /\ (\A i, j \in At("submit") : commands[i].id = commands[j].id => i = j)'
  BY <1>2, <1>3, AppendCommand, QueuedIds DEF IInv, TypeOK, Submit, QueuedInv
<1>5. /\ prompt' = [prompt EXCEPT ![nextId] = p]
      /\ limit' = [limit EXCEPT ![nextId] = m]
      /\ state' = [state EXCEPT ![nextId] = "kWaiting"]
      /\ notify' = TRUE
      /\ UNCHANGED <<stopRequested, cancels, pc, live, waiting, running, cancelRequested,
                     decodeList, prefillPass, todo, preLen, generated, length, computed,
                     stream, closed, external, cancelAt>>
  BY DEF Submit, queueVars, passVars, chanVars
<1>6. TypeOK'
  BY <1>1, <1>4, <1>5 DEF IInv, TypeOK, SeqState
<1>7. Range(waiting) \subseteq live /\ Range(running) \subseteq live
  BY DEF IInv, QueuesPartitionLive
<1>8. QueuesPartitionLive'
  BY <1>3, <1>5, <1>7 DEF IInv, QueuesPartitionLive, TypeOK
<1>9. QueuedInv'
  BY <1>1, <1>3, <1>4, <1>5 DEF IInv, QueuedInv, StateInv, TypeOK, Ids
<1>10. StateInv'
  BY <1>1, <1>3, <1>4, <1>5 DEF IInv, StateInv, TypeOK, Ids
<1>11. CacheInv'
  BY <1>5 DEF IInv, CacheInv
<1>12. ProgressInv'
  BY <1>1, <1>3, <1>5 DEF IInv, ProgressInv, TypeOK
<1>13. StreamsInOrder'
  BY <1>5 DEF IInv, StreamsInOrder
<1>14. PassInv'
  BY <1>3, <1>5 DEF IInv, PassInv, TypeOK
<1>15. AlignInv'
  BY <1>3, <1>5 DEF IInv, AlignInv, Aligned, TypeOK
<1> QED
  BY <1>6, <1>8, <1>9, <1>10, <1>11, <1>12, <1>13, <1>14, <1>15 DEF IInv

\* The invariant does not depend on the stop flag, the notification, the pool's
\* other user or cancel marks, nor on where between two steps the thread is.
LEMMA FrameInv ==
  ASSUME IInv, TypeOK', Queued' = Queued,
         (\A i, j \in At("submit") : commands[i].id = commands[j].id => i = j)',
         UNCHANGED <<nextId, live, waiting, running, decodeList, prefillPass, todo,
                     preLen, state, prompt, limit, generated, length, stream, closed>>,
         pc' = pc \/ (pc \in Boundary /\ pc' \in Boundary)
  PROVE  IInv'
<1>1. pc' \in Boundary <=> pc \in Boundary
  OBVIOUS
<1>2. \A l \in Passing : pc' = l <=> pc = l
  BY DEF Boundary, Passing
<1>3. QueuesPartitionLive'
  BY <1>1 DEF IInv, QueuesPartitionLive
<1>4. QueuedInv' /\ StateInv' /\ CacheInv' /\ ProgressInv' /\ StreamsInOrder'
  BY DEF IInv, QueuedInv, StateInv, CacheInv, ProgressInv, StreamsInOrder
<1>5. PassInv'
  BY <1>2 DEF IInv, PassInv, Passing
<1>6. AlignInv'
  BY <1>2 DEF IInv, AlignInv, Aligned, Passing
<1> QED
  BY <1>3, <1>4, <1>5, <1>6 DEF IInv

\* The actions that FrameInv covers, with the command queue untouched.
LEMMA QuietInv ==
  ASSUME IInv,
         \/ Stop \/ NotifyEngine \/ Start \/ ExternalTake \/ ExternalGive
         \/ CheckStop \/ IdleWait \/ UNCHANGED vars
  PROVE  IInv'
<1>1. /\ UNCHANGED <<commands, nextId, cancels, live, waiting, running, cancelRequested,
                     decodeList, prefillPass, todo, preLen, state, prompt, limit,
                     generated, length, computed, stream, closed, cancelAt>>
      /\ stopRequested' \in {stopRequested, TRUE} /\ notify' \in {notify, TRUE, FALSE}
      /\ pc' = pc \/ (pc \in Boundary /\ pc' \in Boundary)
  BY DEF Stop, NotifyEngine, Start, ExternalTake, ExternalGive, CheckStop, IdleWait,
         vars, clientVars, queueVars, passVars, seqVars, chanVars, Boundary
<1>2. external' \in 0..MaxExternal
  BY EngineAssumption
     DEF IInv, TypeOK, Stop, NotifyEngine, Start, ExternalTake, ExternalGive, CheckStop,
         IdleWait, vars
<1>3. TypeOK'
  BY <1>1, <1>2 DEF IInv, TypeOK
<1>4. Queued' = Queued
  BY <1>1 DEF Queued, At
<1>5. (\A i, j \in At("submit") : commands[i].id = commands[j].id => i = j)'
  BY <1>1 DEF IInv, QueuedInv, At
<1> QED
  BY <1>1, <1>3, <1>4, <1>5, FrameInv

\* Cancel only queues a command.
LEMMA CancelInv ==
  ASSUME IInv, NEW r \in Ids, Cancel(r)
  PROVE  IInv'
<1> DEFINE c == [op |-> "cancel", id |-> r]
<1>1. c \in Command /\ c.op = "cancel"
  BY DEF Command
<1>2. /\ commands' \in Seq(Command)
      /\ Queued' = Queued
      /\ (\A i, j \in At("submit") : commands[i].id = commands[j].id => i = j)'
  BY <1>1, AppendCommand DEF IInv, TypeOK, Cancel, QueuedInv
<1>3. /\ UNCHANGED <<nextId, stopRequested, pc, live, waiting, running, cancelRequested,
                     decodeList, prefillPass, todo, preLen, state, prompt, limit,
                     generated, length, computed, stream, closed, external>>
      /\ notify' = TRUE
  BY DEF Cancel, queueVars, passVars, seqVars, chanVars
<1>4. cancels' \in 0..MaxCancels
  BY EngineAssumption DEF IInv, TypeOK, Cancel
<1>5. cancelAt' \in [Ids -> Nat \cup {-1}]
  <2>1. Len(stream[r]) \in Nat
    BY DEF IInv, TypeOK
  <2> QED
    BY <2>1 DEF IInv, TypeOK, Cancel
<1>6. TypeOK'
  BY <1>2, <1>3, <1>4, <1>5 DEF IInv, TypeOK
<1> QED
  BY <1>2, <1>3, <1>6, FrameInv

\* The queue that DrainCommands swaps in holds nothing.
LEMMA QueueEmptied ==
  ASSUME commands' = <<>>
  PROVE  At("submit")' = {} /\ Queued' = {}
<1>1. At("submit")' = {}
  BY DEF At
<1> QED
  BY <1>1 DEF Queued

\* The ids of the drained submits, in the order they were queued.
LEMMA DrainedSubmits ==
  ASSUME commands \in Seq(Command), QueuedInv
  PROVE  LET submits == AtPositions(commands, At("submit"))
             ids == [k \in DOMAIN submits |-> submits[k].id]
         IN ids \in Seq(Ids) /\ Range(ids) = Queued /\ NoDuplicates(ids)
<1> DEFINE I == At("submit")
           at == Sorted(I)
           ids == [k \in 1..Len(at) |-> commands[at[k]].id]
           submits == AtPositions(commands, I)
<1>1. DOMAIN commands = 1..Len(commands) /\ Len(commands) \in Nat
  OBVIOUS
<1>2. I \in SUBSET Nat /\ IsFiniteSet(I) /\ I \subseteq DOMAIN commands
  <2>1. IsFiniteSet(DOMAIN commands)
    BY <1>1, FS_Interval
  <2>2. I \subseteq DOMAIN commands
    BY DEF At
  <2> QED
    BY <1>1, <2>1, <2>2, FS_Subset
<1>3. at \in Seq(I) /\ Range(at) = I /\ NoDuplicates(at)
  BY <1>2, SortedFacts
<1>4. DOMAIN at = 1..Len(at) /\ Len(at) \in Nat /\ \A k \in 1..Len(at) : at[k] \in I
  BY <1>3
<1>5. \A i \in I : commands[i].id \in Ids
  <2>1. \A i \in DOMAIN commands : commands[i] \in Command
    OBVIOUS
  <2> QED
    BY <1>2, <2>1 DEF Command
<1>6. [k \in DOMAIN submits |-> submits[k].id] = ids
  BY <1>4 DEF AtPositions
<1> HIDE DEF at, I
<1>7. ids \in Seq(Ids)
  BY <1>4, <1>5
<1>8. DOMAIN ids = 1..Len(at) /\ \A k \in 1..Len(at) : ids[k] = commands[at[k]].id
  OBVIOUS
<1> HIDE DEF ids
<1>9. Range(ids) = Queued
  <2>1. \A k \in DOMAIN ids : ids[k] \in Queued
    BY <1>4, <1>8 DEF Queued, I
  <2>2. ASSUME NEW i \in I PROVE commands[i].id \in Range(ids)
    <3>1. PICK k \in 1..Len(at) : at[k] = i
      BY <1>3, <1>4 DEF Range
    <3> QED
      BY <1>8, <3>1 DEF Range
  <2> QED
    BY <2>1, <2>2 DEF Queued, Range, I
<1>10. NoDuplicates(ids)
  <2> SUFFICES ASSUME NEW j \in 1..Len(at), NEW k \in 1..Len(at), ids[j] = ids[k]
               PROVE  j = k
    BY <1>8 DEF NoDuplicates
  <2>1. at[j] = at[k]
    BY <1>4, <1>8 DEF QueuedInv, I
  <2> QED
    BY <1>3, <1>4, <2>1 DEF NoDuplicates
<1> QED
  BY <1>6, <1>7, <1>9, <1>10 DEF I

\* DrainCommands moves the queued submits to the tail of the waiting queue.
LEMMA DrainInv ==
  ASSUME IInv, DrainCommands
  PROVE  IInv'
<1> DEFINE submits == AtPositions(commands, At("submit"))
           ids == [k \in DOMAIN submits |-> submits[k].id]
<1>1. ids \in Seq(Ids) /\ Range(ids) = Queued /\ NoDuplicates(ids)
  BY DrainedSubmits DEF IInv, TypeOK
<1>2. waiting' = waiting \o ids /\ live' = live \cup Queued
  BY DEF DrainCommands, Queued
<1> HIDE DEF ids
<1>3. /\ cancelRequested' \in [Ids -> BOOLEAN]
      /\ commands' = <<>> /\ pc = "drain" /\ pc' = "retire"
      /\ UNCHANGED <<nextId, stopRequested, notify, cancels, running, decodeList,
                     prefillPass, todo, preLen, state, prompt, limit, generated, length,
                     computed, stream, closed, external, cancelAt>>
  <2> DEFINE known(i) == live \cup {commands[j].id : j \in {k \in At("submit") : k < i}}
             marked == {r \in Ids : \E i \in At("cancel") :
                                      commands[i].id = r /\ r \in known(i)}
  <2>1. cancelRequested' = Put(cancelRequested, marked, TRUE)
    BY DEF DrainCommands
  <2>2. cancelRequested' \in [Ids -> BOOLEAN]
    <3> HIDE DEF marked
    <3>1. cancelRequested \in [Ids -> BOOLEAN]
      BY DEF IInv, TypeOK
    <3>2. Put(cancelRequested, marked, TRUE) \in [Ids -> BOOLEAN]
      BY <3>1, PutFacts, Zenon
    <3> QED
      BY <2>1, <3>2
  <2>3. /\ commands' = <<>> /\ pc = "drain" /\ pc' = "retire"
        /\ UNCHANGED <<nextId, stopRequested, notify, cancels, running, passVars, state,
                       seqVars, chanVars, external, cancelAt>>
    BY DEF DrainCommands
  <2> QED
    BY <2>2, <2>3 DEF passVars, seqVars, chanVars
<1>4. At("submit")' = {} /\ Queued' = {}
  BY <1>3, QueueEmptied
<1>5. \A r \in Queued : r \in Ids /\ r \notin live /\ r < nextId
                          /\ state[r] = "kWaiting" /\ closed[r] = "open"
  <2>1. Queued \subseteq Ids
    BY <1>1 DEF Range
  <2> QED
    BY <2>1 DEF IInv, QueuedInv
<1>6. /\ waiting' \in Seq(Ids) /\ Range(waiting') = Range(waiting) \cup Queued
      /\ NoDuplicates(waiting')
  <2>1. Range(waiting) \cap Queued = {}
    BY <1>5 DEF IInv, QueuesPartitionLive
  <2> QED
    BY <1>1, <1>2, <2>1, ConcatFacts DEF IInv, TypeOK, QueuesPartitionLive
<1>7. TypeOK'
  <2>1. live' \in SUBSET Ids
    BY <1>2, <1>5 DEF IInv, TypeOK
  <2>2. commands' \in Seq(Command)
    BY <1>3
  <2> QED
    BY <1>3, <1>6, <2>1, <2>2 DEF IInv, TypeOK, Boundary
<1>8. QueuesPartitionLive'
  BY <1>2, <1>3, <1>5, <1>6 DEF IInv, QueuesPartitionLive, Boundary
<1>9. QueuedInv'
  BY <1>4 DEF QueuedInv
<1>10. StateInv'
  BY <1>2, <1>3, <1>4, <1>5 DEF IInv, StateInv
<1>11. CacheInv' /\ ProgressInv' /\ StreamsInOrder'
  BY <1>3 DEF IInv, CacheInv, ProgressInv, StreamsInOrder
<1>12. PassInv'
  BY <1>3 DEF IInv, PassInv, Passing
<1>13. AlignInv'
  BY <1>3 DEF IInv, AlignInv, Aligned
<1> QED
  BY <1>7, <1>8, <1>9, <1>10, <1>11, <1>12, <1>13 DEF IInv

\* Between two steps no live request is in a terminal state.
LEMMA BoundaryLive ==
  ASSUME IInv, pc \in Boundary
  PROVE  /\ \A r \in live : state[r] \in {"kWaiting", "kPreempted", "kRunning"}
         /\ \A r \in Range(running) : state[r] = "kRunning"
         /\ todo = <<>> /\ Range(todo) = {}
<1>1. \A r \in Range(running) : state[r] = "kRunning"
  BY DEF IInv, QueuesPartitionLive
<1>2. \A r \in live : state[r] \in {"kWaiting", "kPreempted", "kRunning"}
  BY <1>1 DEF IInv, QueuesPartitionLive
<1>3. todo = <<>>
  BY DEF IInv, PassInv, Passing, Boundary
<1> QED
  BY <1>1, <1>2, <1>3, EmptyFacts

\* RetireCancelled drops the marked requests from both lists and closes them.
LEMMA RetireCancelledInv ==
  ASSUME IInv, RetireCancelled
  PROVE  IInv'
<1> DEFINE C == {r \in live : cancelRequested[r] /\ state[r] \notin Terminal}
<1>1. /\ state' = Put(state, C, "kCancelled")
      /\ closed' = [r \in Ids |-> IF r \in C /\ closed[r] = "open"
                                  THEN "kCancelled" ELSE closed[r]]
      /\ length' = Put(length, C, 0)
      /\ live' = live \ C /\ waiting' = Erase(waiting, C) /\ running' = Erase(running, C)
      /\ pc = "retire" /\ pc' \in {"idle", "schedule"}
      /\ UNCHANGED <<clientVars, cancelRequested, passVars, prompt, limit, generated,
                     computed, stream, external, cancelAt>>
  BY DEF RetireCancelled
<1>2. C \subseteq live
  OBVIOUS
<1> HIDE DEF C
<1>3. UNCHANGED <<nextId, commands, stopRequested, notify, cancels, decodeList,
                  prefillPass, todo, preLen>>
  BY <1>1 DEF clientVars, passVars
<1>4. /\ \A r \in live : state[r] \in {"kWaiting", "kPreempted", "kRunning"}
      /\ \A r \in Range(running) : state[r] = "kRunning"
      /\ todo = <<>> /\ Range(todo) = {}
  BY <1>1, BoundaryLive DEF Boundary
<1>5. /\ state' \in [Ids -> SeqState \cup {"none"}]
      /\ \A r \in Ids : state'[r] = IF r \in C THEN "kCancelled" ELSE state[r]
  BY <1>1 DEF Put, IInv, TypeOK, SeqState, Terminal
<1>6. /\ length' \in [Ids -> Nat]
      /\ \A r \in Ids : length'[r] = IF r \in C THEN 0 ELSE length[r]
  BY <1>1 DEF Put, IInv, TypeOK
<1>7. /\ closed' \in [Ids -> Terminal \cup {"open"}]
      /\ \A r \in Ids \ C : closed'[r] = closed[r]
      /\ \A r \in Ids \cap C : closed'[r] = "kCancelled"
  BY <1>1, <1>2 DEF IInv, TypeOK, StateInv, Terminal
<1>8. /\ waiting' \in Seq(Ids) /\ running' \in Seq(Ids)
      /\ Range(waiting') = Range(waiting) \ C /\ Range(running') = Range(running) \ C
      /\ NoDuplicates(waiting') /\ NoDuplicates(running')
  BY <1>1, EraseFacts DEF IInv, TypeOK, QueuesPartitionLive
<1>9. Queued' = Queued /\ At("submit")' = At("submit") /\ Queued \subseteq Ids
  <2>1. Queued' = Queued /\ At("submit")' = At("submit")
    BY <1>3 DEF Queued, At
  <2> QED
    BY <2>1, QueuedIds DEF IInv, TypeOK
<1>10. TypeOK'
  BY <1>1, <1>3, <1>5, <1>6, <1>7, <1>8 DEF IInv, TypeOK, Boundary
<1>11. QueuesPartitionLive'
  BY <1>1, <1>4, <1>5, <1>8 DEF IInv, TypeOK, QueuesPartitionLive
<1>12. QueuedInv'
  BY <1>2, <1>3, <1>1, <1>5, <1>7, <1>9 DEF IInv, QueuedInv
<1>13. StateInv'
  BY <1>1, <1>2, <1>3, <1>5, <1>7, <1>9 DEF IInv, TypeOK, StateInv, Terminal, Ids
<1>14. CacheInv'
  BY <1>6, <1>8 DEF IInv, CacheInv
<1>15. ProgressInv'
  <2>1. \A r \in Ids \cap C : state[r] # "kFailed"
    BY <1>2, <1>4
  <2> QED
    BY <1>1, <1>5, <2>1 DEF IInv, ProgressInv
<1>16. StreamsInOrder'
  BY <1>1 DEF IInv, StreamsInOrder
<1>17. PassInv'
  BY <1>1, <1>3, <1>4, EmptyFacts DEF PassInv, Passing
<1>18. AlignInv'
  BY <1>1, <1>3, <1>4, <1>5, <1>6 DEF IInv, AlignInv, Aligned
<1> QED
  BY <1>10, <1>11, <1>12, <1>13, <1>14, <1>15, <1>16, <1>17, <1>18 DEF IInv

\* Shutdown closes everything that is queued or live.
LEMMA ShutdownInv ==
  ASSUME IInv, Shutdown
  PROVE  IInv'
<1> DEFINE C == Queued \cup {r \in live : state[r] \notin Terminal}
<1>1. /\ state' = Put(state, C, "kCancelled")
      /\ closed' = [r \in Ids |-> IF r \in C /\ closed[r] = "open"
                                  THEN "kCancelled" ELSE closed[r]]
      /\ length' = Put(length, live, 0)
      /\ commands' = <<>> /\ live' = {} /\ waiting' = <<>> /\ running' = <<>>
      /\ pc \in {"exited", "new"} /\ pc' = "down"
      /\ UNCHANGED <<nextId, stopRequested, notify, cancels, cancelRequested, passVars,
                     prompt, limit, generated, computed, stream, external, cancelAt>>
  BY DEF Shutdown, Queued
<1>2. UNCHANGED <<decodeList, prefillPass, todo, preLen>>
  BY <1>1 DEF passVars
<1>3. /\ \A r \in live : state[r] \in {"kWaiting", "kPreempted", "kRunning"}
      /\ todo = <<>> /\ Range(todo) = {}
  BY <1>1, BoundaryLive DEF Boundary
<1>4. C = Queued \cup live
  BY <1>3 DEF Terminal
<1> HIDE DEF C
<1>5. Queued \subseteq Ids /\ live \subseteq Ids
  BY QueuedIds DEF IInv, TypeOK
<1>6. At("submit")' = {} /\ Queued' = {}
  BY <1>1, QueueEmptied
<1>7. /\ state' \in [Ids -> SeqState \cup {"none"}]
      /\ \A r \in Ids : state'[r] = IF r \in C THEN "kCancelled" ELSE state[r]
  BY <1>1 DEF Put, IInv, TypeOK, SeqState, Terminal
<1>8. length' \in [Ids -> Nat] /\ \A r \in Ids : length'[r] = 0
  <2>1. /\ length' \in [Ids -> Nat]
        /\ \A r \in Ids : length'[r] = IF r \in live THEN 0 ELSE length[r]
    BY <1>1 DEF Put, IInv, TypeOK
  <2> QED
    BY <2>1 DEF IInv, CacheInv, QueuesPartitionLive
<1>9. /\ closed' \in [Ids -> Terminal \cup {"open"}]
      /\ \A r \in Ids \ C : closed'[r] = closed[r]
      /\ \A r \in Ids \cap C : closed'[r] = "kCancelled"
  BY <1>1, <1>4 DEF IInv, TypeOK, StateInv, QueuedInv, Terminal
<1>10. TypeOK'
  <2>1. <<>> \in Seq(Command) /\ <<>> \in Seq(Ids)
    OBVIOUS
  <2> QED
    BY <1>1, <1>2, <1>7, <1>8, <1>9, <2>1 DEF IInv, TypeOK, Boundary
<1>11. QueuesPartitionLive'
  BY <1>1, EmptyFacts DEF QueuesPartitionLive
<1>12. QueuedInv'
  BY <1>6 DEF QueuedInv
<1>13. StateInv'
  <2>1. \A r \in C : r < nextId
    BY <1>4 DEF IInv, StateInv, QueuedInv
  <2>2. \A r \in Ids : r >= nextId => r \notin C
    BY <2>1 DEF IInv, TypeOK, Ids
  <2>3. \A r \in Ids : r < nextId => state'[r] \in Terminal /\ closed'[r] # "open"
    BY <1>4, <1>7, <1>9 DEF IInv, StateInv, Terminal
  <2> QED
    BY <1>1, <1>6, <1>7, <1>9, <2>2, <2>3 DEF IInv, StateInv, Terminal
<1>14. CacheInv'
  BY <1>8 DEF CacheInv
<1>15. ProgressInv'
  <2>1. \A r \in C : state[r] # "kFailed"
    BY <1>3, <1>4 DEF IInv, QueuedInv
  <2> QED
    BY <1>1, <1>7, <2>1 DEF IInv, ProgressInv
<1>16. StreamsInOrder'
  BY <1>1 DEF IInv, StreamsInOrder
<1>17. PassInv'
  BY <1>1, <1>2, <1>3, EmptyFacts DEF PassInv, Passing
<1>18. AlignInv'
  <2> SUFFICES ASSUME NEW r \in Ids, state'[r] = "kRunning" PROVE FALSE
    BY DEF AlignInv
  <2>1. r \notin C /\ state[r] = "kRunning"
    BY <1>7
  <2>2. r \in Range(running)
    BY <2>1, RunningListed
  <2> QED
    BY <1>4, <2>1, <2>2 DEF IInv, QueuesPartitionLive
<1> QED
  BY <1>10, <1>11, <1>12, <1>13, <1>14, <1>15, <1>16, <1>17, <1>18 DEF IInv

\* RetireTerminal drops and closes what finished or failed in the step.
LEMMA RetireTerminalInv ==
  ASSUME IInv, RetireTerminal
  PROVE  IInv'
<1> DEFINE T == {r \in Range(running) : state[r] \in Terminal}
<1>1. /\ closed' = [r \in Ids |-> IF r \in T /\ closed[r] = "open"
                                  THEN state[r] ELSE closed[r]]
      /\ length' = Put(length, T, 0)
      /\ live' = live \ T /\ running' = Erase(running, T)
      /\ pc = "terminal" /\ pc' = "top"
      /\ UNCHANGED <<clientVars, waiting, cancelRequested, passVars, state, prompt,
                     limit, generated, computed, stream, external, cancelAt>>
  BY DEF RetireTerminal
<1>2. /\ T \subseteq live /\ T \subseteq Range(running) /\ T \cap Range(waiting) = {}
      /\ \A r \in T : state[r] \in Terminal
      /\ \A r \in Range(running) \ T : state[r] = "kRunning"
  BY DEF IInv, QueuesPartitionLive, Terminal
<1> HIDE DEF T
<1>3. UNCHANGED <<nextId, commands, stopRequested, notify, cancels, decodeList,
                  prefillPass, todo, preLen>>
  BY <1>1 DEF clientVars, passVars
<1>4. todo = <<>> /\ Range(todo) = {}
  BY <1>1, EmptyFacts DEF IInv, PassInv, Passing
<1>5. /\ length' \in [Ids -> Nat]
      /\ \A r \in Ids : length'[r] = IF r \in T THEN 0 ELSE length[r]
  BY <1>1 DEF Put, IInv, TypeOK
<1>6. /\ closed' \in [Ids -> Terminal \cup {"open"}]
      /\ \A r \in Ids \ T : closed'[r] = closed[r]
      /\ \A r \in Ids \cap T : closed'[r] # "open"
  BY <1>1, <1>2 DEF IInv, TypeOK, StateInv, Terminal
<1>7. /\ running' \in Seq(Ids) /\ Range(running') = Range(running) \ T
      /\ NoDuplicates(running')
  BY <1>1, EraseFacts DEF IInv, TypeOK, QueuesPartitionLive
<1>8. Queued' = Queued /\ At("submit")' = At("submit") /\ Queued \subseteq Ids
  <2>1. Queued' = Queued /\ At("submit")' = At("submit")
    BY <1>3 DEF Queued, At
  <2> QED
    BY <2>1, QueuedIds DEF IInv, TypeOK
<1>9. TypeOK'
  BY <1>1, <1>3, <1>5, <1>6, <1>7 DEF IInv, TypeOK, Boundary
<1>10. QueuesPartitionLive'
  BY <1>1, <1>2, <1>7 DEF IInv, TypeOK, QueuesPartitionLive
<1>11. QueuedInv'
  BY <1>1, <1>2, <1>3, <1>6, <1>8 DEF IInv, QueuedInv
<1>12. StateInv'
  BY <1>1, <1>2, <1>3, <1>6, <1>8 DEF IInv, TypeOK, StateInv, Terminal, Ids
<1>13. CacheInv'
  BY <1>5, <1>7 DEF IInv, CacheInv
<1>14. ProgressInv' /\ StreamsInOrder'
  BY <1>1 DEF IInv, ProgressInv, StreamsInOrder
<1>15. PassInv'
  BY <1>1, <1>3, <1>4, EmptyFacts DEF PassInv, Passing
<1>16. AlignInv'
  <2>1. \A r \in Ids : state[r] = "kRunning" => r \notin T
    BY <1>2 DEF Terminal
  <2> QED
    BY <1>1, <1>3, <1>4, <1>5, <2>1 DEF IInv, AlignInv, Aligned
<1> QED
  BY <1>9, <1>10, <1>11, <1>12, <1>13, <1>14, <1>15, <1>16 DEF IInv

\* The command queue is not the engine thread's to touch inside a step.
LEMMA QueueKept ==
  ASSUME IInv, UNCHANGED commands
  PROVE  /\ Queued' = Queued /\ Queued \subseteq Ids
         /\ (\A i, j \in At("submit") : commands[i].id = commands[j].id => i = j)'
<1>1. Queued' = Queued
  BY DEF Queued, At
<1>2. (\A i, j \in At("submit") : commands[i].id = commands[j].id => i = j)'
  BY DEF IInv, QueuedInv, At
<1> QED
  BY <1>1, <1>2, QueuedIds DEF IInv, TypeOK

\* ScheduleStep moves its victims to the head of the queue, with nothing cached,
\* and the admitted prefix of the queue to the running list.
LEMMA ScheduleInv ==
  ASSUME IInv, ScheduleStep
  PROVE  IInv'
<1> DEFINE plan == Schedule(waiting, running, PrefillLen, length, FreeBlocks)
           P == plan.preempt
           A == Range(plan.prefill)
           W == Range(waiting)
           R == Range(running)
<1>1. /\ decodeList' = plan.decode /\ todo' = plan.prefill
      /\ waiting' = Erase(Sorted(P) \o waiting, A)
      /\ running' = Erase(running, P) \o plan.prefill
      /\ state' = Put(Put(state, P, "kPreempted"), A, "kRunning")
      /\ length' = Put(length, P, 0) /\ computed' = Put(computed, P, 0)
      /\ prefillPass' = TRUE /\ pc = "schedule" /\ pc' = "forward"
      /\ UNCHANGED <<clientVars, live, cancelRequested, preLen, prompt, limit, generated,
                     chanVars, external, cancelAt>>
  BY DEF ScheduleStep
<1>2. UNCHANGED <<nextId, commands, stopRequested, notify, cancels, stream, closed>>
  BY <1>1 DEF clientVars, chanVars
<1>3. waiting \in Seq(Ids) /\ running \in Seq(Ids) /\ W \subseteq Ids /\ R \subseteq Ids
  BY RangeType DEF IInv, TypeOK
<1>4. /\ P \subseteq R /\ plan.decode \in Seq(Ids)
      /\ NoDuplicates(running) => NoDuplicates(plan.decode)
      /\ \E n \in 0..Len(waiting) : plan.prefill = SubSeq(waiting, 1, n)
  BY <1>3, ScheduleFacts
<1> HIDE DEF plan
<1>5. A \subseteq W /\ plan.prefill \in Seq(Ids) /\ NoDuplicates(plan.prefill)
  BY <1>3, <1>4, PrefixFacts DEF IInv, QueuesPartitionLive
<1>6. /\ \A r \in W : state[r] \in {"kWaiting", "kPreempted"}
      /\ \A r \in R : state[r] = "kRunning"
      /\ W \cap R = {} /\ W \cup R = live /\ NoDuplicates(waiting) /\ NoDuplicates(running)
      /\ Range(todo) = {}
  BY <1>1, BoundaryLive DEF IInv, QueuesPartitionLive, Boundary
<1>7. Sorted(P) \in Seq(Ids) /\ Range(Sorted(P)) = P /\ NoDuplicates(Sorted(P))
  <2>1. IsFiniteSet(Ids) /\ Ids \subseteq Nat
    BY EngineAssumption, FS_Interval DEF Ids
  <2>2. P \in SUBSET Nat /\ IsFiniteSet(P) /\ P \subseteq Ids
    BY <1>3, <1>4, <2>1, FS_Subset
  <2>3. Sorted(P) \in Seq(P) /\ Range(Sorted(P)) = P /\ NoDuplicates(Sorted(P))
    BY <2>2, SortedFacts
  <2> QED
    BY <2>2, <2>3
<1>8. /\ waiting' \in Seq(Ids) /\ Range(waiting') = (P \cup W) \ A
      /\ NoDuplicates(waiting')
  <2> DEFINE q == Sorted(P) \o waiting
  <2>1. q \in Seq(Ids) /\ Range(q) = P \cup W /\ NoDuplicates(q)
    BY <1>3, <1>4, <1>6, <1>7, ConcatFacts
  <2> HIDE DEF q
  <2>2. /\ Erase(q, A) \in Seq(Ids) /\ Range(Erase(q, A)) = Range(q) \ A
        /\ NoDuplicates(Erase(q, A))
    BY <2>1, EraseFacts
  <2> QED
    BY <1>1, <2>1, <2>2 DEF q
<1>9. /\ running' \in Seq(Ids) /\ Range(running') = (R \ P) \cup A
      /\ NoDuplicates(running')
  <2> DEFINE e == Erase(running, P)
  <2>1. e \in Seq(Ids) /\ Range(e) = R \ P /\ NoDuplicates(e)
    BY <1>3, <1>6, EraseFacts
  <2> HIDE DEF e
  <2>2. Range(e) \cap A = {}
    BY <1>5, <1>6, <2>1
  <2> QED
    BY <1>1, <1>5, <2>1, <2>2, ConcatFacts DEF e
<1> HIDE DEF P, A, W, R
<1>10. /\ state' \in [Ids -> SeqState \cup {"none"}]
       /\ \A r \in Ids : state'[r] = IF r \in A THEN "kRunning"
                                     ELSE IF r \in P THEN "kPreempted" ELSE state[r]
  BY <1>1 DEF Put, IInv, TypeOK, SeqState
<1>11. /\ length' \in [Ids -> Nat] /\ computed' \in [Ids -> Nat]
       /\ \A r \in Ids : length'[r] = IF r \in P THEN 0 ELSE length[r]
  BY <1>1 DEF Put, IInv, TypeOK
<1>12. /\ Queued' = Queued /\ Queued \subseteq Ids
       /\ (\A i, j \in At("submit") : commands[i].id = commands[j].id => i = j)'
  BY <1>2, QueueKept
<1>13. TypeOK'
  BY <1>1, <1>2, <1>4, <1>5, <1>8, <1>9, <1>10, <1>11 DEF IInv, TypeOK
<1>14. QueuesPartitionLive'
  <2>1. Range(waiting') \cap Range(running') = {}
    BY <1>4, <1>5, <1>6, <1>8, <1>9
  <2>2. Range(waiting') \cup Range(running') = live'
    BY <1>1, <1>4, <1>5, <1>6, <1>8, <1>9
  <2>3. \A r \in Range(waiting') : state'[r] \in {"kWaiting", "kPreempted"}
    BY <1>3, <1>4, <1>6, <1>8, <1>10
  <2>4. \A r \in Range(running') : state'[r] = "kRunning"
    BY <1>3, <1>4, <1>5, <1>6, <1>9, <1>10
  <2> QED
    BY <1>8, <1>9, <2>1, <2>2, <2>3, <2>4 DEF QueuesPartitionLive
<1>15. QueuedInv'
  <2>1. \A r \in Queued : r \notin A /\ r \notin P
    BY <1>4, <1>5, <1>6 DEF IInv, QueuedInv
  <2> QED
    BY <1>1, <1>2, <1>10, <1>12, <2>1 DEF IInv, QueuedInv
<1>16. StateInv'
  <2>1. \A r \in Ids : r \in A \/ r \in P => r < nextId /\ r \in live
    BY <1>4, <1>5, <1>6 DEF IInv, StateInv
  <2> QED
    BY <1>1, <1>2, <1>10, <1>12, <2>1 DEF IInv, TypeOK, StateInv, Ids
<1>17. CacheInv'
  BY <1>9, <1>11 DEF IInv, CacheInv, R
<1>18. ProgressInv'
  BY <1>1, <1>2, <1>4, <1>5, <1>6, <1>10 DEF IInv, ProgressInv
<1>19. StreamsInOrder'
  BY <1>2 DEF IInv, StreamsInOrder
<1>20. PassInv'
  <2>1. \A r \in Range(todo') : state'[r] = "kRunning"
    BY <1>1, <1>3, <1>5, <1>10 DEF A
  <2> QED
    BY <1>1, <1>4, <1>5, <1>6, <2>1 DEF PassInv, Passing
<1>21. AlignInv'
  <2> SUFFICES ASSUME NEW r \in Ids, state'[r] = "kRunning"
               PROVE  IF r \in A THEN length'[r] = 0 ELSE Aligned(r)'
    BY <1>1 DEF AlignInv, A
  <2>1. CASE r \in A
    BY <1>4, <1>5, <1>6, <1>11, <2>1 DEF IInv, CacheInv, R
  <2>2. CASE r \notin A
    <3>1. state[r] = "kRunning" /\ r \notin P
      BY <1>10, <2>2
    <3>2. Aligned(r)
      BY <1>6, <3>1 DEF IInv, AlignInv
    <3> QED
      BY <1>1, <1>11, <2>2, <3>1, <3>2 DEF Aligned
  <2> QED
    BY <2>1, <2>2
<1> QED
  BY <1>13, <1>14, <1>15, <1>16, <1>17, <1>18, <1>19, <1>20, <1>21 DEF IInv

\* A forward, complete or cut short, only grows the caches of the pass.
LEMMA ForwardInv ==
  ASSUME IInv, ForwardOk \/ (\E k \in 0..Len(todo) : ForwardFails(k))
  PROVE  IInv'
<1>1. /\ pc = "forward"
      /\ preLen' = length
      /\ UNCHANGED <<clientVars, queueVars, decodeList, prefillPass, todo, state, prompt,
                     limit, generated, computed, chanVars, external, cancelAt>>
      /\ \E k \in 0..Len(todo) : length' = Appended(k)
      /\ (pc' = "rows" /\ length' = Appended(Len(todo))) \/ pc' = "recover"
  <2>1. Len(todo) \in 0..Len(todo)
    BY DEF IInv, TypeOK
  <2> QED
    BY <2>1 DEF ForwardOk, ForwardFails
<1>2. UNCHANGED <<nextId, commands, stopRequested, notify, cancels, live, waiting,
                  running, cancelRequested, stream, closed>>
  BY <1>1 DEF clientVars, queueVars, chanVars
<1>3. todo \in Seq(Ids) /\ Range(todo) \subseteq Ids
  BY DEF IInv, TypeOK, Range
<1>4. \A r \in Range(todo) : state[r] = "kRunning" /\ r \in Range(running)
  BY <1>1, <1>3, RunningListed DEF IInv, PassInv
<1>5. /\ length' \in [Ids -> Nat]
      /\ \A r \in Ids \ Range(todo) : length'[r] = length[r]
  <2>1. PICK k \in 0..Len(todo) : length' = Appended(k)
    BY <1>1
  <2> DEFINE S == Range(SubSeq(todo, 1, k))
  <2>2. S \subseteq Range(todo)
    BY <1>3, PrefixFacts
  <2>3. length' = [r \in Ids |-> IF r \in S THEN length[r] + NewTokens(r) ELSE length[r]]
    BY <2>1 DEF Appended
  <2> HIDE DEF S
  <2>4. \A r \in Ids : length[r] \in Nat /\ length[r] + NewTokens(r) \in Nat
    <3> SUFFICES ASSUME NEW r \in Ids
                 PROVE  length[r] \in Nat /\ length[r] + NewTokens(r) \in Nat
      OBVIOUS
    <3>1. length[r] \in Nat /\ prompt[r] \in Nat /\ generated[r] \in Nat
      BY DEF IInv, TypeOK
    <3>2. NewTokens(r) \in Nat
      BY <3>1 DEF NewTokens
    <3> QED
      BY <3>1, <3>2
  <2>5. \A r \in Ids : length'[r] = IF r \in S THEN length[r] + NewTokens(r) ELSE length[r]
    BY <2>3
  <2>6. length' \in [Ids -> Nat]
    BY <2>3, <2>4
  <2> QED
    BY <2>2, <2>5, <2>6
<1>6. pc' = "rows" => \A r \in Range(todo) : length'[r] = length[r] + NewTokens(r)
  <2>1. SubSeq(todo, 1, Len(todo)) = todo
    BY <1>3
  <2> QED
    BY <1>1, <1>3, <2>1 DEF Appended
<1>7. /\ Queued' = Queued /\ Queued \subseteq Ids
      /\ (\A i, j \in At("submit") : commands[i].id = commands[j].id => i = j)'
  BY <1>2, QueueKept
<1>8. TypeOK'
  BY <1>1, <1>2, <1>5 DEF IInv, TypeOK
<1>9. QueuesPartitionLive'
  BY <1>1, <1>2 DEF IInv, QueuesPartitionLive, Boundary
<1>10. QueuedInv' /\ StateInv' /\ ProgressInv' /\ StreamsInOrder'
  BY <1>1, <1>2, <1>7 DEF IInv, QueuedInv, StateInv, ProgressInv, StreamsInOrder
<1>11. CacheInv'
  BY <1>2, <1>4, <1>5 DEF IInv, CacheInv
<1>12. PassInv'
  BY <1>1, <1>4 DEF IInv, PassInv, Passing
<1>13. AlignInv'
  <2> SUFFICES ASSUME NEW r \in Ids, state[r] = "kRunning"
               PROVE  /\ r \notin Range(todo) => Aligned(r)'
                      /\ r \in Range(todo) /\ pc' = "rows" =>
                           length'[r] = prompt[r] + generated[r]
                      /\ r \in Range(todo) /\ pc' = "recover" =>
                           IF prefillPass THEN preLen'[r] = 0
                           ELSE generated[r] >= 1
                                /\ preLen'[r] = prompt[r] + generated[r] - 1
    BY <1>1 DEF AlignInv
  <2>1. r \notin Range(todo) => Aligned(r)'
    BY <1>1, <1>5 DEF IInv, AlignInv, Aligned
  <2>2. r \in Range(todo) => IF prefillPass THEN length[r] = 0 ELSE Aligned(r)
    BY <1>1 DEF IInv, AlignInv
  <2>3. /\ length[r] \in Nat /\ prompt[r] \in Nat /\ generated[r] \in Nat
        /\ prefillPass \in BOOLEAN
    BY DEF IInv, TypeOK
  <2>4. r \in Range(todo) /\ pc' = "rows" => length'[r] = prompt[r] + generated[r]
    BY <1>6, <2>2, <2>3 DEF NewTokens, Aligned
  <2> QED
    BY <1>1, <2>1, <2>2, <2>4 DEF Aligned
<1> QED
  BY <1>8, <1>9, <1>10, <1>11, <1>12, <1>13 DEF IInv

\* A row with its cache at prompt + generated adds the next token in order, or
\* fails its sequence; either way the member has left the pass.
LEMMA DeliverInv ==
  ASSUME IInv, pc \in {"rows", "recover"}, todo # <<>>,
         NEW r, r = Head(todo), state[r] = "kRunning",
         NEW len, len = prompt[r] + generated[r],
         length' = [length EXCEPT ![r] = len],
         DeliverSampled(r, len) \/ FailRow(r),
         todo' = Tail(todo),
         UNCHANGED <<clientVars, pc, queueVars, decodeList, prefillPass, preLen, prompt,
                     limit, closed, external, cancelAt>>
  PROVE  IInv'
<1>1. UNCHANGED <<nextId, commands, stopRequested, notify, cancels, pc, live, waiting,
                  running, cancelRequested, decodeList, prefillPass, preLen, prompt,
                  limit, closed, external, cancelAt>>
  BY DEF clientVars, queueVars
<1>2. /\ r \in Ids /\ r \in Range(todo)
      /\ todo' \in Seq(Ids) /\ NoDuplicates(todo')
      /\ Range(todo') = Range(todo) \ {r}
  BY TailFacts DEF IInv, TypeOK, PassInv
<1>3. r \in Range(running)
  BY <1>2, RunningListed
<1>4. /\ prompt[r] \in Nat /\ generated[r] \in Nat /\ limit[r] \in Nat
      /\ generated[r] < limit[r]
      /\ stream[r] \in Seq(Int) /\ Len(stream[r]) = generated[r]
      /\ stream[r] = [i \in 1..generated[r] |-> i]
      /\ len \in Nat
  <2>1. prompt[r] \in Nat /\ generated[r] \in Nat /\ limit[r] \in Nat /\ stream[r] \in Seq(Int)
    BY <1>2 DEF IInv, TypeOK
  <2>2. generated[r] < limit[r] /\ Len(stream[r]) = generated[r]
    BY <1>2 DEF IInv, ProgressInv
  <2>3. stream[r] = [i \in 1..Len(stream[r]) |-> i]
    BY <1>2 DEF IInv, StreamsInOrder
  <2> QED
    BY <2>1, <2>2, <2>3
<1>5. \/ /\ generated' = generated /\ computed' = computed /\ stream' = stream
         /\ state' = [state EXCEPT ![r] = "kFailed"]
      \/ /\ generated' = [generated EXCEPT ![r] = @ + 1]
         /\ computed' = [computed EXCEPT ![r] = @ + 1]
         /\ stream' = stream
         /\ state' = [state EXCEPT ![r] = "kFailed"]
      \/ /\ generated' = [generated EXCEPT ![r] = @ + 1]
         /\ computed' = [computed EXCEPT ![r] = @ + 1]
         /\ stream' = [stream EXCEPT ![r] = Append(@, generated[r] + 1)]
         /\ \/ state' = [state EXCEPT ![r] = "kFinished"]
            \/ state' = state /\ generated[r] + 1 < limit[r]
  <2>1. len - prompt[r] + 1 = generated[r] + 1
    BY <1>4
  <2> QED
    BY <2>1 DEF DeliverSampled, FailRow
<1>6. /\ \A q \in Ids \ {r} : /\ generated'[q] = generated[q] /\ stream'[q] = stream[q]
                              /\ state'[q] = state[q] /\ length'[q] = length[q]
      /\ length'[r] = len
      /\ generated' \in [Ids -> Nat] /\ computed' \in [Ids -> Nat]
      /\ length' \in [Ids -> Nat] /\ state' \in [Ids -> SeqState \cup {"none"}]
  <2>1. /\ generated \in [Ids -> Nat] /\ computed \in [Ids -> Nat]
        /\ length \in [Ids -> Nat] /\ state \in [Ids -> SeqState \cup {"none"}]
        /\ stream \in [Ids -> Seq(Int)]
    BY DEF IInv, TypeOK
  <2>2. /\ length' \in [Ids -> Nat] /\ length'[r] = len
        /\ \A q \in Ids \ {r} : length'[q] = length[q]
    BY <1>2, <1>4, <2>1
  <2>3. /\ generated' \in [Ids -> Nat] /\ computed' \in [Ids -> Nat]
        /\ \A q \in Ids \ {r} : generated'[q] = generated[q]
    <3>1. CASE generated' = generated /\ computed' = computed
      BY <2>1, <3>1
    <3>2. CASE /\ generated' = [generated EXCEPT ![r] = @ + 1]
               /\ computed' = [computed EXCEPT ![r] = @ + 1]
      BY <1>2, <2>1, <3>2, SMTT(30)
    <3> QED
      BY <1>5, <3>1, <3>2
  <2>4. /\ state' \in [Ids -> SeqState \cup {"none"}]
        /\ \A q \in Ids \ {r} : state'[q] = state[q]
    BY <1>2, <1>5, <2>1 DEF SeqState, Terminal
  <2>5. \A q \in Ids \ {r} : stream'[q] = stream[q]
    BY <1>2, <1>5, <2>1
  <2> QED
    BY <2>2, <2>3, <2>4, <2>5
<1>7. \/ /\ state'[r] = "kFailed" /\ stream'[r] = stream[r]
      \/ /\ generated'[r] = generated[r] + 1
         /\ stream'[r] = Append(stream[r], generated[r] + 1)
         /\ \/ state'[r] = "kFinished"
            \/ state'[r] = "kRunning" /\ generated[r] + 1 < limit[r]
  BY <1>2, <1>5 DEF IInv, TypeOK
<1>8. stream' \in [Ids -> Seq(Int)]
  <2>1. Append(stream[r], generated[r] + 1) \in Seq(Int)
    BY <1>4
  <2> QED
    BY <1>2, <1>5, <2>1 DEF IInv, TypeOK
<1>9. /\ Queued' = Queued /\ Queued \subseteq Ids
      /\ (\A i, j \in At("submit") : commands[i].id = commands[j].id => i = j)'
  BY <1>1, QueueKept
<1>10. r \in live /\ r \notin Queued /\ r \notin Range(waiting) /\ r < nextId
  BY <1>3 DEF IInv, QueuesPartitionLive, QueuedInv, StateInv
<1>11. TypeOK'
  BY <1>1, <1>2, <1>6, <1>8 DEF IInv, TypeOK
<1>12. QueuesPartitionLive'
  <2>1. pc \notin Boundary
    BY DEF Boundary
  <2>2. Range(waiting) \subseteq Ids /\ Range(running) \subseteq Ids
    BY RangeType DEF IInv, TypeOK
  <2>3. \A q \in Range(waiting) : state'[q] = state[q]
    BY <1>6, <1>10, <2>2
  <2>4. \A q \in Range(running) : q = r \/ state'[q] = state[q]
    BY <1>6, <2>2
  <2> QED
    BY <1>1, <1>7, <2>1, <2>3, <2>4 DEF IInv, QueuesPartitionLive
<1>13. QueuedInv'
  <2>1. \A q \in Queued : state'[q] = state[q]
    BY <1>6, <1>9, <1>10
  <2> QED
    BY <1>1, <1>9, <2>1 DEF IInv, QueuedInv
<1>14. StateInv'
  <2>1. \A q \in Ids : q >= nextId \/ q \notin live => state'[q] = state[q]
    BY <1>2, <1>6, <1>10 DEF IInv, TypeOK, Ids
  <2>2. \A q \in Ids : q < nextId => state'[q] # "none"
    BY <1>6, <1>7, ZenonT(60) DEF IInv, StateInv
  <2> QED
    BY <1>1, <1>9, <2>1, <2>2 DEF IInv, StateInv
<1>15. CacheInv'
  BY <1>1, <1>3, <1>6 DEF IInv, CacheInv
<1>16. ProgressInv'
  <2> SUFFICES ASSUME NEW q \in Ids
               PROVE  /\ state'[q] \in {"none", "kWaiting"} => generated'[q] = 0
                      /\ state'[q] \in {"kWaiting", "kPreempted", "kRunning"} =>
                           prompt[q] > 0 /\ generated'[q] < limit[q]
                      /\ state'[q] # "kFailed" => Len(stream'[q]) = generated'[q]
    BY <1>1 DEF ProgressInv
  <2>1. CASE q # r
    BY <1>6, <2>1 DEF IInv, ProgressInv
  <2>2. CASE q = r
    <3>1. Len(Append(stream[r], generated[r] + 1)) = generated[r] + 1
      BY <1>4
    <3>2. prompt[r] > 0
      BY <1>2 DEF IInv, ProgressInv
    <3> QED
      BY <1>7, <2>2, <3>1, <3>2
  <2> QED
    BY <2>1, <2>2
<1>17. StreamsInOrder'
  <2> SUFFICES ASSUME NEW q \in Ids
               PROVE  stream'[q] = [i \in 1..Len(stream'[q]) |-> i]
    BY DEF StreamsInOrder
  <2>1. CASE q # r \/ stream'[q] = stream[q]
    BY <1>6, <2>1 DEF IInv, StreamsInOrder
  <2>2. CASE q = r /\ stream'[r] = Append(stream[r], generated[r] + 1)
    <3> DEFINE t == Append(stream[r], generated[r] + 1)
    <3>1. /\ t \in Seq(Int) /\ Len(t) = generated[r] + 1
          /\ \A i \in 1..(generated[r] + 1) : t[i] = i
      BY <1>4
    <3> HIDE DEF t
    <3>2. t = [i \in 1..Len(t) |-> i]
      BY <1>4, <3>1
    <3> QED
      BY <2>2, <3>2 DEF t
  <2> QED
    BY <1>7, <2>1, <2>2
<1>18. PassInv'
  <2>1. \A q \in Range(todo') : q \in Range(todo) /\ state'[q] = state[q]
    BY <1>2, <1>6, RangeType
  <2> QED
    BY <1>1, <1>2, <2>1 DEF IInv, PassInv, Passing
<1>19. AlignInv'
  <2> SUFFICES ASSUME NEW q \in Ids, state'[q] = "kRunning"
               PROVE  /\ q \notin Range(todo') => Aligned(q)'
                      /\ q \in Range(todo') /\ pc = "rows" =>
                           length'[q] = prompt[q] + generated'[q]
                      /\ q \in Range(todo') /\ pc = "recover" =>
                           IF prefillPass THEN preLen[q] = 0
                           ELSE generated'[q] >= 1
                                /\ preLen[q] = prompt[q] + generated'[q] - 1
    BY <1>1 DEF AlignInv
  <2>1. CASE q = r
    <3>1. generated'[r] = generated[r] + 1 /\ r \notin Range(todo')
      BY <1>2, <1>7, <2>1
    <3> QED
      BY <1>1, <1>4, <1>6, <2>1, <3>1 DEF Aligned
  <2>2. CASE q # r
    BY <1>1, <1>2, <1>6, <2>2, ZenonT(60) DEF IInv, AlignInv, Aligned
  <2> QED
    BY <2>1, <2>2
<1> QED
  BY <1>11, <1>12, <1>13, <1>14, <1>15, <1>16, <1>17, <1>18, <1>19 DEF IInv

\* A row of the batched result, and a member re-run alone, deliver as above.
LEMMA RowInv ==
  ASSUME IInv, DeliverRow \/ RecoverOk
  PROVE  IInv'
<1> DEFINE r == Head(todo)
<1>1. todo # <<>> /\ todo' = Tail(todo)
  BY DEF DeliverRow, RecoverOk
<1>2. r \in Ids /\ r \in Range(todo)
  BY <1>1, TailFacts DEF IInv, TypeOK
<1>3. length \in [Ids -> Nat]
  BY DEF IInv, TypeOK
<1>4. CASE DeliverRow
  <2>1. state[r] = "kRunning" /\ length[r] = prompt[r] + generated[r]
    BY <1>2, <1>4 DEF DeliverRow, IInv, PassInv, AlignInv
  <2>2. length' = [length EXCEPT ![r] = length[r]]
    BY <1>2, <1>3, <1>4 DEF DeliverRow
  <2> QED
    BY <1>1, <1>4, <2>1, <2>2, DeliverInv DEF DeliverRow
<1>5. CASE RecoverOk
  <2> DEFINE len == preLen[r] + NewTokens(r)
  <2>1. state[r] = "kRunning" /\ pc = "recover" /\ length' = [length EXCEPT ![r] = len]
    BY <1>5 DEF RecoverOk
  <2>2. len = prompt[r] + generated[r]
    <3>1. /\ preLen[r] \in Nat /\ prompt[r] \in Nat /\ generated[r] \in Nat
          /\ prefillPass \in BOOLEAN
      BY <1>2 DEF IInv, TypeOK
    <3>2. IF prefillPass THEN preLen[r] = 0
          ELSE preLen[r] = prompt[r] + generated[r] - 1
      BY <1>2, <2>1 DEF IInv, AlignInv
    <3> QED
      BY <3>1, <3>2 DEF NewTokens
  <2> QED
    BY <1>1, <1>5, <2>1, <2>2, DeliverInv DEF RecoverOk
<1> QED
  BY <1>4, <1>5

\* Recovery skips a member that was evicted meanwhile.
LEMMA RecoverSkipInv ==
  ASSUME IInv, RecoverSkip
  PROVE  IInv'
<1>1. /\ pc = "recover" /\ todo # <<>> /\ state[Head(todo)] # "kRunning"
      /\ todo' = Tail(todo)
      /\ UNCHANGED <<nextId, commands, stopRequested, notify, cancels, pc, live, waiting,
                     running, cancelRequested, decodeList, prefillPass, preLen, state,
                     prompt, limit, generated, length, computed, stream, closed,
                     external, cancelAt>>
  BY DEF RecoverSkip, clientVars, queueVars, seqVars, chanVars
<1>2. /\ todo' \in Seq(Ids) /\ NoDuplicates(todo')
      /\ Range(todo') = Range(todo) \ {Head(todo)}
  BY <1>1, TailFacts DEF IInv, TypeOK, PassInv
<1>3. /\ Queued' = Queued
      /\ (\A i, j \in At("submit") : commands[i].id = commands[j].id => i = j)'
  BY <1>1, QueueKept
<1>4. TypeOK' /\ QueuesPartitionLive'
  BY <1>1, <1>2 DEF IInv, TypeOK, QueuesPartitionLive
<1>5. QueuedInv' /\ StateInv' /\ CacheInv' /\ ProgressInv' /\ StreamsInOrder'
  BY <1>1, <1>3 DEF IInv, QueuedInv, StateInv, CacheInv, ProgressInv, StreamsInOrder
<1>6. PassInv'
  BY <1>1, <1>2 DEF IInv, PassInv, Passing
<1>7. AlignInv'
  BY <1>1, <1>2 DEF IInv, AlignInv, Aligned
<1> QED
  BY <1>4, <1>5, <1>6, <1>7 DEF IInv

\* A member that fails alone is marked and leaves the pass.
LEMMA RecoverFailInv ==
  ASSUME IInv, RecoverFail
  PROVE  IInv'
<1> DEFINE r == Head(todo)
<1>1. /\ pc = "recover" /\ todo # <<>> /\ state[r] = "kRunning"
      /\ todo' = Tail(todo)
      /\ state' = [state EXCEPT ![r] = "kFailed"]
      /\ \/ length' = [length EXCEPT ![r] = preLen[r]]
         \/ length' = [length EXCEPT ![r] = preLen[r] + NewTokens(r)]
      /\ UNCHANGED <<nextId, commands, stopRequested, notify, cancels, pc, live, waiting,
                     running, cancelRequested, decodeList, prefillPass, preLen, prompt,
                     limit, generated, computed, stream, closed, external, cancelAt>>
  BY DEF RecoverFail, clientVars, queueVars, chanVars
<1>2. /\ r \in Ids /\ todo' \in Seq(Ids) /\ NoDuplicates(todo')
      /\ Range(todo') = Range(todo) \ {r}
  BY <1>1, TailFacts DEF IInv, TypeOK, PassInv
<1>3. r \in Range(running)
  BY <1>1, <1>2, RunningListed
<1> HIDE DEF r
<1>4. /\ length' \in [Ids -> Nat]
      /\ \A q \in Ids \ {r} : length'[q] = length[q]
  <2>1. preLen[r] \in Nat /\ prompt[r] \in Nat /\ generated[r] \in Nat
    BY <1>2 DEF IInv, TypeOK
  <2>2. NewTokens(r) \in Nat
    BY <2>1 DEF NewTokens
  <2>3. preLen[r] + NewTokens(r) \in Nat
    BY <2>1, <2>2
  <2>4. length \in [Ids -> Nat]
    BY DEF IInv, TypeOK
  <2> QED
    BY <1>1, <1>2, <2>1, <2>3, <2>4
<1>5. /\ state' \in [Ids -> SeqState \cup {"none"}] /\ state'[r] = "kFailed"
      /\ \A q \in Ids \ {r} : state'[q] = state[q]
  BY <1>1, <1>2 DEF IInv, TypeOK, SeqState, Terminal
<1>6. /\ Queued' = Queued /\ Queued \subseteq Ids
      /\ (\A i, j \in At("submit") : commands[i].id = commands[j].id => i = j)'
  BY <1>1, QueueKept
<1>7. r \in live /\ r \notin Queued /\ r \notin Range(waiting) /\ r < nextId
  BY <1>3 DEF IInv, QueuesPartitionLive, QueuedInv, StateInv
<1>8. TypeOK'
  BY <1>1, <1>2, <1>4, <1>5 DEF IInv, TypeOK
<1>9. QueuesPartitionLive'
  <2>1. Range(waiting) \subseteq Ids /\ Range(running) \subseteq Ids
    BY RangeType DEF IInv, TypeOK
  <2>2. \A q \in Range(waiting) : state'[q] = state[q]
    BY <1>5, <1>7, <2>1
  <2>3. \A q \in Range(running) : state'[q] = "kFailed" \/ state'[q] = state[q]
    BY <1>5, <2>1
  <2> QED
    BY <1>1, <2>2, <2>3 DEF IInv, QueuesPartitionLive, Boundary
<1>10. QueuedInv'
  <2>1. \A q \in Queued : state'[q] = state[q]
    BY <1>5, <1>6, <1>7
  <2> QED
    BY <1>1, <1>6, <2>1 DEF IInv, QueuedInv
<1>11. StateInv'
  <2>1. \A q \in Ids : q >= nextId \/ q \notin live => state'[q] = state[q]
    BY <1>2, <1>5, <1>7 DEF IInv, TypeOK, Ids
  <2>2. \A q \in Ids : q < nextId => state'[q] # "none"
    BY <1>5 DEF IInv, StateInv
  <2> QED
    BY <1>1, <1>6, <2>1, <2>2 DEF IInv, StateInv
<1>12. CacheInv'
  BY <1>1, <1>3, <1>4 DEF IInv, CacheInv
<1>13. ProgressInv' /\ StreamsInOrder'
  BY <1>1, <1>5 DEF IInv, ProgressInv, StreamsInOrder
<1>14. PassInv'
  BY <1>1, <1>2 DEF IInv, PassInv, Passing
<1>15. AlignInv'
  BY <1>1, <1>2, <1>4, <1>5 DEF IInv, AlignInv, Aligned
<1> QED
  BY <1>8, <1>9, <1>10, <1>11, <1>12, <1>13, <1>14, <1>15 DEF IInv

\* The victim is one of the other running sequences, and no other is younger.
LEMMA VictimFacts ==
  ASSUME IInv, NEW r, Victims(r) # {}
  PROVE  /\ PickPreemptionVictim(r) \in Victims(r)
         /\ \A w \in Victims(r) : w <= PickPreemptionVictim(r)
<1>1. Victims(r) \subseteq Ids
  BY RangeType DEF Victims, IInv, TypeOK
<1>2. Victims(r) \in SUBSET Nat /\ IsFiniteSet(Victims(r))
  <2>1. IsFiniteSet(Ids) /\ Ids \subseteq Nat
    BY EngineAssumption, FS_Interval DEF Ids
  <2> QED
    BY <1>1, <2>1, FS_Subset
<1>3. \E v \in Victims(r) : \A w \in Victims(r) : w <= v
  BY <1>2, GreatestExists
<1> QED
  BY <1>3 DEF PickPreemptionVictim

\* RecoverEvict moves one running sequence to the head of the queue.
LEMMA RecoverEvictInv ==
  ASSUME IInv, RecoverEvict
  PROVE  IInv'
<1> DEFINE r == Head(todo)
           v == PickPreemptionVictim(r)
<1>1. /\ pc = "recover" /\ todo # <<>> /\ ~prefillPass /\ state[r] = "kRunning"
      /\ Victims(r) # {}
      /\ state' = [state EXCEPT ![v] = "kPreempted"]
      /\ length' = [length EXCEPT ![r] = preLen[r], ![v] = 0]
      /\ computed' = [computed EXCEPT ![v] = 0]
      /\ running' = Erase(running, {v}) /\ waiting' = <<v>> \o waiting
      /\ UNCHANGED <<nextId, commands, stopRequested, notify, cancels, pc, live,
                     cancelRequested, decodeList, prefillPass, todo, preLen, prompt,
                     limit, generated, stream, closed, external, cancelAt>>
  BY DEF RecoverEvict, clientVars, passVars, chanVars
<1>2. v \in Range(running) /\ v # r /\ state[v] = "kRunning"
  BY <1>1, VictimFacts DEF Victims
<1>3. r \in Ids /\ r \in Range(todo) /\ r \in Range(running)
  <2>1. r \in Ids /\ r \in Range(todo)
    BY <1>1, TailFacts DEF IInv, TypeOK
  <2> QED
    BY <1>1, <2>1, RunningListed
<1> HIDE DEF r, v
<1>4. v \in Ids
  BY <1>2, RangeType DEF IInv, TypeOK
<1>5. /\ length' \in [Ids -> Nat] /\ length'[v] = 0
      /\ \A q \in Ids \ {r, v} : length'[q] = length[q]
  <2>1. preLen[r] \in Nat /\ length \in [Ids -> Nat]
    BY <1>3 DEF IInv, TypeOK
  <2> QED
    BY <1>1, <1>3, <1>4, <2>1
<1>6. /\ state' \in [Ids -> SeqState \cup {"none"}] /\ state'[v] = "kPreempted"
      /\ \A q \in Ids \ {v} : state'[q] = state[q]
  BY <1>1, <1>4 DEF IInv, TypeOK, SeqState
<1>7. computed' \in [Ids -> Nat]
  BY <1>1, <1>4 DEF IInv, TypeOK
<1>8. /\ running' \in Seq(Ids) /\ Range(running') = Range(running) \ {v}
      /\ NoDuplicates(running')
  <2> DEFINE V == {v}
  <2>1. running \in Seq(Ids) /\ NoDuplicates(running) /\ running' = Erase(running, V)
    BY <1>1 DEF IInv, TypeOK, QueuesPartitionLive
  <2> HIDE DEF V
  <2>2. /\ running' \in Seq(Ids) /\ Range(running') = Range(running) \ V
        /\ NoDuplicates(running')
    BY <2>1, EraseFacts
  <2> QED
    BY <2>2 DEF V
<1>9. /\ waiting' \in Seq(Ids) /\ Range(waiting') = {v} \cup Range(waiting)
      /\ NoDuplicates(waiting')
  <2>1. <<v>> \in Seq(Ids) /\ Range(<<v>>) = {v} /\ NoDuplicates(<<v>>)
    BY <1>4, SingletonFacts
  <2>2. {v} \cap Range(waiting) = {}
    BY <1>2 DEF IInv, QueuesPartitionLive
  <2>3. waiting \in Seq(Ids) /\ NoDuplicates(waiting)
    BY DEF IInv, TypeOK, QueuesPartitionLive
  <2> DEFINE s == <<v>>
  <2>4. s \in Seq(Ids) /\ Range(s) = {v} /\ NoDuplicates(s) /\ waiting' = s \o waiting
    BY <1>1, <2>1
  <2> HIDE DEF s
  <2> QED
    BY <2>2, <2>3, <2>4, ConcatFacts
<1>10. /\ Queued' = Queued /\ Queued \subseteq Ids
       /\ (\A i, j \in At("submit") : commands[i].id = commands[j].id => i = j)'
  BY <1>1, QueueKept
<1>11. v \in live /\ v \notin Queued /\ v < nextId
  BY <1>2 DEF IInv, QueuesPartitionLive, QueuedInv, StateInv
<1>12. TypeOK'
  BY <1>1, <1>5, <1>6, <1>7, <1>8, <1>9 DEF IInv, TypeOK
<1>13. QueuesPartitionLive'
  <2>1. Range(waiting) \subseteq Ids /\ Range(running) \subseteq Ids
    BY RangeType DEF IInv, TypeOK
  <2>2. \A q \in Range(waiting') : q = v \/ (q \in Range(waiting) /\ state'[q] = state[q])
    BY <1>6, <1>9, <2>1
  <2>3. \A q \in Range(running') : q \in Range(running) /\ state'[q] = state[q]
    BY <1>6, <1>8, <2>1
  <2>4. /\ Range(waiting') \cap Range(running') = {}
        /\ Range(waiting') \cup Range(running') = live'
    BY <1>1, <1>2, <1>8, <1>9 DEF IInv, QueuesPartitionLive
  <2> QED
    BY <1>1, <1>6, <1>8, <1>9, <2>2, <2>3, <2>4 DEF IInv, QueuesPartitionLive
<1>14. QueuedInv'
  <2>1. \A q \in Queued : state'[q] = state[q]
    BY <1>6, <1>10, <1>11
  <2> QED
    BY <1>1, <1>10, <2>1 DEF IInv, QueuedInv
<1>15. StateInv'
  <2>1. \A q \in Ids : q >= nextId \/ q \notin live => state'[q] = state[q]
    BY <1>4, <1>6, <1>11 DEF IInv, TypeOK, Ids
  <2>2. \A q \in Ids : q < nextId => state'[q] # "none"
    BY <1>6 DEF IInv, StateInv
  <2> QED
    BY <1>1, <1>10, <2>1, <2>2 DEF IInv, StateInv
<1>16. CacheInv'
  BY <1>2, <1>3, <1>5, <1>8 DEF IInv, CacheInv
<1>17. ProgressInv'
  BY <1>1, <1>2, <1>4, <1>6 DEF IInv, ProgressInv
<1>18. StreamsInOrder'
  BY <1>1 DEF IInv, StreamsInOrder
<1>19. PassInv'
  BY <1>1 DEF IInv, PassInv, Passing
<1>20. AlignInv'
  BY <1>1, <1>3, <1>5, <1>6 DEF IInv, AlignInv, Aligned
<1> QED
  BY <1>12, <1>13, <1>14, <1>15, <1>16, <1>17, <1>18, <1>19, <1>20 DEF IInv

\* The two ends of a pass: every running sequence is aligned again.
LEMMA PassEndInv ==
  ASSUME IInv, BeginDecode \/ EndPasses
  PROVE  IInv'
<1>1. /\ pc \in Passing /\ todo = <<>>
      /\ UNCHANGED <<nextId, commands, stopRequested, notify, cancels, live, waiting,
                     running, cancelRequested, decodeList, preLen, state, prompt, limit,
                     generated, length, computed, stream, closed, external, cancelAt>>
  BY DEF BeginDecode, EndPasses, Passing, clientVars, queueVars, passVars, seqVars,
         chanVars
<1>2. \/ /\ pc' = "forward" /\ prefillPass /\ prefillPass' = FALSE
         /\ todo' = Filter(decodeList, {r \in Ids : state[r] = "kRunning"})
      \/ pc' = "terminal" /\ prefillPass' = prefillPass /\ todo' = <<>>
  BY DEF BeginDecode, EndPasses, passVars
<1>3. /\ todo' \in Seq(Ids)
      /\ NoDuplicates(todo')
      /\ \A r \in Range(todo') : r \in Ids /\ state[r] = "kRunning"
  <2>1. CASE todo' = <<>>
    <3>1. <<>> \in Seq(Ids)
      OBVIOUS
    <3> QED
      BY <2>1, <3>1, EmptyFacts
  <2>2. CASE /\ prefillPass
             /\ todo' = Filter(decodeList, {r \in Ids : state[r] = "kRunning"})
    BY <1>1, <2>2, FilterFacts DEF IInv, TypeOK, PassInv
  <2> QED
    BY <1>2, <2>1, <2>2
<1>4. /\ Queued' = Queued
      /\ (\A i, j \in At("submit") : commands[i].id = commands[j].id => i = j)'
  BY <1>1, QueueKept
<1>5. prefillPass' \in BOOLEAN
  BY <1>2 DEF IInv, TypeOK
<1>6. TypeOK'
  BY <1>1, <1>2, <1>3, <1>5 DEF IInv, TypeOK
<1>7. QueuesPartitionLive'
  <2>1. pc \notin Boundary /\ pc' \notin Boundary
    BY <1>1, <1>2 DEF Passing, Boundary
  <2> QED
    BY <1>1, <2>1 DEF IInv, QueuesPartitionLive
<1>8. QueuedInv' /\ StateInv' /\ CacheInv' /\ ProgressInv' /\ StreamsInOrder'
  BY <1>1, <1>4 DEF IInv, QueuedInv, StateInv, CacheInv, ProgressInv, StreamsInOrder
<1>9. PassInv'
  BY <1>1, <1>2, <1>3 DEF PassInv, Passing
<1>10. AlignInv'
  <2>1. \A r \in Ids : state[r] = "kRunning" => Aligned(r)
    BY <1>1, EmptyFacts DEF IInv, AlignInv
  <2>2. \A r \in Ids : Aligned(r)' <=> Aligned(r)
    BY <1>1 DEF Aligned
  <2> QED
    BY <1>1, <1>2, <2>1, <2>2 DEF AlignInv
<1> QED
  BY <1>6, <1>7, <1>8, <1>9, <1>10 DEF IInv

----------------------------------------------------------------------------
(* The theorems. *)

\* Every step of the runtime keeps the inductive invariant.
THEOREM StepInv == IInv /\ [Next]_vars => IInv'
<1> SUFFICES ASSUME IInv, [Next]_vars PROVE IInv'
  OBVIOUS
<1>1. CASE \E p \in PromptLens, m \in TokenLimits : Submit(p, m)
  BY <1>1, SubmitInv
<1>2. CASE \E r \in Ids : Cancel(r)
  BY <1>2, CancelInv
<1>3. CASE Shutdown
  BY <1>3, ShutdownInv
<1>4. CASE \/ Stop \/ NotifyEngine \/ Start \/ ExternalTake \/ ExternalGive
           \/ CheckStop \/ IdleWait \/ UNCHANGED vars
  BY <1>4, QuietInv
<1>5. CASE DrainCommands
  BY <1>5, DrainInv
<1>6. CASE RetireCancelled
  BY <1>6, RetireCancelledInv
<1>7. CASE ScheduleStep
  BY <1>7, ScheduleInv
<1>8. CASE ForwardOk \/ (\E k \in 0..Len(todo) : ForwardFails(k))
  BY <1>8, ForwardInv
<1>9. CASE DeliverRow \/ RecoverOk
  BY <1>9, RowInv
<1>10. CASE RecoverSkip
  BY <1>10, RecoverSkipInv
<1>11. CASE RecoverFail
  BY <1>11, RecoverFailInv
<1>12. CASE RecoverEvict
  BY <1>12, RecoverEvictInv
<1>13. CASE BeginDecode \/ EndPasses
  BY <1>13, PassEndInv
<1>14. CASE RetireTerminal
  BY <1>14, RetireTerminalInv
<1> QED
  BY <1>1, <1>2, <1>3, <1>4, <1>5, <1>6, <1>7, <1>8, <1>9, <1>10, <1>11, <1>12, <1>13,
     <1>14 DEF Next, EngineThread, Terminated

\* The inductive invariant holds in every reachable state.
THEOREM Invariance == Spec => []IInv
BY InitIInv, StepInv, PTL DEF Spec

\* Every variable keeps its type.
THEOREM TypeCorrect == Spec => []TypeOK
<1>1. IInv => TypeOK
  BY DEF IInv
<1> QED
  BY <1>1, Invariance, PTL

\* requests_, waiting_ and running_ always agree.
THEOREM QueuesAgree == Spec => []QueuesPartitionLive
<1>1. IInv => QueuesPartitionLive
  BY DEF IInv
<1> QED
  BY <1>1, Invariance, PTL

\* Preempted, rolled back or re-run, a request's tokens arrive in order, each
\* once and none missing.
THEOREM TokensInOrder == Spec => []StreamsInOrder
<1>1. IInv => StreamsInOrder
  BY DEF IInv
<1> QED
  BY <1>1, Invariance, PTL

\* Between steps every running sequence's cache holds its prompt and all it
\* generated except the last token.
THEOREM CachesAligned == Spec => []KvAligned
<1>1. IInv => KvAligned
  <2> SUFFICES ASSUME IInv, pc \in Boundary, NEW r \in Range(running)
               PROVE  /\ generated[r] \in 1..(limit[r] - 1)
                      /\ length[r] = prompt[r] + generated[r] - 1
    BY DEF KvAligned
  <2>1. r \in Ids
    BY RangeType DEF IInv, TypeOK
  <2>2. state[r] = "kRunning" /\ r \notin Range(todo)
    BY BoundaryLive
  <2>3. Aligned(r)
    BY <2>1, <2>2 DEF IInv, AlignInv
  <2>4. generated[r] < limit[r] /\ generated[r] \in Nat /\ limit[r] \in Nat
    BY <2>1, <2>2 DEF IInv, ProgressInv, TypeOK
  <2> QED
    BY <2>3, <2>4 DEF Aligned
<1> QED
  BY <1>1, Invariance, PTL

\* No client waits on a channel that nobody will close.
THEOREM NoOrphanChannel == Spec => []OpenChannelsOwned
<1>1. IInv => OpenChannelsOwned
  <2> SUFFICES ASSUME IInv, NEW r \in Ids
               PROVE  /\ r < nextId /\ closed[r] = "open" =>
                           r \in live \/ \E i \in At("submit") : commands[i].id = r
                      /\ r \in live => closed[r] = "open"
    BY DEF OpenChannelsOwned
  <2>1. r < nextId /\ closed[r] = "open" => r \in live \/ r \in Queued
    BY DEF IInv, StateInv
  <2> QED
    BY <2>1 DEF IInv, StateInv, Queued
<1> QED
  BY <1>1, Invariance, PTL

\* Nothing off the running list holds a block, so none leaks on preemption,
\* cancellation, failure or shutdown.
THEOREM NoBlockLeak == Spec => []BlocksOnlyWhileRunning
<1>1. IInv => BlocksOnlyWhileRunning
  BY DEF IInv, CacheInv, BlocksOnlyWhileRunning
<1> QED
  BY <1>1, Invariance, PTL
----------------------------------------------------------------------------
(* Blocks.  With no other user of the pool (MaxExternal = 0) what a step was *)
(* granted stays free until the step has taken it.  The invariant compares,  *)
(* not what is needed with what is free, but the pool with the lengths the   *)
(* caches will have when the step is over: a forward, a row, a rollback and  *)
(* a retry move a cache towards its target and never move the target up, so  *)
(* only the scheduling decision itself has to be accounted for.              *)

\* An accepted request fits the token budget and, alone, the pool.
FitInv ==
  \A r \in Ids : r < nextId =>
    /\ limit[r] > 0
    /\ Peak(prompt[r], limit[r]) <= MaxBatchedTokens
    /\ Peak(prompt[r], limit[r]) <= NumBlocks * BlockSize

\* No member of the prefill pass is also due to decode.
DecodeInv ==
  pc \in Passing /\ prefillPass => Range(decodeList) \cap Range(todo) = {}

\* A failed forward left no cache longer than a complete one would have.
RetryInv ==
  pc = "recover" =>
    \A r \in Range(todo) : r < nextId /\ length[r] <= preLen[r] + NewTokens(r)

\* Where each cache will stand after the passes, if all its member's forwards
\* succeed.
Target ==
  [r \in Ids |->
     IF r \in Range(todo)
     THEN IF pc = "rows" THEN length[r]
          ELSE (IF pc = "recover" THEN preLen[r] ELSE length[r]) + NewTokens(r)
     ELSE IF prefillPass /\ r \in Range(decodeList) THEN length[r] + 1
     ELSE length[r]]

AccountInv == pc \in Passing => BlocksHeld(Ids, Target) <= NumBlocks

\* A step that gets as far as scheduling has found work.
WorkInv == pc = "schedule" => waiting # <<>> \/ running # <<>>

BlockInv ==
  /\ external = 0
  /\ FitInv
  /\ DecodeInv
  /\ RetryInv
  /\ AccountInv
  /\ WorkInv
  /\ StepAdvances

\* Targets are lengths, and no cache is beyond its own.
LEMMA TargetFacts ==
  ASSUME IInv
  PROVE  /\ IsFiniteSet(Ids) /\ Ids \in SUBSET Int
         /\ \A r \in Ids : length[r] \in Nat /\ NewTokens(r) \in Nat /\ Target[r] \in Nat
         /\ RetryInv => \A r \in Ids : length[r] <= Target[r]
<1>1. IsFiniteSet(Ids) /\ Ids \in SUBSET Int
  BY EngineAssumption, CountUp DEF Ids
<1>2. \A r \in Ids : /\ length[r] \in Nat /\ preLen[r] \in Nat
                     /\ prompt[r] \in Nat /\ generated[r] \in Nat
  BY DEF IInv, TypeOK
<1>3. \A r \in Ids : NewTokens(r) \in Nat
  BY <1>2 DEF NewTokens
<1>4. \A r \in Ids :
        Target[r] = IF r \in Range(todo)
                    THEN IF pc = "rows" THEN length[r]
                         ELSE (IF pc = "recover" THEN preLen[r] ELSE length[r]) + NewTokens(r)
                    ELSE IF prefillPass /\ r \in Range(decodeList) THEN length[r] + 1
                    ELSE length[r]
  BY DEF Target
<1>5. \A r \in Ids : Target[r] \in Nat
  BY <1>2, <1>3, <1>4
<1>6. ASSUME RetryInv PROVE \A r \in Ids : length[r] <= Target[r]
  BY <1>2, <1>3, <1>4, <1>6 DEF RetryInv
<1> QED
  BY <1>1, <1>2, <1>3, <1>5, <1>6

\* The same of the next state.
LEMMA TargetType == IInv => \A r \in Ids : Target[r] \in Nat
BY TargetFacts

\* A step inside the passes that raises no target needs no block that was not
\* accounted for.
LEMMA PassStepBlocks ==
  ASSUME IInv, BlockInv, IInv', pc \in Passing, pc' \in Passing,
         UNCHANGED <<nextId, prompt, limit, external>>,
         \A r \in Ids : Target'[r] <= Target[r],
         DecodeInv', RetryInv', pc' = "forward" => ~prefillPass'
  PROVE  BlockInv'
<1>1. external' = 0 /\ FitInv'
  BY DEF BlockInv, FitInv
<1>2. WorkInv' /\ StepAdvances'
  BY DEF WorkInv, StepAdvances, Passing
<1>3. PICK now : now = Target
  OBVIOUS
<1>4. PICK then : then = Target'
  OBVIOUS
<1>5. \A r \in Ids : now[r] \in Nat
  BY <1>3, TargetFacts
<1>6. IInv' => \A r \in Ids : then[r] \in Nat
  <2>1. (IInv => \A r \in Ids : Target[r] \in Nat)'
    BY TargetType, PTL
  <2> QED
    BY <1>4, <2>1
<1>7. IsFiniteSet(Ids)
  BY TargetFacts
<1>8. BlocksHeld(Ids, then) <= BlocksHeld(Ids, now)
  BY <1>3, <1>4, <1>5, <1>6, <1>7, HeldMonotonic
<1>9. BlocksHeld(Ids, then) \in Nat /\ BlocksHeld(Ids, now) \in Nat
  BY <1>5, <1>6, <1>7, HeldAndDemand
<1>10. BlocksHeld(Ids, now) <= NumBlocks
  BY <1>3 DEF BlockInv, AccountInv
<1>11. NumBlocks \in Nat
  BY EngineAssumption DEF ValidConfig
<1>12. BlocksHeld(Ids, then) <= NumBlocks
  BY <1>8, <1>9, <1>10, <1>11
<1>13. AccountInv'
  BY <1>4, <1>12 DEF AccountInv
<1> QED
  BY <1>1, <1>2, <1>13 DEF BlockInv

\* What is still to be taken in this step is free.
LEMMA EnoughBlocks ==
  ASSUME IInv, BlockInv
  PROVE  NeverExhausted
<1>1. PICK now : now = Target
  OBVIOUS
<1>2. /\ IsFiniteSet(Ids)
      /\ \A r \in Ids : length[r] \in Nat /\ now[r] \in Nat /\ length[r] <= now[r]
      /\ \A r \in Ids : NewTokens(r) \in Nat
  BY <1>1, TargetFacts DEF BlockInv
<1>3. PICK total \in Nat : total = BlocksHeld(Ids, length)
  BY <1>2, HeldAndDemand
<1>4. FreeBlocks = NumBlocks - total /\ NumBlocks \in Nat
  BY <1>3, EngineAssumption DEF FreeBlocks, BlockInv, ValidConfig
<1>5. pc \in Passing => BlocksHeld(Ids, now) <= NumBlocks
  BY <1>1 DEF BlockInv, AccountInv
<1>6. /\ todo \in Seq(Ids) /\ NoDuplicates(todo) /\ Range(todo) \subseteq Ids
      /\ decodeList \in Seq(Ids) /\ Range(decodeList) \subseteq Ids
  BY RangeType DEF IInv, TypeOK, PassInv
<1>7. ASSUME pc = "forward"
      PROVE  PassNeed(Len(todo))
               + (IF prefillPass THEN DecodeDemand(Range(decodeList), length) ELSE 0)
               <= FreeBlocks
  <2>1. PICK T \in SUBSET Ids : T = Range(todo)
    BY <1>6
  <2>2. PICK D \in SUBSET Ids : D = IF prefillPass THEN Range(decodeList) ELSE {}
    BY <1>6
  <2>3. T \cap D = {}
    BY <1>7, <2>1, <2>2 DEF BlockInv, DecodeInv, Passing
  <2>4. PICK U : U = Ids \ (T \cup D)
    OBVIOUS
  <2>5. /\ \A r \in T : now[r] = length[r] + NewTokens(r)
        /\ \A r \in D : now[r] = length[r] + 1
        /\ \A r \in U : now[r] = length[r]
    BY <1>1, <1>7, <2>1, <2>2, <2>3, <2>4 DEF Target
  <2>6. PICK need : need = [i \in 1..Len(todo) |->
                              BlocksNeeded(length[todo[i]], NewTokens(todo[i]))]
    OBVIOUS
  <2>7. \A i \in 1..Len(todo) :
          need[i] = BlocksFor(now[todo[i]]) - BlocksFor(length[todo[i]])
    <3>1. \A i \in 1..Len(todo) : todo[i] \in T
      BY <1>6, <2>1 DEF Range
    <3> QED
      BY <2>5, <2>6, <3>1 DEF BlocksNeeded
  <2>8. SumOver(need, 1..Len(todo)) + BlocksHeld(T, length) = BlocksHeld(T, now)
    BY <1>2, <1>6, <2>1, <2>7, NeedAlong
  <2>9. IsFiniteSet(D)
    BY <1>2, FS_Subset
  <2>10. DecodeDemand(D, length) + BlocksHeld(D, length) = BlocksHeld(D, now)
    BY <1>2, <2>5, <2>9, DemandHeld
  <2>11. DecodeDemand(D, length) \in Nat
    BY <1>2, <2>9, HeldAndDemand
  <2>12. BlocksHeld(U, now) = BlocksHeld(U, length)
    BY <2>5, HeldSame
  <2>13. /\ BlocksHeld(T, length) \in Nat /\ BlocksHeld(D, length) \in Nat
         /\ BlocksHeld(U, length) \in Nat
         /\ total = BlocksHeld(T, length) + BlocksHeld(D, length) + BlocksHeld(U, length)
    <3>1. /\ BlocksHeld(T, length) \in Nat /\ BlocksHeld(D, length) \in Nat
          /\ BlocksHeld(Ids, length)
               = BlocksHeld(T, length) + BlocksHeld(D, length) + BlocksHeld(U, length)
      BY <1>2, <2>3, <2>4, HeldThree
    <3>2. IsFiniteSet(U) /\ U \subseteq Ids
      BY <1>2, <2>4, FS_Subset
    <3>3. BlocksHeld(U, length) \in Nat
      BY <1>2, <3>2, HeldAndDemand
    <3> QED
      BY <1>3, <3>1, <3>3
  <2>14. /\ BlocksHeld(T, now) \in Nat /\ BlocksHeld(D, now) \in Nat
         /\ BlocksHeld(Ids, now)
              = BlocksHeld(T, now) + BlocksHeld(D, now) + BlocksHeld(U, now)
    BY <1>2, <2>3, <2>4, HeldThree
  <2>15. PICK a, b, c, x, y \in Nat :
           /\ a = BlocksHeld(T, length) /\ b = BlocksHeld(D, length)
           /\ c = BlocksHeld(U, length) /\ x = BlocksHeld(T, now) /\ y = BlocksHeld(D, now)
    BY <2>13, <2>14
  <2>16. PICK p \in Int : p = SumOver(need, 1..Len(todo))
    <3>1. \A i \in 1..Len(todo) : need[i] \in Int
      <4>1. \A i \in 1..Len(todo) : todo[i] \in Ids
        BY <1>6
      <4>2. \A r \in Ids : BlocksFor(now[r]) \in Nat /\ BlocksFor(length[r]) \in Nat
        BY <1>2, BlocksForFacts
      <4> QED
        BY <2>7, <4>1, <4>2
    <3>2. IsFiniteSet(1..Len(todo))
      BY <1>6, CountUp
    <3>3. SumOver(need, 1..Len(todo)) \in Int
      BY <3>1, <3>2, SumType
    <3> QED
      BY <3>3
  <2>17. PICK d \in Nat : d = DecodeDemand(D, length)
    BY <2>11
  <2>18. x + y + c <= NumBlocks
    BY <1>5, <1>7, <2>12, <2>14, <2>15 DEF Passing
  <2>19. p + a = x /\ d + b = y /\ total = a + b + c
    BY <2>8, <2>10, <2>13, <2>15, <2>16, <2>17
  <2>20. p + d <= FreeBlocks
    BY <1>4, <2>18, <2>19
  <2>21. PassNeed(Len(todo)) = p
    BY <2>6, <2>16 DEF PassNeed
  <2>22. d = IF prefillPass THEN DecodeDemand(Range(decodeList), length) ELSE 0
    <3>1. DecodeDemand({}, length) = 0
      BY FS_EmptySet, HeldAndDemand
    <3>2. prefillPass \in BOOLEAN
      BY DEF IInv, TypeOK
    <3> QED
      BY <2>2, <2>17, <3>1, <3>2
  <2> QED
    BY <2>20, <2>21, <2>22
<1>8. ASSUME pc = "recover", todo # <<>>, state[Head(todo)] = "kRunning"
      PROVE  RetryFits(Head(todo))
  <2>1. PICK r \in Ids : r = Head(todo) /\ r \in Range(todo)
    BY <1>6, <1>8, TailFacts
  <2>2. now[r] = preLen[r] + NewTokens(r)
    BY <1>1, <1>8, <2>1 DEF Target
  <2>3. PICK L : L = Ids \ {r}
    OBVIOUS
  <2>4. IsFiniteSet(L) /\ L \subseteq Ids
    BY <1>2, <2>3, FS_Subset
  <2>5. BlocksHeld(L, length) <= BlocksHeld(L, now)
    BY <1>2, <2>4, HeldMonotonic
  <2>6. PICK a, b \in Nat : a = BlocksHeld(L, length) /\ b = BlocksHeld(L, now)
    <3>1. BlocksHeld(L, length) \in Nat
      BY <1>2, <2>4, HeldAndDemand
    <3>2. BlocksHeld(L, now) \in Nat
      BY <1>2, <2>4, HeldAndDemand
    <3> QED
      BY <3>1, <3>2
  <2>7. total = BlocksFor(length[r]) + a
    BY <1>2, <1>3, <2>3, <2>6, HeldTake
  <2>8. BlocksHeld(Ids, now) = BlocksFor(now[r]) + b
    BY <1>2, <2>3, <2>6, HeldTake
  <2>9. preLen[r] \in Nat
    BY DEF IInv, TypeOK
  <2>10. PICK u, v, w \in Nat : /\ u = BlocksFor(length[r]) /\ v = BlocksFor(now[r])
                                /\ w = BlocksFor(preLen[r])
    BY <1>2, <2>9, BlocksForFacts
  <2>11. v + b <= NumBlocks
    BY <1>5, <1>8, <2>8, <2>10 DEF Passing
  <2>12. v - w <= NumBlocks - total + u - w
    BY <1>4, <2>5, <2>6, <2>7, <2>10, <2>11
  <2> QED
    BY <1>4, <2>1, <2>2, <2>10, <2>12 DEF RetryFits, FreeAfterTruncate, BlocksNeeded
<1> QED
  BY <1>7, <1>8 DEF NeverExhausted

\* A forward, complete or cut short, takes the caches of its pass to their
\* targets or part of the way.
LEMMA ForwardBlocks ==
  ASSUME IInv, BlockInv, IInv', ForwardOk \/ (\E k \in 0..Len(todo) : ForwardFails(k))
  PROVE  BlockInv'
<1>1. /\ pc = "forward" /\ pc' \in {"rows", "recover"} /\ preLen' = length
      /\ UNCHANGED <<nextId, decodeList, prefillPass, todo, prompt, limit, generated,
                     external>>
      /\ \E k \in 0..Len(todo) : length' = Appended(k)
  <2>1. Len(todo) \in 0..Len(todo)
    BY DEF IInv, TypeOK
  <2> QED
    BY <2>1 DEF ForwardOk, ForwardFails, clientVars
<1>2. \A r \in Ids : NewTokens(r)' = NewTokens(r)
  BY <1>1 DEF NewTokens
<1>3. \A r \in Ids : length[r] \in Nat /\ NewTokens(r) \in Nat
  BY TargetFacts
<1>4. \A r \in Ids : /\ length'[r] = length[r] \/ length'[r] = length[r] + NewTokens(r)
                     /\ r \notin Range(todo) => length'[r] = length[r]
  <2>1. PICK k \in 0..Len(todo) : length' = Appended(k)
    BY <1>1
  <2>2. Range(SubSeq(todo, 1, k)) \subseteq Range(todo)
    BY PrefixFacts DEF IInv, TypeOK
  <2> QED
    BY <2>1, <2>2 DEF Appended
<1>5. \A r \in Ids : Target'[r] <= Target[r]
  <2> SUFFICES ASSUME NEW r \in Ids PROVE Target'[r] <= Target[r]
    OBVIOUS
  <2>1. CASE r \in Range(todo)
    <3>1. Target[r] = length[r] + NewTokens(r)
      BY <1>1, <2>1 DEF Target
    <3>2. Target'[r] = length'[r] \/ Target'[r] = length[r] + NewTokens(r)
      BY <1>1, <1>2, <2>1 DEF Target
    <3> QED
      BY <1>3, <1>4, <3>1, <3>2
  <2>2. CASE r \notin Range(todo)
    <3>1. Target'[r] = Target[r]
      BY <1>1, <1>4, <2>2 DEF Target
    <3>2. Target[r] \in Nat
      BY TargetFacts
    <3> QED
      BY <3>1, <3>2
  <2> QED
    BY <2>1, <2>2
<1>6. DecodeInv'
  BY <1>1 DEF BlockInv, DecodeInv, Passing
<1>7. RetryInv'
  <2> SUFFICES ASSUME NEW r \in Range(todo)
               PROVE  r < nextId /\ length'[r] <= length[r] + NewTokens(r)'
    BY <1>1 DEF RetryInv
  <2>1. r \in Ids
    BY RangeType DEF IInv, TypeOK
  <2>2. state[r] = "kRunning"
    BY <1>1 DEF IInv, PassInv
  <2>3. r < nextId
    BY <2>1, <2>2 DEF IInv, StateInv, TypeOK, Ids
  <2> QED
    BY <1>2, <1>3, <1>4, <2>1, <2>3
<1> QED
  BY <1>1, <1>5, <1>6, <1>7, PassStepBlocks DEF Passing

\* A member that leaves the pass with a cache no longer than its target leaves
\* the others' targets as they are.
LEMMA MemberBlocks ==
  ASSUME IInv, BlockInv, IInv', pc \in {"rows", "recover"}, todo # <<>>, todo' = Tail(todo),
         UNCHANGED <<pc, nextId, decodeList, prefillPass, preLen, prompt, limit, external>>,
         \A r \in Ids \ {Head(todo)} : generated'[r] = generated[r] /\ length'[r] = length[r],
         length'[Head(todo)] <= Target[Head(todo)]
  PROVE  BlockInv'
<1>1. /\ Head(todo) \in Ids /\ Head(todo) \in Range(todo)
      /\ Range(todo') = Range(todo) \ {Head(todo)}
  BY TailFacts DEF IInv, TypeOK, PassInv
<1>2. \A r \in Ids \ {Head(todo)} : NewTokens(r)' = NewTokens(r)
  BY DEF NewTokens
<1>3. DecodeInv'
  BY <1>1 DEF BlockInv, DecodeInv, Passing
<1>4. RetryInv'
  <2> SUFFICES ASSUME pc = "recover", NEW r \in Range(todo')
               PROVE  r < nextId /\ length'[r] <= preLen[r] + NewTokens(r)'
    BY DEF RetryInv
  <2>1. r \in Ids \ {Head(todo)} /\ r \in Range(todo)
    BY <1>1, RangeType DEF IInv, TypeOK
  <2> QED
    BY <1>2, <2>1 DEF BlockInv, RetryInv
<1>5. \A r \in Ids : Target'[r] <= Target[r]
  <2> SUFFICES ASSUME NEW r \in Ids PROVE Target'[r] <= Target[r]
    OBVIOUS
  <2>1. CASE r = Head(todo)
    <3>1. ~(prefillPass /\ r \in Range(decodeList))
      BY <1>1, <2>1 DEF BlockInv, DecodeInv, Passing
    <3>2. Target'[r] = length'[r]
      BY <1>1, <2>1, <3>1 DEF Target
    <3> QED
      BY <2>1, <3>2
  <2>2. CASE r # Head(todo)
    <3>1. NewTokens(r)' = NewTokens(r) /\ length'[r] = length[r]
      BY <1>2, <2>2
    <3>2. r \in Range(todo') <=> r \in Range(todo)
      BY <1>1, <2>2
    <3>3. Target'[r] = Target[r]
      BY <3>1, <3>2 DEF Target
    <3>4. Target[r] \in Nat
      BY TargetFacts
    <3> QED
      BY <3>3, <3>4
  <2> QED
    BY <2>1, <2>2
<1> QED
  BY <1>3, <1>4, <1>5, PassStepBlocks DEF Passing

\* Delivering a row, re-running a member, failing it and skipping it.
LEMMA RowBlocks ==
  ASSUME IInv, BlockInv, IInv', DeliverRow \/ RecoverOk \/ RecoverFail \/ RecoverSkip
  PROVE  BlockInv'
<1>1. /\ pc \in {"rows", "recover"} /\ todo # <<>> /\ todo' = Tail(todo)
      /\ UNCHANGED <<pc, nextId, decodeList, prefillPass, preLen, prompt, limit, external>>
  BY DEF DeliverRow, RecoverOk, RecoverFail, RecoverSkip, clientVars, seqVars
<1>2. PICK h \in Ids : h = Head(todo) /\ h \in Range(todo)
  BY <1>1, TailFacts DEF IInv, TypeOK
<1>3. \A r \in Ids \ {h} : generated'[r] = generated[r]
  <2>1. generated' = generated \/ generated' = [generated EXCEPT ![h] = @ + 1]
    BY <1>2 DEF DeliverRow, RecoverOk, RecoverFail, RecoverSkip, DeliverSampled, FailRow,
                seqVars
  <2>2. generated \in [Ids -> Nat]
    BY DEF IInv, TypeOK
  <2> QED
    BY <2>1, <2>2
<1>4. /\ length[h] \in Nat /\ preLen[h] \in Nat /\ NewTokens(h) \in Nat
      /\ length \in [Ids -> Nat] /\ length[h] <= Target[h]
  BY TargetFacts DEF IInv, TypeOK, BlockInv
<1>5. CASE UNCHANGED length
  BY <1>1, <1>2, <1>3, <1>4, <1>5, MemberBlocks
<1>6. CASE /\ pc = "recover"
           /\ \/ length' = [length EXCEPT ![h] = preLen[h]]
              \/ length' = [length EXCEPT ![h] = preLen[h] + NewTokens(h)]
  <2>1. Target[h] = preLen[h] + NewTokens(h)
    BY <1>2, <1>6 DEF Target
  <2>2. \A r \in Ids \ {h} : length'[r] = length[r]
    BY <1>4, <1>6
  <2>3. length'[h] <= Target[h]
    BY <1>4, <1>6, <2>1
  <2> QED
    BY <1>1, <1>2, <1>3, <2>2, <2>3, MemberBlocks
<1> QED
  BY <1>2, <1>5, <1>6 DEF DeliverRow, RecoverOk, RecoverFail, RecoverSkip, seqVars

\* The decode pass starts with the demand it was granted.
LEMMA BeginDecodeBlocks ==
  ASSUME IInv, BlockInv, IInv', BeginDecode
  PROVE  BlockInv'
<1>1. /\ pc \in Passing /\ todo = <<>> /\ prefillPass /\ prefillPass' = FALSE
      /\ todo' = Filter(decodeList, {r \in Ids : state[r] = "kRunning"})
      /\ pc' = "forward"
      /\ UNCHANGED <<nextId, decodeList, prompt, limit, generated, length, external>>
  BY DEF BeginDecode, Passing, clientVars, seqVars
<1>2. Range(todo) = {}
  BY <1>1, EmptyFacts
<1>3. Range(todo') \subseteq Range(decodeList)
  BY <1>1, FilterFacts DEF IInv, TypeOK
<1>4. \A r \in Ids : Target'[r] <= Target[r]
  <2> SUFFICES ASSUME NEW r \in Ids PROVE Target'[r] <= Target[r]
    OBVIOUS
  <2>1. length[r] \in Nat
    BY TargetFacts
  <2>2. NewTokens(r)' = 1
    BY <1>1 DEF NewTokens
  <2>3. Target[r] = IF r \in Range(decodeList) THEN length[r] + 1 ELSE length[r]
    BY <1>1, <1>2 DEF Target
  <2>4. Target'[r] = IF r \in Range(todo') THEN length[r] + 1 ELSE length[r]
    BY <1>1, <2>2 DEF Target
  <2> QED
    BY <1>3, <2>1, <2>3, <2>4
<1>5. DecodeInv' /\ RetryInv'
  BY <1>1 DEF DecodeInv, RetryInv
<1> QED
  BY <1>1, <1>4, <1>5, PassStepBlocks DEF Passing

\* Nobody is evicted during recovery: every retry fits.
LEMMA NoEviction ==
  ASSUME IInv, BlockInv
  PROVE  ~RecoverEvict
BY EnoughBlocks DEF NeverExhausted, RecoverEvict

\* Clients only add a request that fits; the thread between two points where it
\* touches caches changes nothing that is accounted for.
LEMMA QuietBlocks ==
  ASSUME MaxExternal = 0, IInv, BlockInv, IInv',
         \/ \E p \in PromptLens, m \in TokenLimits : Submit(p, m)
         \/ \E r \in Ids : Cancel(r)
         \/ Stop \/ NotifyEngine \/ Start \/ ExternalTake \/ ExternalGive
         \/ CheckStop \/ IdleWait \/ UNCHANGED vars
  PROVE  BlockInv'
<1>1. /\ UNCHANGED <<waiting, running, decodeList, prefillPass, todo, preLen, generated,
                     length>>
      /\ pc' = pc \/ (pc' \notin Passing \cup {"schedule"})
  BY DEF Submit, Cancel, Stop, NotifyEngine, Start, ExternalTake, ExternalGive, CheckStop,
         IdleWait, vars, clientVars, queueVars, passVars, seqVars, chanVars, Passing
<1>2. external' = 0
  BY DEF IInv, TypeOK
<1>3. nextId \in Nat /\ nextId' \in Nat /\ nextId <= nextId'
  <2>1. nextId \in Nat /\ nextId' \in Nat
    BY EngineAssumption DEF IInv, TypeOK
  <2>2. nextId' = nextId \/ nextId' = nextId + 1
    BY DEF Submit, Cancel, Stop, NotifyEngine, Start, ExternalTake, ExternalGive,
           CheckStop, IdleWait, vars, clientVars
  <2> QED
    BY <2>1, <2>2
<1>4. \A r \in Ids : r < nextId => prompt'[r] = prompt[r] /\ limit'[r] = limit[r]
  <2>1. CASE \E p \in PromptLens, m \in TokenLimits : Submit(p, m)
    BY <1>3, <2>1 DEF Submit, IInv, TypeOK
  <2>2. CASE UNCHANGED <<prompt, limit>>
    BY <2>2
  <2> QED
    BY <2>1, <2>2 DEF Cancel, Stop, NotifyEngine, Start, ExternalTake, ExternalGive,
                      CheckStop, IdleWait, vars, seqVars
<1>5. FitInv'
  <2>1. CASE \E p \in PromptLens, m \in TokenLimits : Submit(p, m)
    <3>1. PICK p \in PromptLens, m \in TokenLimits : Submit(p, m)
      BY <2>1
    <3>2. /\ nextId \in Ids /\ nextId' = nextId + 1 /\ m > 0
          /\ Peak(p, m) <= MaxBatchedTokens /\ Peak(p, m) <= NumBlocks * BlockSize
      BY <3>1 DEF Submit, Accepts
    <3>3. prompt'[nextId] = p /\ limit'[nextId] = m
      BY <3>1, <3>2 DEF Submit, IInv, TypeOK
    <3> SUFFICES ASSUME NEW r \in Ids, r < nextId'
                 PROVE  /\ limit'[r] > 0
                        /\ Peak(prompt'[r], limit'[r]) <= MaxBatchedTokens
                        /\ Peak(prompt'[r], limit'[r]) <= NumBlocks * BlockSize
      BY DEF FitInv, Peak
    <3>4. CASE r = nextId
      BY <3>2, <3>3, <3>4
    <3>5. CASE r < nextId
      BY <1>4, <3>5 DEF BlockInv, FitInv
    <3> QED
      BY <1>3, <3>2, <3>4, <3>5 DEF Ids
  <2>2. CASE UNCHANGED <<nextId, prompt, limit>>
    BY <2>2 DEF BlockInv, FitInv, Peak
  <2> QED
    BY <2>1, <2>2 DEF Cancel, Stop, NotifyEngine, Start, ExternalTake, ExternalGive,
                      CheckStop, IdleWait, vars, clientVars, seqVars
<1>6. CASE pc' = pc /\ pc \in Passing
  <2>1. \A r \in Range(todo) : r \in Ids /\ r < nextId
    <3> SUFFICES ASSUME NEW r \in Range(todo) PROVE r \in Ids /\ r < nextId
      OBVIOUS
    <3>1. r \in Ids
      BY RangeType DEF IInv, TypeOK
    <3>2. CASE pc = "recover"
      BY <3>1, <3>2 DEF BlockInv, RetryInv
    <3>3. CASE pc \in {"forward", "rows"}
      <4>1. state[r] = "kRunning"
        BY <3>3 DEF IInv, PassInv
      <4> QED
        BY <3>1, <4>1 DEF IInv, StateInv, TypeOK, Ids
    <3> QED
      BY <1>6, <3>1, <3>2, <3>3 DEF Passing
  <2>2. \A r \in Range(todo) : NewTokens(r)' = NewTokens(r)
    BY <1>1, <1>4, <2>1 DEF NewTokens
  <2>3. Target' = Target
    <3>1. \A r \in Ids : Target'[r] = Target[r]
      BY <1>1, <1>6, <2>2 DEF Target
    <3> QED
      BY <3>1 DEF Target
  <2>4. AccountInv'
    BY <1>6, <2>3 DEF BlockInv, AccountInv
  <2>5. RetryInv'
    BY <1>1, <1>3, <1>6, <2>1, <2>2 DEF BlockInv, RetryInv, Ids
  <2>6. DecodeInv' /\ WorkInv' /\ StepAdvances'
    BY <1>1, <1>6 DEF BlockInv, DecodeInv, WorkInv, StepAdvances
  <2> QED
    BY <1>2, <1>5, <2>4, <2>5, <2>6 DEF BlockInv
<1>7. CASE pc' \notin Passing
  <2>1. DecodeInv' /\ RetryInv' /\ AccountInv' /\ StepAdvances'
    BY <1>7 DEF DecodeInv, RetryInv, AccountInv, StepAdvances, Passing
  <2>2. WorkInv'
    BY <1>1 DEF BlockInv, WorkInv
  <2> QED
    BY <1>2, <1>5, <2>1, <2>2 DEF BlockInv
<1> QED
  BY <1>1, <1>6, <1>7

\* The boundary of a step owes nothing; RetireCancelled goes on to schedule only
\* when it leaves somebody.
LEMMA BoundaryBlocks ==
  ASSUME BlockInv,
         Shutdown \/ DrainCommands \/ RetireCancelled \/ EndPasses \/ RetireTerminal
  PROVE  BlockInv'
<1>1. UNCHANGED <<nextId, prompt, limit, external>>
  BY DEF Shutdown, DrainCommands, RetireCancelled, EndPasses, RetireTerminal, clientVars,
         seqVars
<1>2. external' = 0 /\ FitInv'
  BY <1>1 DEF BlockInv, FitInv, Peak
<1>3. pc' \notin Passing
  BY DEF Shutdown, DrainCommands, RetireCancelled, EndPasses, RetireTerminal, Passing
<1>4. WorkInv'
  BY DEF Shutdown, DrainCommands, RetireCancelled, EndPasses, RetireTerminal, WorkInv
<1>5. DecodeInv' /\ RetryInv' /\ AccountInv' /\ StepAdvances'
  BY <1>3 DEF DecodeInv, RetryInv, AccountInv, StepAdvances, Passing
<1> QED
  BY <1>2, <1>4, <1>5 DEF BlockInv

\* At the boundary the running list holds every block that is not free.
LEMMA PoolSplit ==
  ASSUME IInv, BlockInv
  PROVE  /\ FreeBlocks \in Int
         /\ BlocksHeld(Range(running), length) \in Nat
         /\ FreeBlocks + BlocksHeld(Range(running), length) = NumBlocks
<1>1. IsFiniteSet(Ids) /\ \A r \in Ids : length[r] \in Nat
  BY TargetFacts
<1>2. PICK R \in SUBSET Ids : R = Range(running)
  BY RangeType DEF IInv, TypeOK
<1>3. PICK U \in SUBSET Ids : U = Ids \ R
  OBVIOUS
<1>4. IsFiniteSet(R) /\ IsFiniteSet(U) /\ R \cap U = {} /\ Ids = R \cup U
  BY <1>1, <1>3, FS_Subset
<1>5. BlocksHeld(Ids, length) = BlocksHeld(R, length) + BlocksHeld(U, length)
  BY <1>1, <1>4, HeldSplit
<1>6. BlocksHeld(U, length) = 0
  <2>1. \A r \in U : length[r] = 0
    BY <1>2, <1>3 DEF IInv, CacheInv
  <2> QED
    BY <1>1, <1>4, <2>1, HeldMonotonic
<1>7. BlocksHeld(R, length) \in Nat
  BY <1>1, <1>4, HeldAndDemand
<1> QED
  BY <1>2, <1>5, <1>6, <1>7, EngineAssumption DEF FreeBlocks, BlockInv, ValidConfig

\* What a live sequence feeds on admission, and what it holds after a decode,
\* fits the budget and the pool.
LEMMA AloneFits ==
  ASSUME IInv, BlockInv, NEW r \in Ids, state[r] \in {"kWaiting", "kPreempted", "kRunning"}
  PROVE  /\ prompt[r] + generated[r] \in Nat
         /\ prompt[r] + generated[r] <= MaxBatchedTokens
         /\ BlocksFor(prompt[r] + generated[r]) <= NumBlocks
<1>1. r < nextId
  BY DEF IInv, StateInv, TypeOK, Ids
<1>2. /\ limit[r] > 0 /\ Peak(prompt[r], limit[r]) <= MaxBatchedTokens
      /\ Peak(prompt[r], limit[r]) <= NumBlocks * BlockSize
  BY <1>1 DEF BlockInv, FitInv
<1>3. /\ prompt[r] \in Nat /\ generated[r] \in Nat /\ limit[r] \in Nat
      /\ generated[r] < limit[r]
  BY DEF IInv, TypeOK, ProgressInv
<1>4. PICK cap \in Nat : cap = NumBlocks * BlockSize
  BY EngineAssumption, SchedulerAssumption DEF ValidConfig
<1>5. /\ prompt[r] + generated[r] <= MaxBatchedTokens
      /\ prompt[r] + generated[r] <= cap
  BY <1>2, <1>3, <1>4, SchedulerAssumption DEF Peak
<1>6. NumBlocks \in Nat
  BY EngineAssumption DEF ValidConfig
<1> QED
  BY <1>3, <1>4, <1>5, <1>6, BlocksForFacts

\* A decision with somebody running keeps the oldest decoding; one with nobody
\* running admits the head of the queue.
LEMMA DecisionAdvances ==
  ASSUME IInv, BlockInv, pc = "schedule"
  PROVE  LET plan == Schedule(waiting, running, PrefillLen, length, FreeBlocks)
         IN /\ running # <<>> => plan.decode # <<>>
            /\ plan.prefill # <<>> \/ plan.decode # <<>>
<1>1. /\ IsFiniteSet(Ids) /\ Ids \in SUBSET Int
      /\ \A r \in Ids : length[r] \in Nat
  BY TargetFacts
<1>2. waiting \in Seq(Ids) /\ running \in Seq(Ids)
  BY DEF IInv, TypeOK
<1>3. PICK R \in SUBSET Ids : R = Range(running)
  BY <1>2, RangeType
<1>4. PICK K : K = DecodeSet(R, length, FreeBlocks)
  OBVIOUS
<1>5. IsFiniteSet(R) /\ K \subseteq R
  BY <1>1, <1>4, FS_Subset, DecodeSetOldest
<1>6. PICK held \in Nat : held = BlocksHeld(R, length)
  BY <1>3, PoolSplit
<1>7. FreeBlocks \in Int /\ FreeBlocks = NumBlocks - held /\ NumBlocks \in Nat
  BY <1>3, <1>6, PoolSplit, EngineAssumption DEF ValidConfig
<1>8. PICK plan : plan = Schedule(waiting, running, PrefillLen, length, FreeBlocks)
  OBVIOUS
<1>9. ASSUME running # <<>> PROVE plan.decode # <<>>
  <2>1. R # {} /\ R \in SUBSET Nat
    <3>1. 1 \in DOMAIN running
      BY <1>2, <1>9
    <3> QED
      BY <1>3, <3>1 DEF Range, Ids
  <2>2. PICK o \in R : \A r \in R : o <= r
    BY <2>1, LeastExists
  <2>3. o \in Ids /\ state[o] = "kRunning" /\ o \notin Range(todo)
    BY <1>3, <2>2, BoundaryLive DEF Boundary
  <2>4. length[o] + 1 = prompt[o] + generated[o]
    <3>1. length[o] = prompt[o] + generated[o] - 1
      BY <2>3 DEF IInv, AlignInv, Aligned
    <3>2. prompt[o] \in Nat /\ generated[o] \in Nat
      BY <2>3 DEF IInv, TypeOK
    <3> QED
      BY <3>1, <3>2
  <2>5. BlocksFor(length[o] + 1) <= NumBlocks
    BY <2>3, <2>4, AloneFits
  <2>6. PICK a, b \in Nat : a = BlocksFor(length[o]) /\ b = BlocksFor(length[o] + 1)
    BY <1>1, <2>3, BlocksForFacts
  <2>7. PICK rest \in Nat : rest = BlocksHeld(R \ {o}, length)
    <3>1. PICK V : V = R \ {o}
      OBVIOUS
    <3>2. IsFiniteSet(V) /\ \A r \in V : length[r] \in Nat
      BY <1>1, <1>5, <3>1, FS_Subset
    <3> QED
      BY <3>1, <3>2, HeldAndDemand
  <2>8. held = a + rest
    BY <1>1, <1>5, <1>6, <2>2, <2>6, <2>7, HeldTake
  <2>9. DecodeDemand({o}, length) = b - a
    <3>1. IsFiniteSet({o}) /\ {o} \ {o} = {}
      BY FS_Singleton
    <3>2. PICK grown : grown = [r \in Ids |-> length[r] + 1]
      OBVIOUS
    <3>3. grown[o] = length[o] + 1 /\ grown[o] \in Nat /\ length[o] \in Nat
      BY <1>1, <2>3, <3>2
    <3>4. BlocksHeld({}, length) = 0 /\ BlocksHeld({}, grown) = 0
      BY FS_EmptySet, HeldAndDemand
    <3>5. BlocksHeld({o}, length) = BlocksFor(length[o]) + BlocksHeld({}, length)
      <4>1. \A r \in {o} : length[r] \in Nat
        BY <3>3
      <4> QED
        BY <3>1, <4>1, HeldTake
    <3>6. BlocksHeld({o}, grown) = BlocksFor(grown[o]) + BlocksHeld({}, grown)
      <4>1. \A r \in {o} : grown[r] \in Nat
        BY <3>3
      <4> QED
        BY <3>1, <4>1, HeldTake
    <3>7. DecodeDemand({o}, length) + BlocksHeld({o}, length) = BlocksHeld({o}, grown)
      BY <3>1, <3>3, DemandHeld
    <3>8. DecodeDemand({o}, length) \in Nat
      BY <3>1, <3>3, HeldAndDemand
    <3> QED
      BY <2>6, <3>3, <3>4, <3>5, <3>6, <3>7, <3>8
  <2>10. Fits({o}, R, length, FreeBlocks)
    BY <1>7, <2>5, <2>6, <2>7, <2>8, <2>9 DEF Fits
  <2>11. o \in K
    <3>1. R \in SUBSET Int
      BY <1>1
    <3> QED
      BY <1>4, <2>2, <2>10, <3>1, OldestDecodes
  <2>12. plan.decode = Filter(running, K)
    BY <1>3, <1>4, <1>8 DEF Schedule
  <2>13. o \in Range(plan.decode)
    BY <1>2, <1>3, <2>11, <2>12, FilterFacts
  <2> QED
    BY <2>13, EmptyFacts
<1>10. ASSUME running = <<>> PROVE plan.prefill # <<>>
  <2>1. R = {} /\ K = {}
    BY <1>3, <1>5, <1>10, EmptyFacts
  <2>2. BlocksHeld({}, length) = 0 /\ DecodeDemand({}, length) = 0
    BY FS_EmptySet, HeldAndDemand
  <2>3. R \ K = {} /\ Cardinality(K) = 0
    BY <2>1, FS_EmptySet
  <2>4. PICK n : n = NumAdmitted(waiting, PrefillLen, 0, NumBlocks)
    OBVIOUS
  <2>5. plan.prefill = SubSeq(waiting, 1, n)
    <3>1. held = 0
      BY <1>6, <2>1, <2>2
    <3>2. FreeBlocks + BlocksHeld(R \ K, length) - DecodeDemand(K, length) = NumBlocks
      BY <1>7, <2>1, <2>2, <2>3, <3>1
    <3> QED
      BY <1>3, <1>4, <1>8, <2>3, <2>4, <3>2 DEF Schedule
  <2>6. waiting # <<>>
    BY <1>10 DEF BlockInv, WorkInv
  <2>7. waiting[1] \in Ids /\ waiting[1] \in Range(waiting)
    <3>1. 1 \in DOMAIN waiting
      BY <1>2, <2>6
    <3> QED
      BY <1>2, <3>1 DEF Range
  <2>8. state[waiting[1]] \in {"kWaiting", "kPreempted"}
    BY <2>7 DEF IInv, QueuesPartitionLive
  <2>9. PICK t \in Nat : t = PrefillLen[waiting[1]] /\ t <= MaxBatchedTokens
                         /\ BlocksFor(t) <= NumBlocks
    BY <2>7, <2>8, AloneFits DEF PrefillLen
  <2>10. /\ SumOver([i \in 1..1 |-> PrefillLen[waiting[i]]], 1..1) = t
         /\ SumOver([i \in 1..1 |-> BlocksFor(PrefillLen[waiting[i]])], 1..1) = BlocksFor(t)
    <3>1. 1..1 = {1} /\ IsFiniteSet({1}) /\ {1} \ {1} = {}
      BY FS_Singleton
    <3>2. PICK f : f = [i \in 1..1 |-> PrefillLen[waiting[i]]]
      OBVIOUS
    <3>3. PICK e : e = [i \in 1..1 |-> BlocksFor(PrefillLen[waiting[i]])]
      OBVIOUS
    <3>4. f[1] = t /\ e[1] = BlocksFor(t) /\ f[1] \in Int /\ e[1] \in Int
      BY <2>9, <3>2, <3>3, BlocksForFacts
    <3>5. SumOver(f, {}) = 0 /\ SumOver(e, {}) = 0
      BY FS_EmptySet, SumType
    <3>6. SumOver(f, {1}) = f[1] + SumOver(f, {})
      BY <3>1, <3>4, SumTake
    <3>7. SumOver(e, {1}) = e[1] + SumOver(e, {})
      BY <3>1, <3>4, SumTake
    <3> QED
      BY <3>1, <3>2, <3>3, <3>4, <3>5, <3>6, <3>7
  <2>11. Admissible(1, waiting, PrefillLen, 0, NumBlocks)
    BY <2>9, <2>10, SchedulerAssumption DEF Admissible
  <2>12. n >= 1 /\ n \in 0..Len(waiting)
    BY <1>2, <2>4, <2>6, <2>11, NumAdmittedFacts
  <2> QED
    BY <1>2, <2>5, <2>12
<1> QED
  BY <1>8, <1>9, <1>10

\* The scheduler grants no more than the pool has once its victims' blocks are
\* back.
LEMMA ScheduleBlocks ==
  ASSUME IInv, BlockInv, IInv', ScheduleStep
  PROVE  BlockInv'
<1>1. PICK plan : plan = Schedule(waiting, running, PrefillLen, length, FreeBlocks)
  OBVIOUS
<1>2. /\ pc = "schedule" /\ pc' = "forward" /\ prefillPass' = TRUE
      /\ decodeList' = plan.decode /\ todo' = plan.prefill
      /\ length' = Put(length, plan.preempt, 0)
      /\ UNCHANGED <<nextId, prompt, limit, generated, external>>
  BY <1>1 DEF ScheduleStep, clientVars
<1>3. external' = 0 /\ FitInv' /\ WorkInv' /\ RetryInv'
  BY <1>2 DEF BlockInv, FitInv, WorkInv, RetryInv, Peak
<1>4. StepAdvances'
  BY <1>1, <1>2, DecisionAdvances DEF StepAdvances
<1>5. /\ IsFiniteSet(Ids) /\ Ids \in SUBSET Int
      /\ \A r \in Ids : length[r] \in Nat
  BY TargetFacts
<1>6. /\ waiting \in Seq(Ids) /\ running \in Seq(Ids) /\ length \in [Ids -> Nat]
      /\ NoDuplicates(waiting) /\ NoDuplicates(running)
      /\ Range(waiting) \cap Range(running) = {}
  BY DEF IInv, TypeOK, QueuesPartitionLive
<1>7. PICK R \in SUBSET Ids : R = Range(running)
  BY <1>6, RangeType
<1>8. PICK P \in SUBSET R : P = plan.preempt
  BY <1>1, <1>6, <1>7, ScheduleFacts
<1>9. PICK K \in SUBSET R : K = Range(plan.decode) /\ K = R \ P
  BY <1>1, <1>6, <1>7, <1>8, ScheduleFacts
<1>10. PICK n \in 0..Len(waiting) : plan.prefill = SubSeq(waiting, 1, n)
  <2>1. waiting \in Seq(Ids) /\ running \in Seq(Ids)
    BY <1>6
  <2>2. \E n \in 0..Len(waiting) : plan.prefill = SubSeq(waiting, 1, n)
    BY <1>1, <2>1, ScheduleFacts
  <2> QED
    BY <2>2
<1>11. /\ plan.prefill \in Seq(Ids) /\ NoDuplicates(plan.prefill)
       /\ Range(plan.prefill) \subseteq Range(waiting)
  BY <1>6, <1>10, PrefixFacts
<1>12. PICK A \in SUBSET Ids : A = Range(plan.prefill)
  BY <1>11, RangeType
<1>13. A \cap R = {} /\ A \cap K = {}
  BY <1>6, <1>7, <1>9, <1>11, <1>12
<1>14. DecodeInv'
  BY <1>2, <1>9, <1>12, <1>13 DEF DecodeInv
<1>15. PICK then : then = Target'
  OBVIOUS
<1>16. \A r \in Ids : length'[r] = IF r \in P THEN 0 ELSE length[r]
  BY <1>2, <1>6, <1>8 DEF Put
<1>17. \A r \in Ids \ R : length[r] = 0
  BY <1>7 DEF IInv, CacheInv
<1>18. PICK U : U = Ids \ (A \cup K)
  OBVIOUS
<1>19. PrefillLen \in [Ids -> Nat]
  <2>1. \A r \in Ids : prompt[r] \in Nat /\ generated[r] \in Nat
    BY DEF IInv, TypeOK
  <2>2. \A r \in Ids : prompt[r] + generated[r] \in Nat
    BY <2>1
  <2> QED
    BY <2>2 DEF PrefillLen
<1>20. /\ \A r \in A : then[r] = PrefillLen[r] /\ length[r] = 0
       /\ \A r \in K : then[r] = length[r] + 1
       /\ \A r \in U : then[r] = 0
  <2>1. \A r \in Ids : NewTokens(r)' = PrefillLen[r]
    BY <1>2 DEF NewTokens, PrefillLen
  <2>2. \A r \in Ids :
          then[r] = IF r \in A THEN length'[r] + PrefillLen[r]
                    ELSE IF r \in K THEN length'[r] + 1 ELSE length'[r]
    BY <1>2, <1>9, <1>12, <1>15, <2>1 DEF Target
  <2>3. \A r \in A : then[r] = PrefillLen[r] /\ length[r] = 0
    <3> SUFFICES ASSUME NEW r \in A PROVE then[r] = PrefillLen[r] /\ length[r] = 0
      OBVIOUS
    <3>1. length[r] = 0 /\ length'[r] = 0
      BY <1>13, <1>16, <1>17
    <3> QED
      BY <1>19, <2>2, <3>1
  <2>4. \A r \in K : then[r] = length[r] + 1
    BY <1>9, <1>13, <1>16, <2>2
  <2>5. \A r \in U : then[r] = 0
    BY <1>9, <1>16, <1>17, <1>18, <2>2
  <2> QED
    BY <2>3, <2>4, <2>5
<1>21. \A r \in Ids : then[r] \in Nat
  BY <1>5, <1>18, <1>19, <1>20
<1>22. PICK s : s = plan.prefill
  OBVIOUS
<1>23. PICK need : need = [i \in 1..Len(s) |-> BlocksFor(PrefillLen[s[i]])]
  OBVIOUS
<1>24. SumOver(need, 1..Len(s)) + BlocksHeld(A, length) = BlocksHeld(A, then)
  <2>1. \A i \in 1..Len(s) : s[i] \in A
    BY <1>11, <1>12, <1>22 DEF Range
  <2>2. \A r \in Ids : BlocksFor(PrefillLen[r]) \in Nat
    BY <1>19, BlocksForFacts
  <2>3. \A r \in A : BlocksFor(PrefillLen[r]) = BlocksFor(then[r]) - BlocksFor(length[r])
    BY <1>20, <2>2, BlocksForFacts
  <2>4. \A i \in 1..Len(s) : need[i] = BlocksFor(then[s[i]]) - BlocksFor(length[s[i]])
    BY <1>23, <2>1, <2>3
  <2>5. \A r \in Range(s) : length[r] \in Nat /\ then[r] \in Nat
    BY <1>5, <1>12, <1>21, <1>22
  <2>6. s \in Seq(Ids) /\ NoDuplicates(s) /\ Range(s) = A
    BY <1>11, <1>12, <1>22
  <2>7. SumOver(need, 1..Len(s)) + BlocksHeld(Range(s), length) = BlocksHeld(Range(s), then)
    BY <2>4, <2>5, <2>6, NeedAlong, SMTT(20)
  <2> QED
    BY <2>6, <2>7
<1>25. IsFiniteSet(A) /\ IsFiniteSet(K) /\ IsFiniteSet(P) /\ IsFiniteSet(U) /\ U \subseteq Ids
  BY <1>5, <1>18, FS_Subset
<1>26. BlocksHeld(A, length) = 0
  BY <1>5, <1>20, <1>25, HeldMonotonic
<1>27. BlocksHeld(U, then) = 0
  BY <1>20, <1>21, <1>25, HeldMonotonic
<1>28. DecodeDemand(K, length) + BlocksHeld(K, length) = BlocksHeld(K, then)
  <2>1. \A r \in K : length[r] \in Nat /\ then[r] = length[r] + 1
    BY <1>5, <1>20
  <2> QED
    BY <1>25, <2>1, DemandHeld
<1>29. /\ BlocksHeld(A, then) \in Nat /\ BlocksHeld(K, then) \in Nat
       /\ BlocksHeld(Ids, then)
            = BlocksHeld(A, then) + BlocksHeld(K, then) + BlocksHeld(U, then)
  <2>1. K \in SUBSET Ids /\ A \cap K = {} /\ IsFiniteSet(Ids)
    BY <1>5, <1>13
  <2> QED
    <3>1. BlocksHeld(A, then) \in Nat
      BY <1>21, <1>25, HeldAndDemand
    <3>2. BlocksHeld(K, then) \in Nat
      BY <1>21, <1>25, <2>1, HeldAndDemand
    <3>3. BlocksHeld(Ids, then)
            = BlocksHeld(A, then) + BlocksHeld(K, then) + BlocksHeld(U, then)
      <4>1. PICK V : V = A \cup K
        OBVIOUS
      <4>2. /\ IsFiniteSet(V) /\ V \subseteq Ids /\ V \cap U = {} /\ Ids = V \cup U
            /\ A \cap K = {}
        BY <1>18, <2>1, <4>1, FS_Subset
      <4>3. BlocksHeld(Ids, then) = BlocksHeld(V, then) + BlocksHeld(U, then)
        BY <1>21, <1>25, <4>2, HeldSplit
      <4>4. \A r \in A \cup K : then[r] \in Nat
        BY <1>21, <4>1, <4>2
      <4>5. BlocksHeld(A \cup K, then) = BlocksHeld(A, then) + BlocksHeld(K, then)
        BY <1>25, <4>2, <4>4, HeldSplit
      <4> QED
        BY <4>1, <4>3, <4>5
    <3> QED
      BY <3>1, <3>2, <3>3
<1>30. BlocksHeld(R, length) = BlocksHeld(K, length) + BlocksHeld(P, length)
  <2>1. R = K \cup P /\ K \cap P = {}
    BY <1>9
  <2> QED
    <3>1. \A r \in K \cup P : length[r] \in Nat
      BY <1>5
    <3>2. BlocksHeld(K \cup P, length) = BlocksHeld(K, length) + BlocksHeld(P, length)
      BY <1>25, <2>1, <3>1, HeldSplit
    <3> QED
      BY <2>1, <3>2
<1>31. SumOver(need, 1..Len(s)) + DecodeDemand(K, length)
         <= FreeBlocks + BlocksHeld(P, length)
  <2>1. FreeBlocks \in Int /\ FreeBlocks + BlocksHeld(Range(running), length) >= 0
    BY PoolSplit, EngineAssumption DEF ValidConfig
  <2> QED
    BY <1>1, <1>5, <1>6, <1>8, <1>9, <1>19, <1>22, <1>23, <2>1, ScheduleAccounts
<1>32. PICK free \in Int : free = FreeBlocks
  BY PoolSplit
<1>33. PICK a, k, k2, p, d \in Nat :
         /\ a = BlocksHeld(A, then) /\ k = BlocksHeld(K, length) /\ k2 = BlocksHeld(K, then)
         /\ p = BlocksHeld(P, length) /\ d = DecodeDemand(K, length)
  <2>1. BlocksHeld(K, length) \in Nat /\ DecodeDemand(K, length) \in Nat
    BY <1>5, <1>25, HeldAndDemand
  <2>2. BlocksHeld(P, length) \in Nat
    BY <1>5, <1>25, HeldAndDemand
  <2> QED
    BY <1>29, <2>1, <2>2
<1>34. SumOver(need, 1..Len(s)) = a
  <2>1. SumOver(need, 1..Len(s)) \in Int
    <3>1. \A i \in 1..Len(s) : s[i] \in Ids
      BY <1>11, <1>22
    <3>2. \A i \in 1..Len(s) : need[i] \in Int
      <4>1. \A r \in Ids : BlocksFor(PrefillLen[r]) \in Nat
        BY <1>19, BlocksForFacts
      <4> QED
        BY <1>23, <3>1, <4>1
    <3>3. IsFiniteSet(1..Len(s))
      BY <1>11, <1>22, CountUp
    <3> QED
      BY <3>2, <3>3, SumType
  <2> QED
    BY <1>24, <1>26, <1>33, <2>1
<1>35. a + d <= free + p /\ d + k = k2 /\ free + k + p = NumBlocks
  <2>1. a + d <= free + p
    BY <1>31, <1>32, <1>33, <1>34
  <2>2. d + k = k2
    BY <1>28, <1>33
  <2>3. free + BlocksHeld(R, length) = NumBlocks
    BY <1>7, <1>32, PoolSplit
  <2> QED
    BY <1>30, <1>33, <2>1, <2>2, <2>3
<1>36. BlocksHeld(Ids, then) = a + k2
  BY <1>27, <1>29, <1>33
<1>37. BlocksHeld(Ids, then) <= NumBlocks
  BY <1>35, <1>36, EngineAssumption DEF ValidConfig
<1>38. AccountInv'
  BY <1>15, <1>37 DEF AccountInv
<1> QED
  BY <1>3, <1>4, <1>14, <1>38 DEF BlockInv

\* With no other user of the pool, every step keeps the account.
THEOREM StepBlocks ==
  ASSUME MaxExternal = 0
  PROVE  (IInv /\ BlockInv) /\ [Next]_vars => (IInv /\ BlockInv)'
<1> SUFFICES ASSUME IInv, BlockInv, [Next]_vars PROVE (IInv /\ BlockInv)'
  OBVIOUS
<1>1. IInv'
  BY StepInv
<1>2. CASE \/ \E p \in PromptLens, m \in TokenLimits : Submit(p, m)
           \/ \E r \in Ids : Cancel(r)
           \/ Stop \/ NotifyEngine \/ Start \/ ExternalTake \/ ExternalGive
           \/ CheckStop \/ IdleWait \/ UNCHANGED vars
  BY <1>1, <1>2, QuietBlocks
<1>3. CASE Shutdown \/ DrainCommands \/ RetireCancelled \/ EndPasses \/ RetireTerminal
  BY <1>1, <1>3, BoundaryBlocks
<1>4. CASE ScheduleStep
  BY <1>1, <1>4, ScheduleBlocks
<1>5. CASE ForwardOk \/ (\E k \in 0..Len(todo) : ForwardFails(k))
  BY <1>1, <1>5, ForwardBlocks
<1>6. CASE DeliverRow \/ RecoverOk \/ RecoverFail \/ RecoverSkip
  BY <1>1, <1>6, RowBlocks
<1>7. CASE RecoverEvict
  BY <1>7, NoEviction
<1>8. CASE BeginDecode
  BY <1>1, <1>8, BeginDecodeBlocks
<1> QED
  BY <1>2, <1>3, <1>4, <1>5, <1>6, <1>7, <1>8 DEF Next, EngineThread, Terminated

\* The account is right in every reachable state.
THEOREM BlockInvariance ==
  ASSUME MaxExternal = 0
  PROVE  Spec => [](IInv /\ BlockInv)
<1>1. Init => IInv /\ BlockInv
  <2> SUFFICES ASSUME Init PROVE IInv /\ BlockInv
    OBVIOUS
  <2>1. external = 0 /\ pc = "new" /\ nextId = 1
    BY DEF Init
  <2>2. FitInv
    BY <2>1 DEF FitInv, Ids
  <2>3. DecodeInv /\ RetryInv /\ AccountInv /\ WorkInv /\ StepAdvances
    BY <2>1 DEF DecodeInv, RetryInv, AccountInv, WorkInv, StepAdvances, Passing
  <2> QED
    BY <2>1, <2>2, <2>3, InitIInv DEF BlockInv
<1> QED
  BY <1>1, StepBlocks, PTL DEF Spec

\* When the engine has the pool to itself, no pass runs out of blocks that the
\* scheduler did not account for: not the prefill pass, not the decode pass
\* after it, and not the retries of a pass that failed half way.
THEOREM PoolNeverExhausted ==
  ASSUME MaxExternal = 0
  PROVE  Spec => []NeverExhausted
<1>1. IInv /\ BlockInv => NeverExhausted
  BY EnoughBlocks
<1> QED
  BY <1>1, BlockInvariance, PTL

\* Every step that finds work runs somebody: Submit's rejections are exactly
\* what keeps the head of the queue, or the oldest running sequence, from
\* being too large for an empty pool.
THEOREM StepsAdvance ==
  ASSUME MaxExternal = 0
  PROVE  Spec => []StepAdvances
<1>1. IInv /\ BlockInv => StepAdvances
  BY DEF BlockInv
<1> QED
  BY <1>1, BlockInvariance, PTL

\* A victim always leaves an older running sequence behind, so the oldest is
\* never evicted.
THEOREM OldestSurvives ==
  ASSUME MaxExternal = 0
  PROVE  Spec => OldestKeepsRunning
<1> DEFINE Kept == \A r \in Ids : state[r] = "kRunning" /\ state'[r] = "kPreempted" =>
                     \E o \in Range(running) : o < r /\ state'[o] = "kRunning"
<1>1. (IInv /\ BlockInv) /\ [Next]_vars => [Kept]_vars
  <2> SUFFICES ASSUME IInv, BlockInv, Next, NEW r \in Ids, state[r] = "kRunning",
                      state'[r] = "kPreempted"
               PROVE  \E o \in Range(running) : o < r /\ state'[o] = "kRunning"
    OBVIOUS
  <2>1. state \in [Ids -> SeqState \cup {"none"}]
    BY DEF IInv, TypeOK
  <2>2. CASE ScheduleStep
    <3>1. PICK plan : plan = Schedule(waiting, running, PrefillLen, length, FreeBlocks)
      OBVIOUS
    <3>2. PICK P : P = plan.preempt
      OBVIOUS
    <3>3. PICK A : A = Range(plan.prefill)
      OBVIOUS
    <3>4. state' = Put(Put(state, P, "kPreempted"), A, "kRunning") /\ pc = "schedule"
      BY <2>2, <3>1, <3>2, <3>3 DEF ScheduleStep
    <3>5. \A q \in Ids : state'[q] = IF q \in A THEN "kRunning"
                                     ELSE IF q \in P THEN "kPreempted" ELSE state[q]
      BY <2>1, <3>4 DEF Put
    <3>6. r \in P
      BY <3>5
    <3>7. waiting \in Seq(Ids) /\ running \in Seq(Ids)
      BY DEF IInv, TypeOK
    <3>8. /\ P \subseteq Range(running)
          /\ Range(plan.decode) = Range(running) \ P
          /\ \A k \in Range(plan.decode), v \in P : k < v
          /\ plan.decode \in Seq(Ids)
      BY <3>1, <3>2, <3>7, ScheduleFacts
    <3>9. running # <<>>
      BY <3>6, <3>8, EmptyFacts
    <3>10. plan.decode # <<>>
      BY <3>1, <3>4, <3>9, DecisionAdvances
    <3>11. PICK o : o \in Range(plan.decode)
      <4>1. 1 \in DOMAIN plan.decode
        BY <3>8, <3>10
      <4> QED
        BY <4>1 DEF Range
    <3>12. o \in Range(running) /\ o \notin P /\ o < r /\ o \in Ids
      BY <3>6, <3>7, <3>8, <3>11, RangeType
    <3>13. state[o] = "kRunning"
      BY <3>4, <3>12 DEF IInv, QueuesPartitionLive, Boundary
    <3> QED
      BY <3>5, <3>12, <3>13
  <2>3. CASE RecoverEvict
    BY <2>3, NoEviction
  <2>4. CASE \E p \in PromptLens, m \in TokenLimits : Submit(p, m)
    BY <2>1, <2>4 DEF Submit
  <2>5. CASE Shutdown \/ RetireCancelled
    BY <2>1, <2>5 DEF Shutdown, RetireCancelled, Put
  <2>6. CASE DeliverRow \/ RecoverOk \/ RecoverFail
    BY <2>1, <2>6 DEF DeliverRow, RecoverOk, RecoverFail, DeliverSampled, FailRow
  <2>7. CASE UNCHANGED state
    BY <2>7
  <2> QED
    BY <2>2, <2>3, <2>4, <2>5, <2>6, <2>7
       DEF Next, EngineThread, Terminated, Cancel, Stop, NotifyEngine, Start, ExternalTake,
           ExternalGive, CheckStop, DrainCommands, IdleWait, ForwardOk, ForwardFails,
           RecoverSkip, BeginDecode, EndPasses, RetireTerminal, vars
<1>2. Spec => [][Kept]_vars
  BY <1>1, BlockInvariance, PTL DEF Spec
<1> QED
  BY <1>2 DEF OldestKeepsRunning

----------------------------------------------------------------------------
(* What clients can rely on: the runtime implements RequestStreams, a       *)
(* cancelled request gets at most one more token, and a sequence only ever  *)
(* moves along the transition table.  The last follows from IInv.  The      *)
(* other two need to know which requests were asked to stop: a mark is only *)
(* set for an id that some Cancel named after it was accepted (AskedInv),   *)
(* and until the mark is set the command that will set it is in the queue   *)
(* (MarkedInv).  The bound on late tokens then follows a request that has   *)
(* had its one token through the rest of the step: it is in neither pass's  *)
(* remaining work, and is marked when the next step retires what was        *)
(* cancelled (SpentInv).                                                    *)

\* Requests a queued cancel may name when its turn comes, and the ones that the
\* next drain will mark.
Known(i) == live \cup {commands[j].id : j \in {k \in At("submit") : k < i}}
Marks == {r \in Ids : \E i \in At("cancel") : commands[i].id = r /\ r \in Known(i)}

\* Nobody is marked, or about to be, whom no Cancel named after Submit.
AskedInv ==
  /\ \A r \in Ids : r >= nextId => cancelAt[r] = -1
  /\ \A r \in Ids : cancelRequested[r] => cancelAt[r] >= 0
  /\ \A r \in Marks : cancelAt[r] >= 0

\* A request in flight that was cancelled is marked, or about to be.
MarkedInv ==
  \A r \in live \cup Queued : cancelAt[r] >= 0 => cancelRequested[r] \/ r \in Marks

\* r got its one token after Cancel.
Spent(r) == cancelAt[r] >= 0 /\ Len(stream[r]) > cancelAt[r]

\* A spent request is out of the way until it is retired.
SpentInv ==
  \A r \in Ids : Spent(r) =>
    /\ r \in live /\ pc = "retire" => cancelRequested[r]
    /\ pc = "schedule" => r \notin live
    /\ pc \in Passing => r \notin Range(todo)
    /\ pc \in Passing /\ prefillPass => r \notin Range(decodeList)

\* Admitted sequences do not decode in the same step.
DisjointInv ==
  pc \in Passing /\ prefillPass => Range(todo) \cap Range(decodeList) = {}

\* A finished sequence has pushed a token.
FinishedInv == \A r \in Ids : state[r] = "kFinished" => stream[r] # <<>>

CInv ==
  /\ AskedInv
  /\ MarkedInv
  /\ SpentInv
  /\ DisjointInv
  /\ FinishedInv
  /\ CancelLatency

----------------------------------------------------------------------------
(* The queue of commands and the marks it will set. *)

\* A queued submit marks nobody; a queued cancel marks the request it names, if
\* that is live or queued before it.
LEMMA AppendMarks ==
  ASSUME commands \in Seq(Command), NEW c \in Command,
         commands' = Append(commands, c), live' = live
  PROVE  /\ c.op = "submit" => Marks' = Marks
         /\ c.op = "cancel" => Marks' = Marks \cup ({c.id} \cap (live \cup Queued))
<1> DEFINE n == Len(commands)
<1>1. /\ n \in Nat /\ DOMAIN commands = 1..n /\ DOMAIN commands' = 1..(n + 1)
      /\ \A i \in 1..n : commands'[i] = commands[i]
      /\ commands'[n + 1] = c
  OBVIOUS
<1>2. c.id \in Ids /\ c.op \in {"submit", "cancel"}
  BY DEF Command
<1> HIDE DEF n
<1>3. /\ \A i \in At("submit") : i \in 1..n /\ commands'[i] = commands[i]
      /\ \A i \in At("cancel") : i \in 1..n /\ commands'[i] = commands[i]
  BY <1>1 DEF At
<1>4. CASE c.op = "submit"
  <2>1. At("cancel")' = At("cancel") /\ At("submit")' = At("submit") \cup {n + 1}
    BY <1>1, <1>4 DEF At
  <2>2. \A i \in At("cancel"), j \in At("submit")' : j < i => j \in At("submit")
    BY <1>1, <1>3, <2>1
  <2>3. ASSUME NEW r \in Marks' PROVE r \in Marks
    <3>1. PICK i \in At("cancel") :
            /\ commands'[i].id = r
            /\ r \in live \/ \E j \in At("submit")' : j < i /\ commands'[j].id = r
      BY <2>1, <2>3 DEF Marks, Known
    <3>2. commands[i].id = r
      BY <1>3, <3>1
    <3>3. r \in live \/ \E j \in At("submit") : j < i /\ commands[j].id = r
      BY <1>3, <2>2, <3>1
    <3> QED
      BY <2>3, <3>2, <3>3 DEF Marks, Known
  <2>4. ASSUME NEW r \in Marks PROVE r \in Marks'
    <3>1. PICK i \in At("cancel") :
            /\ commands[i].id = r
            /\ r \in live \/ \E j \in At("submit") : j < i /\ commands[j].id = r
      BY <2>4 DEF Marks, Known
    <3>2. i \in At("cancel")' /\ commands'[i].id = r
      BY <1>3, <2>1, <3>1
    <3>3. r \in live \/ \E j \in At("submit")' : j < i /\ commands'[j].id = r
      BY <1>3, <2>1, <3>1
    <3> QED
      BY <2>4, <3>2, <3>3 DEF Marks, Known
  <2> QED
    BY <1>4, <2>3, <2>4
<1>5. CASE c.op = "cancel"
  <2>1. At("cancel")' = At("cancel") \cup {n + 1} /\ At("submit")' = At("submit")
    BY <1>1, <1>5 DEF At
  <2>2. \A r : r \in Queued <=> \E j \in At("submit") : commands[j].id = r
    BY Zenon DEF Queued
  <2>3. ASSUME NEW r \in Marks'
        PROVE  r \in Marks \cup ({c.id} \cap (live \cup Queued))
    <3>1. PICK i \in At("cancel")' :
            /\ commands'[i].id = r
            /\ r \in live \/ \E j \in At("submit") : j < i /\ commands'[j].id = r
      BY <2>1, <2>3 DEF Marks, Known
    <3>2. r \in Ids
      BY <2>3 DEF Marks
    <3>3. r \in live \/ \E j \in At("submit") : j < i /\ commands[j].id = r
      BY <1>3, <3>1
    <3>4. CASE i \in At("cancel")
      <4>1. commands[i].id = r
        BY <1>3, <3>1, <3>4
      <4> QED
        BY <3>2, <3>3, <3>4, <4>1 DEF Marks, Known
    <3>5. CASE i = n + 1
      BY <1>1, <2>2, <3>1, <3>3, <3>5
    <3> QED
      BY <2>1, <3>4, <3>5
  <2>4. ASSUME NEW r \in Marks PROVE r \in Marks'
    <3>1. PICK i \in At("cancel") :
            /\ commands[i].id = r
            /\ r \in live \/ \E j \in At("submit") : j < i /\ commands[j].id = r
      BY <2>4 DEF Marks, Known
    <3>2. i \in At("cancel")' /\ commands'[i].id = r
      BY <1>3, <2>1, <3>1
    <3>3. r \in live \/ \E j \in At("submit")' : j < i /\ commands'[j].id = r
      BY <1>3, <2>1, <3>1
    <3> QED
      BY <2>4, <3>2, <3>3 DEF Marks, Known
  <2>5. ASSUME c.id \in live \cup Queued PROVE c.id \in Marks'
    <3>1. n + 1 \in At("cancel")' /\ commands'[n + 1].id = c.id
      BY <1>1, <2>1
    <3>2. c.id \in live' \/ \E j \in At("submit")' : j < n + 1 /\ commands'[j].id = c.id
      BY <1>1, <1>3, <2>1, <2>2, <2>5
    <3> QED
      BY <1>2, <3>1, <3>2 DEF Marks, Known
  <2> QED
    BY <1>5, <2>3, <2>4, <2>5
<1> QED
  BY <1>2, <1>4, <1>5

\* Retiring requests leaves the marks of those that stay.
LEMMA RetireMarks ==
  ASSUME IInv, UNCHANGED commands, live' \subseteq live
  PROVE  /\ Marks' \subseteq Marks
         /\ \A r \in live' \cup Queued : r \in Marks => r \in Marks'
<1>1. At("cancel")' = At("cancel") /\ At("submit")' = At("submit") /\ commands' = commands
  BY DEF At
<1>2. Marks' \subseteq Marks
  BY <1>1 DEF Marks, Known
<1>3. ASSUME NEW r \in live' \cup Queued, r \in Marks PROVE r \in Marks'
  <2>1. PICK i \in At("cancel") :
          /\ commands[i].id = r
          /\ r \in live \/ \E j \in At("submit") : j < i /\ commands[j].id = r
    BY <1>3 DEF Marks, Known
  <2>2. r \in live' \/ \E j \in At("submit") : j < i /\ commands[j].id = r
    BY <1>3, <2>1 DEF IInv, QueuedInv
  <2> QED
    BY <1>1, <1>3, <2>1, <2>2 DEF Marks, Known
<1> QED
  BY <1>2, <1>3

\* Marks are as they were when neither the queue nor the live set changes.
LEMMA SameMarks ==
  ASSUME UNCHANGED <<commands, live>>
  PROVE  Marks' = Marks /\ Queued' = Queued
BY DEF Marks, Known, Queued, At

\* An empty queue marks nobody.
LEMMA NoMarks ==
  ASSUME commands' = <<>>
  PROVE  Marks' = {} /\ Queued' = {}
<1>1. At("cancel")' = {}
  BY DEF At
<1> QED
  BY <1>1, QueueEmptied DEF Marks

----------------------------------------------------------------------------
(* What the actions that clients can notice do. *)

\* A delivered row either fails its sequence or pushes the next token.
LEMMA RowEffect ==
  ASSUME IInv, DeliverRow \/ RecoverOk, NEW r, r = Head(todo)
  PROVE  /\ r \in Ids /\ r \in Range(todo) /\ pc \in {"rows", "recover"}
         /\ state[r] = "kRunning" /\ r < nextId /\ closed[r] = "open"
         /\ Range(todo') = Range(todo) \ {r}
         /\ UNCHANGED <<nextId, commands, stopRequested, pc, live, cancelRequested,
                        decodeList, prefillPass, limit, closed, cancelAt>>
         /\ \/ /\ stream' = stream
               /\ state' = [state EXCEPT ![r] = "kFailed"]
            \/ /\ stream' = [stream EXCEPT ![r] = Append(@, Len(@) + 1)]
               /\ Len(stream[r]) < limit[r]
               /\ state' = [state EXCEPT ![r] = "kFinished"] \/ state' = state
<1>1. /\ pc \in {"rows", "recover"} /\ todo # <<>> /\ todo' = Tail(todo)
      /\ UNCHANGED <<nextId, commands, stopRequested, pc, live, cancelRequested,
                     decodeList, prefillPass, limit, closed, cancelAt>>
      /\ \E len : DeliverSampled(r, len) \/ FailRow(r)
  BY DEF DeliverRow, RecoverOk, clientVars, queueVars
<1>2. /\ r \in Ids /\ r \in Range(todo)
      /\ Range(todo') = Range(todo) \ {r}
  BY <1>1, TailFacts DEF IInv, TypeOK, PassInv
<1>3. state[r] = "kRunning"
  BY <1>2 DEF DeliverRow, RecoverOk, IInv, PassInv
<1>4. r < nextId /\ closed[r] = "open"
  <2>1. r \in live
    BY <1>2, <1>3, RunningListed DEF IInv, QueuesPartitionLive
  <2> QED
    BY <2>1 DEF IInv, StateInv
<1>5. Len(stream[r]) < limit[r] /\ stream[r] \in Seq(Int) /\ stream \in [Ids -> Seq(Int)]
  BY <1>2, <1>3 DEF IInv, ProgressInv, TypeOK
<1>6. \/ /\ stream' = stream
         /\ state' = [state EXCEPT ![r] = "kFailed"]
      \/ /\ \E x : stream' = [stream EXCEPT ![r] = Append(@, x)]
         /\ state' = [state EXCEPT ![r] = "kFinished"] \/ state' = state
  BY <1>1 DEF DeliverSampled, FailRow
<1>7. ASSUME NEW x, stream' = [stream EXCEPT ![r] = Append(@, x)]
      PROVE  x = Len(stream[r]) + 1
  <2> DEFINE n == Len(stream[r])
  <2>1. IInv'
    BY RowInv
  <2>2. stream'[r] = Append(stream[r], x) /\ stream'[r] \in Seq(Int)
    BY <1>2, <1>5, <1>7, <2>1 DEF IInv, TypeOK
  <2>3. n \in Nat /\ Len(stream'[r]) = n + 1 /\ stream'[r][n + 1] = x
    BY <1>5, <2>2
  <2>4. stream'[r] = [i \in 1..Len(stream'[r]) |-> i]
    BY <1>2, <2>1 DEF IInv, StreamsInOrder
  <2> HIDE DEF n
  <2>5. stream'[r][n + 1] = n + 1
    BY <2>3, <2>4
  <2> QED
    BY <2>3, <2>5 DEF n
<1> QED
  BY <1>1, <1>2, <1>3, <1>4, <1>5, <1>6, <1>7

\* RetireCancelled ends marked requests only.
LEMMA RetireCancelledEffect ==
  ASSUME IInv, RetireCancelled
  PROVE  \E C \in SUBSET live :
           /\ C = {r \in live : cancelRequested[r]}
           /\ \A r \in C : state[r] \in {"kWaiting", "kPreempted", "kRunning"}
           /\ live' = live \ C
           /\ \A r \in Ids : state'[r] = IF r \in C THEN "kCancelled" ELSE state[r]
           /\ \A r \in Ids : closed'[r] = IF r \in C THEN "kCancelled" ELSE closed[r]
           /\ pc = "retire" /\ pc' \in {"idle", "schedule"}
           /\ UNCHANGED <<nextId, commands, stopRequested, cancelRequested, limit, stream,
                          cancelAt>>
<1> DEFINE C == {r \in live : cancelRequested[r] /\ state[r] \notin Terminal}
<1>1. /\ state' = Put(state, C, "kCancelled")
      /\ closed' = [r \in Ids |-> IF r \in C /\ closed[r] = "open"
                                  THEN "kCancelled" ELSE closed[r]]
      /\ live' = live \ C /\ pc = "retire" /\ pc' \in {"idle", "schedule"}
      /\ UNCHANGED <<nextId, commands, stopRequested, cancelRequested, limit, stream,
                     cancelAt>>
  BY DEF RetireCancelled, clientVars
<1>2. \A r \in live : state[r] \in {"kWaiting", "kPreempted", "kRunning"}
  BY <1>1, BoundaryLive DEF Boundary
<1>3. \A r \in live : closed[r] = "open"
  BY DEF IInv, StateInv
<1>4. C \in SUBSET live /\ C = {r \in live : cancelRequested[r]}
  BY <1>2 DEF Terminal
<1>5. \A r \in C : closed[r] = "open" /\ state[r] \in {"kWaiting", "kPreempted", "kRunning"}
  BY <1>2, <1>3
<1> HIDE DEF C
<1>6. \A r \in Ids : state'[r] = IF r \in C THEN "kCancelled" ELSE state[r]
  BY <1>1 DEF Put, IInv, TypeOK
<1>7. \A r \in Ids : closed'[r] = IF r \in C THEN "kCancelled" ELSE closed[r]
  BY <1>1, <1>5
<1> QED
  BY <1>1, <1>4, <1>5, <1>6, <1>7

\* Shutdown ends everything that is queued or live.
LEMMA ShutdownEffect ==
  ASSUME IInv, Shutdown
  PROVE  \E C \in SUBSET (live \cup Queued) :
           /\ \A r \in C : state[r] \in {"kWaiting", "kPreempted", "kRunning"}
           /\ \A r \in C : r < nextId /\ closed[r] = "open"
           /\ \A r \in Ids : state'[r] = IF r \in C THEN "kCancelled" ELSE state[r]
           /\ \A r \in Ids : closed'[r] = IF r \in C THEN "kCancelled" ELSE closed[r]
           /\ stopRequested /\ live' = {} /\ commands' = <<>> /\ pc' = "down"
           /\ UNCHANGED <<nextId, stopRequested, cancelRequested, limit, stream, cancelAt>>
<1> DEFINE C == Queued \cup {r \in live : state[r] \notin Terminal}
<1>1. /\ state' = Put(state, C, "kCancelled")
      /\ closed' = [r \in Ids |-> IF r \in C /\ closed[r] = "open"
                                  THEN "kCancelled" ELSE closed[r]]
      /\ stopRequested /\ live' = {} /\ commands' = <<>> /\ pc \in {"exited", "new"}
      /\ pc' = "down"
      /\ UNCHANGED <<nextId, stopRequested, cancelRequested, limit, stream, cancelAt>>
  BY DEF Shutdown, Queued
<1>2. \A r \in live : /\ state[r] \in {"kWaiting", "kPreempted", "kRunning"}
                      /\ r < nextId /\ closed[r] = "open"
  BY <1>1, BoundaryLive DEF Boundary, IInv, StateInv
<1>3. \A r \in C : /\ state[r] \in {"kWaiting", "kPreempted", "kRunning"}
                   /\ r < nextId /\ closed[r] = "open"
  BY <1>2 DEF IInv, QueuedInv
<1>4. C \in SUBSET (live \cup Queued)
  OBVIOUS
<1> HIDE DEF C
<1>5. \A r \in Ids : state'[r] = IF r \in C THEN "kCancelled" ELSE state[r]
  BY <1>1 DEF Put, IInv, TypeOK
<1>6. \A r \in Ids : closed'[r] = IF r \in C THEN "kCancelled" ELSE closed[r]
  BY <1>1, <1>3
<1> QED
  BY <1>1, <1>3, <1>4, <1>5, <1>6

\* RetireTerminal ends what finished or failed, as what it is.
LEMMA RetireTerminalEffect ==
  ASSUME IInv, RetireTerminal
  PROVE  \E T \in SUBSET live :
           /\ \A r \in T : /\ state[r] \in {"kFinished", "kFailed"}
                           /\ r < nextId /\ closed[r] = "open"
           /\ live' = live \ T
           /\ \A r \in Ids : closed'[r] = IF r \in T THEN state[r] ELSE closed[r]
           /\ pc' = "top"
           /\ UNCHANGED <<nextId, commands, stopRequested, cancelRequested, state, limit,
                          stream, cancelAt>>
<1> DEFINE T == {r \in Range(running) : state[r] \in Terminal}
<1>1. /\ closed' = [r \in Ids |-> IF r \in T /\ closed[r] = "open"
                                  THEN state[r] ELSE closed[r]]
      /\ live' = live \ T /\ pc' = "top"
      /\ UNCHANGED <<nextId, commands, stopRequested, cancelRequested, state, limit,
                     stream, cancelAt>>
  BY DEF RetireTerminal, clientVars
<1>2. \A r \in T : /\ r \in live /\ state[r] \in {"kFinished", "kFailed"}
                   /\ r < nextId /\ closed[r] = "open"
  BY DEF IInv, QueuesPartitionLive, StateInv, Terminal
<1>3. T \in SUBSET live
  BY <1>2
<1> HIDE DEF T
<1>4. \A r \in Ids : closed'[r] = IF r \in T THEN state[r] ELSE closed[r]
  BY <1>1, <1>2
<1> QED
  BY <1>1, <1>2, <1>3, <1>4

\* ScheduleStep runs live sequences only: admitted ones wait, victims and the
\* decode list run.
LEMMA ScheduleEffect ==
  ASSUME IInv, ScheduleStep
  PROVE  \E A \in SUBSET Range(waiting), P \in SUBSET Range(running) :
           /\ \A r \in A : state[r] \in {"kWaiting", "kPreempted"}
           /\ \A r \in Range(running) : state[r] = "kRunning"
           /\ \A r \in Ids : state'[r] = IF r \in A THEN "kRunning"
                                         ELSE IF r \in P THEN "kPreempted" ELSE state[r]
           /\ Range(todo') = A /\ Range(decodeList') = Range(running) \ P
           /\ \A k \in Range(decodeList'), v \in P : k < v
           /\ A \cap Range(running) = {} /\ A \subseteq live /\ Range(running) \subseteq live
           /\ pc = "schedule" /\ pc' = "forward"
           /\ UNCHANGED <<nextId, commands, stopRequested, live, cancelRequested, limit,
                          stream, closed, cancelAt>>
<1> DEFINE plan == Schedule(waiting, running, PrefillLen, length, FreeBlocks)
           P == plan.preempt
           A == Range(plan.prefill)
<1>1. /\ decodeList' = plan.decode /\ todo' = plan.prefill
      /\ state' = Put(Put(state, P, "kPreempted"), A, "kRunning")
      /\ pc = "schedule" /\ pc' = "forward"
      /\ UNCHANGED <<nextId, commands, stopRequested, live, cancelRequested, limit,
                     stream, closed, cancelAt>>
  BY DEF ScheduleStep, clientVars, chanVars
<1>2. waiting \in Seq(Ids) /\ running \in Seq(Ids)
  BY DEF IInv, TypeOK
<1>3. /\ P \subseteq Range(running)
      /\ Range(plan.decode) = Range(running) \ P
      /\ \A k \in Range(plan.decode), v \in P : k < v
      /\ \E n \in 0..Len(waiting) : plan.prefill = SubSeq(waiting, 1, n)
  BY <1>2, ScheduleFacts
<1> HIDE DEF plan
<1>4. A \subseteq Range(waiting)
  BY <1>2, <1>3, PrefixFacts
<1>5. /\ \A r \in Range(waiting) : state[r] \in {"kWaiting", "kPreempted"}
      /\ \A r \in Range(running) : state[r] = "kRunning"
      /\ Range(waiting) \cap Range(running) = {}
      /\ Range(waiting) \cup Range(running) = live
  BY <1>1, BoundaryLive DEF IInv, QueuesPartitionLive, Boundary
<1>6. Range(todo') = A /\ Range(decodeList') = Range(running) \ P
  BY <1>1, <1>3
<1> HIDE DEF A, P
<1>7. \A r \in Ids : state'[r] = IF r \in A THEN "kRunning"
                                 ELSE IF r \in P THEN "kPreempted" ELSE state[r]
  BY <1>1 DEF Put, IInv, TypeOK
<1>8. \A k \in Range(decodeList'), v \in P : k < v
  BY <1>1, <1>3
<1> A \in SUBSET Range(waiting) /\ P \in SUBSET Range(running)
  BY <1>3, <1>4 DEF P
<1>9. A \cap Range(running) = {} /\ A \subseteq live /\ Range(running) \subseteq live
  BY <1>4, <1>5
<1>10. \A r \in A : state[r] \in {"kWaiting", "kPreempted"}
  BY <1>4, <1>5
<1> WITNESS A \in SUBSET Range(waiting), P \in SUBSET Range(running)
<1> QED
  BY <1>1, <1>5, <1>6, <1>7, <1>8, <1>9, <1>10

----------------------------------------------------------------------------
(* The transition table. *)

\* Every state change of a sequence is an edge of the table.
LEMMA LegalStep ==
  ASSUME IInv, [Next]_vars, NEW r \in Ids, state'[r] # state[r]
  PROVE  IsLegalTransition(state[r], state'[r])
<1> USE DEF IsLegalTransition, Terminal
<1>0. state \in [Ids -> SeqState \cup {"none"}]
  BY DEF IInv, TypeOK
<1>1. ASSUME NEW p \in PromptLens, NEW m \in TokenLimits, Submit(p, m)
      PROVE  IsLegalTransition(state[r], state'[r])
  <2>1. state[nextId] = "none" /\ state' = [state EXCEPT ![nextId] = "kWaiting"]
    BY <1>1 DEF Submit, IInv, StateInv, TypeOK
  <2> QED
    BY <1>0, <2>1
<1>2. CASE Shutdown
  BY <1>2, ShutdownEffect
<1>3. CASE RetireCancelled
  BY <1>3, RetireCancelledEffect
<1>4. CASE ScheduleStep
  BY <1>4, ScheduleEffect
<1>5. CASE DeliverRow \/ RecoverOk
  <2>1. /\ state[Head(todo)] = "kRunning"
        /\ \E t \in {"kFailed", "kFinished", "kRunning"} :
             state' = [state EXCEPT ![Head(todo)] = t]
    <3>1. \/ state' = [state EXCEPT ![Head(todo)] = "kFailed"]
          \/ state' = [state EXCEPT ![Head(todo)] = "kFinished"]
          \/ state' = state
      BY <1>5, RowEffect
    <3>2. state[Head(todo)] = "kRunning" /\ state = [state EXCEPT ![Head(todo)] = "kRunning"]
      BY <1>0, <1>5, RowEffect
    <3> QED
      BY <3>1, <3>2
  <2> QED
    BY <1>0, <2>1
<1>6. CASE RecoverFail
  BY <1>0, <1>6 DEF RecoverFail
<1>7. CASE RecoverEvict
  <2> DEFINE v == PickPreemptionVictim(Head(todo))
  <2>1. state' = [state EXCEPT ![v] = "kPreempted"] /\ Victims(Head(todo)) # {}
    BY <1>7 DEF RecoverEvict
  <2>2. state[v] = "kRunning"
    BY <2>1, VictimFacts DEF Victims
  <2> HIDE DEF v
  <2> QED
    BY <1>0, <2>1, <2>2
<1>8. CASE UNCHANGED state
  BY <1>8
<1> QED
  BY <1>1, <1>2, <1>3, <1>4, <1>5, <1>6, <1>7, <1>8
     DEF Next, EngineThread, Terminated, Cancel, Stop, NotifyEngine, Start, ExternalTake,
         ExternalGive, CheckStop, DrainCommands, IdleWait, ForwardOk, ForwardFails,
         RecoverSkip, BeginDecode, EndPasses, RetireTerminal, vars

\* Sequence::Transition's CHECK never fires.
THEOREM TransitionsLegal == Spec => LegalTransitions
<1>1. IInv /\ [Next]_vars =>
        [\A r \in Ids : state'[r] # state[r] => IsLegalTransition(state[r], state'[r])]_vars
  BY LegalStep
<1> QED
  BY <1>1, Invariance, PTL DEF Spec, LegalTransitions

----------------------------------------------------------------------------
(* Cancellation. *)

\* No mark is due and nobody has had a late token at the start.
LEMMA InitCInv == Init => CInv
<1> SUFFICES ASSUME Init PROVE CInv
  OBVIOUS
<1>1. Marks = {} /\ Queued = {}
  BY DEF Init, Marks, Queued, At
<1>2. AskedInv /\ MarkedInv /\ SpentInv /\ CancelLatency
  BY <1>1 DEF Init, AskedInv, MarkedInv, SpentInv, Spent, CancelLatency
<1>3. DisjointInv /\ FinishedInv
  BY DEF Init, DisjointInv, FinishedInv, Passing
<1> QED
  BY <1>2, <1>3 DEF CInv

\* Who was asked, and who is marked or will be, changes with the command queue
\* and with the live set only.
LEMMA AskFrame ==
  ASSUME CInv, UNCHANGED <<nextId, commands, live, cancelRequested, cancelAt>>
  PROVE  AskedInv' /\ MarkedInv'
<1>1. Marks' = Marks /\ Queued' = Queued
  BY SameMarks
<1> QED
  BY <1>1 DEF CInv, AskedInv, MarkedInv

\* Retiring requests keeps both.
LEMMA AskRetire ==
  ASSUME IInv, CInv, live' \subseteq live,
         UNCHANGED <<nextId, commands, cancelRequested, cancelAt>>
  PROVE  AskedInv' /\ MarkedInv'
<1>1. Queued' = Queued
  BY QueueKept
<1> QED
  BY <1>1, RetireMarks DEF CInv, AskedInv, MarkedInv

\* The requests in flight after a step, who was asked to stop and who is or will
\* be marked, agree again.
LEMMA AskStep ==
  ASSUME IInv, CInv, [Next]_vars
  PROVE  AskedInv' /\ MarkedInv'
<1>0. /\ commands \in Seq(Command) /\ live \subseteq Ids /\ Queued \subseteq Ids
      /\ cancelAt \in [Ids -> Nat \cup {-1}] /\ nextId \in Nat
      /\ cancelRequested \in [Ids -> BOOLEAN]
  BY QueuedIds DEF IInv, TypeOK
<1>1. ASSUME NEW p \in PromptLens, NEW m \in TokenLimits, Submit(p, m)
      PROVE  AskedInv' /\ MarkedInv'
  <2> DEFINE c == [op |-> "submit", id |-> nextId]
  <2>1. /\ nextId \in Ids /\ nextId' = nextId + 1 /\ commands' = Append(commands, c)
        /\ UNCHANGED <<live, cancelRequested, cancelAt>>
    BY <1>1 DEF Submit, queueVars
  <2>2. c \in Command /\ c.op = "submit" /\ c.id = nextId
    BY <2>1 DEF Command
  <2>3. Marks' = Marks
    BY <1>0, <2>1, <2>2, AppendMarks
  <2>4. nextId \notin Queued
    BY <1>0 DEF IInv, QueuedInv
  <2>5. Queued' = Queued \cup {nextId}
    BY <1>0, <2>1, <2>2, <2>4, AppendCommand DEF IInv, QueuedInv
  <2>6. cancelAt[nextId] = -1
    BY <1>0, <2>1 DEF CInv, AskedInv
  <2>7. AskedInv'
    BY <1>0, <2>1, <2>3 DEF CInv, AskedInv, Ids
  <2>8. MarkedInv'
    BY <2>1, <2>3, <2>5, <2>6 DEF CInv, MarkedInv
  <2> QED
    BY <2>7, <2>8
<1>2. ASSUME NEW r \in Ids, Cancel(r) PROVE AskedInv' /\ MarkedInv'
  <2> DEFINE c == [op |-> "cancel", id |-> r]
  <2>1. /\ commands' = Append(commands, c)
        /\ UNCHANGED <<nextId, live, cancelRequested>>
        /\ cancelAt' = IF r < nextId /\ cancelAt[r] = -1
                       THEN [cancelAt EXCEPT ![r] = Len(stream[r])]
                       ELSE cancelAt
    BY <1>2 DEF Cancel, queueVars
  <2>2. c \in Command /\ c.op = "cancel" /\ c.id = r
    BY DEF Command
  <2>3. Marks' = Marks \cup ({r} \cap (live \cup Queued))
    BY <1>0, <2>1, <2>2, AppendMarks
  <2>4. Queued' = Queued
    BY <1>0, <2>1, <2>2, AppendCommand DEF IInv, QueuedInv
  <2>5. Len(stream[r]) \in Nat
    BY DEF IInv, TypeOK
  <2>6. /\ \A q \in Ids : q # r => cancelAt'[q] = cancelAt[q]
        /\ \A q \in Ids : cancelAt[q] >= 0 => cancelAt'[q] = cancelAt[q]
        /\ r < nextId => cancelAt'[r] >= 0
        /\ r >= nextId => cancelAt' = cancelAt
    BY <1>0, <2>1, <2>5 DEF Ids
  <2>7. r \in live \cup Queued => r < nextId
    BY DEF IInv, StateInv, QueuedInv
  <2>8. AskedInv'
    <3>1. Marks \subseteq Ids
      BY DEF Marks
    <3>2. \A q \in Ids : q >= nextId => cancelAt'[q] = -1
      BY <1>0, <2>6 DEF CInv, AskedInv, Ids
    <3>3. \A q \in Ids : cancelRequested[q] => cancelAt'[q] >= 0
      BY <2>6 DEF CInv, AskedInv
    <3>4. \A q \in Marks' : cancelAt'[q] >= 0
      BY <2>3, <2>6, <2>7, <3>1 DEF CInv, AskedInv
    <3> QED
      BY <2>1, <3>2, <3>3, <3>4 DEF AskedInv
  <2>9. MarkedInv'
    BY <1>0, <2>1, <2>3, <2>4, <2>6 DEF CInv, MarkedInv
  <2> QED
    BY <2>8, <2>9
<1>3. CASE Shutdown
  <2>1. /\ live' = {} /\ commands' = <<>>
        /\ UNCHANGED <<nextId, cancelRequested, cancelAt>>
    BY <1>3, ShutdownEffect
  <2>2. Marks' = {} /\ Queued' = {}
    BY <2>1, NoMarks
  <2> QED
    BY <2>1, <2>2 DEF CInv, AskedInv, MarkedInv
<1>4. CASE DrainCommands
  <2>1. /\ live' = live \cup Queued /\ commands' = <<>>
        /\ cancelRequested' = Put(cancelRequested, Marks, TRUE)
        /\ UNCHANGED <<nextId, cancelAt>>
    BY <1>4 DEF DrainCommands, Queued, Marks, Known
  <2>2. Marks' = {} /\ Queued' = {}
    BY <2>1, NoMarks
  <2>3. \A r \in Ids : cancelRequested'[r] <=> r \in Marks \/ cancelRequested[r]
    BY <1>0, <2>1 DEF Put
  <2> QED
    BY <1>0, <2>1, <2>2, <2>3 DEF CInv, AskedInv, MarkedInv
<1>5. CASE RetireCancelled
  BY <1>5, RetireCancelledEffect, AskRetire
<1>6. CASE RetireTerminal
  BY <1>6, RetireTerminalEffect, AskRetire
<1>7. CASE UNCHANGED <<nextId, commands, live, cancelRequested, cancelAt>>
  BY <1>7, AskFrame
<1>8. CASE DeliverRow \/ RecoverOk
  BY <1>8, RowEffect, AskFrame
<1> QED
  BY <1>1, <1>2, <1>3, <1>4, <1>5, <1>6, <1>7, <1>8
     DEF Next, EngineThread, Terminated, Stop, NotifyEngine, Start, ExternalTake,
         ExternalGive, CheckStop, IdleWait, ScheduleStep, ForwardOk, ForwardFails,
         RecoverSkip, RecoverFail, RecoverEvict, BeginDecode, EndPasses, vars, clientVars,
         queueVars

\* A step that pushes nothing and makes nothing finish has only to keep spent
\* requests out of the way.
LEMMA SilentStep ==
  ASSUME CInv, UNCHANGED stream,
         \A r \in Ids : cancelAt'[r] = cancelAt[r] \/ cancelAt'[r] = Len(stream[r]),
         \A r \in Ids : Len(stream[r]) \in Nat,
         \A r \in Ids : state'[r] = "kFinished" => state[r] = "kFinished",
         \A r \in Ids : Spent(r) =>
           /\ r \in live' /\ pc' = "retire" => cancelRequested'[r]
           /\ pc' = "schedule" => r \notin live'
           /\ pc' \in Passing => r \notin Range(todo')
           /\ pc' \in Passing /\ prefillPass' => r \notin Range(decodeList')
  PROVE  SpentInv' /\ FinishedInv' /\ CancelLatency'
<1>1. \A r \in Ids : Spent(r)' => Spent(r)
  BY DEF Spent
<1>2. SpentInv'
  BY <1>1 DEF SpentInv
<1>3. FinishedInv' /\ CancelLatency'
  BY DEF CInv, FinishedInv, CancelLatency
<1> QED
  BY <1>2, <1>3

\* Spent requests stay out of the way, and nobody gets a second late token.
LEMMA SpentStep ==
  ASSUME IInv, CInv, [Next]_vars
  PROVE  SpentInv' /\ DisjointInv' /\ FinishedInv' /\ CancelLatency'
<1> DEFINE Goal == SpentInv' /\ DisjointInv' /\ FinishedInv' /\ CancelLatency'
<1>0. /\ \A r \in Ids : Len(stream[r]) \in Nat /\ stream[r] \in Seq(Int)
      /\ stream \in [Ids -> Seq(Int)] /\ state \in [Ids -> SeqState \cup {"none"}]
      /\ cancelAt \in [Ids -> Nat \cup {-1}]
      /\ live \subseteq Ids /\ Queued \subseteq Ids
      /\ cancelRequested \in [Ids -> BOOLEAN]
  BY QueuedIds DEF IInv, TypeOK
<1> USE DEF Passing
\* Steps that change neither what is live or marked, nor the pass, nor the streams.
<1>1. ASSUME UNCHANGED <<stream, live, cancelRequested, todo, prefillPass, decodeList>>,
             pc' = pc \/ pc' \notin {"retire", "schedule"} \cup Passing,
             \A r \in Ids : cancelAt'[r] = cancelAt[r] \/ cancelAt'[r] = Len(stream[r]),
             \A r \in Ids : state'[r] = "kFinished" => state[r] = "kFinished"
      PROVE  Goal
  <2>1. \A r \in Ids : Spent(r) =>
           /\ r \in live' /\ pc' = "retire" => cancelRequested'[r]
           /\ pc' = "schedule" => r \notin live'
           /\ pc' \in Passing => r \notin Range(todo')
           /\ pc' \in Passing /\ prefillPass' => r \notin Range(decodeList')
    BY <1>1 DEF CInv, SpentInv
  <2>2. DisjointInv'
    BY <1>1 DEF CInv, DisjointInv
  <2> QED
    BY <1>0, <1>1, <2>1, <2>2, SilentStep
<1>2. ASSUME NEW p \in PromptLens, NEW m \in TokenLimits, Submit(p, m) PROVE Goal
  <2>1. /\ UNCHANGED <<stream, live, cancelRequested, todo, prefillPass, decodeList, pc,
                       cancelAt>>
        /\ state' = [state EXCEPT ![nextId] = "kWaiting"]
    BY <1>2 DEF Submit, queueVars, passVars, chanVars
  <2>2. \A r \in Ids : state'[r] = "kFinished" => state[r] = "kFinished"
    BY <1>0, <2>1
  <2> QED
    BY <1>1, <2>1, <2>2
<1>3. ASSUME NEW q \in Ids, Cancel(q) PROVE Goal
  <2>1. /\ UNCHANGED <<stream, live, cancelRequested, todo, prefillPass, decodeList, pc,
                       state>>
        /\ \A r \in Ids : cancelAt'[r] = cancelAt[r] \/ cancelAt'[r] = Len(stream[r])
    BY <1>0, <1>3 DEF Cancel, queueVars, passVars, chanVars
  <2> QED
    BY <1>1, <2>1
<1>4. CASE Shutdown
  <2>1. /\ \A r \in Ids : state'[r] = "kFinished" => state[r] = "kFinished"
        /\ pc' = "down" /\ UNCHANGED <<stream, cancelAt>>
    BY <1>4, ShutdownEffect
  <2> QED
    BY <1>0, <2>1, SilentStep DEF DisjointInv
<1>5. CASE DrainCommands
  <2>1. /\ live' = live \cup Queued /\ pc' = "retire"
        /\ cancelRequested' = Put(cancelRequested, Marks, TRUE)
        /\ UNCHANGED <<stream, cancelAt, state>>
    BY <1>5 DEF DrainCommands, Queued, Marks, Known, chanVars
  <2>2. \A r \in Ids : cancelRequested'[r] <=> r \in Marks \/ cancelRequested[r]
    BY <1>0, <2>1 DEF Put
  <2>3. \A r \in Ids : Spent(r) /\ r \in live' => cancelRequested'[r]
    BY <2>1, <2>2 DEF CInv, MarkedInv, Spent
  <2> QED
    BY <1>0, <2>1, <2>3, SilentStep DEF DisjointInv
<1>6. CASE RetireCancelled
  <2>1. PICK C \in SUBSET live :
           /\ C = {r \in live : cancelRequested[r]}
           /\ live' = live \ C
           /\ \A r \in Ids : state'[r] = IF r \in C THEN "kCancelled" ELSE state[r]
           /\ pc = "retire" /\ pc' \in {"idle", "schedule"}
           /\ UNCHANGED <<stream, cancelAt>>
    BY <1>6, RetireCancelledEffect
  <2>2. \A r \in Ids : Spent(r) => r \notin live'
    BY <2>1 DEF CInv, SpentInv
  <2>3. \A r \in Ids : state'[r] = "kFinished" => state[r] = "kFinished"
    BY <2>1
  <2> QED
    BY <1>0, <2>1, <2>2, <2>3, SilentStep DEF DisjointInv
<1>7. CASE ScheduleStep
  <2>1. PICK A \in SUBSET Range(waiting), P \in SUBSET Range(running) :
           /\ \A r \in Ids : state'[r] = IF r \in A THEN "kRunning"
                                         ELSE IF r \in P THEN "kPreempted" ELSE state[r]
           /\ Range(todo') = A /\ Range(decodeList') = Range(running) \ P
           /\ A \cap Range(running) = {} /\ A \subseteq live /\ Range(running) \subseteq live
           /\ pc = "schedule" /\ pc' = "forward" /\ UNCHANGED <<stream, cancelAt, live>>
    BY <1>7, ScheduleEffect
  <2>2. \A r \in Ids : Spent(r) => r \notin Range(todo') /\ r \notin Range(decodeList')
    BY <2>1 DEF CInv, SpentInv
  <2>3. \A r \in Ids : state'[r] = "kFinished" => state[r] = "kFinished"
    BY <2>1
  <2>4. DisjointInv'
    BY <2>1 DEF DisjointInv
  <2> QED
    BY <1>0, <2>1, <2>2, <2>3, <2>4, SilentStep
<1>8. CASE DeliverRow \/ RecoverOk
  <2> DEFINE r == Head(todo)
  <2>1. /\ r \in Ids /\ r \in Range(todo) /\ pc \in Passing
        /\ Range(todo') = Range(todo) \ {r}
        /\ UNCHANGED <<pc, live, cancelRequested, decodeList, prefillPass, cancelAt>>
        /\ \/ /\ stream' = stream /\ state' = [state EXCEPT ![r] = "kFailed"]
           \/ /\ stream' = [stream EXCEPT ![r] = Append(@, Len(@) + 1)]
              /\ state' = [state EXCEPT ![r] = "kFinished"] \/ state' = state
    BY <1>8, RowEffect
  <2> HIDE DEF r
  <2>2. DisjointInv'
    BY <2>1 DEF CInv, DisjointInv
  <2>3. CASE stream' = stream /\ state' = [state EXCEPT ![r] = "kFailed"]
    <3>1. \A q \in Ids : state'[q] = "kFinished" => state[q] = "kFinished"
      BY <1>0, <2>3
    <3>2. \A q \in Ids : Spent(q) =>
             /\ q \notin Range(todo')
             /\ prefillPass' => q \notin Range(decodeList')
      BY <2>1 DEF CInv, SpentInv
    <3> QED
      BY <1>0, <2>1, <2>2, <2>3, <3>1, <3>2, SilentStep
  <2>4. CASE /\ stream' = [stream EXCEPT ![r] = Append(@, Len(@) + 1)]
             /\ state' = [state EXCEPT ![r] = "kFinished"] \/ state' = state
    <3>1. /\ \A q \in Ids \ {r} : stream'[q] = stream[q]
          /\ stream'[r] = Append(stream[r], Len(stream[r]) + 1)
      BY <1>0, <2>1, <2>4
    <3>2. Len(stream'[r]) = Len(stream[r]) + 1 /\ stream'[r] # <<>>
      <4> DEFINE t == stream[r]
      <4>1. t \in Seq(Int) /\ stream'[r] = Append(t, Len(t) + 1)
        BY <1>0, <2>1, <3>1
      <4> HIDE DEF t
      <4>2. Len(Append(t, Len(t) + 1)) = Len(t) + 1 /\ Len(t) \in Nat
        BY <4>1
      <4>3. Len(<<>>) = 0
        OBVIOUS
      <4> QED
        BY <4>1, <4>2, <4>3 DEF t
    <3>3. ~Spent(r)
      BY <2>1 DEF CInv, SpentInv
    <3>4. r \notin Range(todo') /\ (prefillPass' => r \notin Range(decodeList'))
      BY <2>1 DEF CInv, DisjointInv
    <3>5. \A q \in Ids \ {r} : Spent(q)' => Spent(q)
      BY <2>1, <3>1 DEF Spent
    <3>6. SpentInv'
      <4>1. \A q \in Ids : Spent(q)' => /\ q \notin Range(todo')
                                        /\ prefillPass' => q \notin Range(decodeList')
        BY <2>1, <3>4, <3>5 DEF CInv, SpentInv
      <4>2. pc' \notin {"retire", "schedule"}
        BY <2>1
      <4> QED
        BY <4>1, <4>2 DEF SpentInv
    <3>7. FinishedInv'
      BY <1>0, <2>1, <2>4, <3>1, <3>2 DEF CInv, FinishedInv
    <3>8. CancelLatency'
      <4>1. cancelAt[r] >= 0 => Len(stream'[r]) <= cancelAt[r] + 1
        BY <1>0, <2>1, <3>2, <3>3 DEF Spent
      <4> QED
        BY <2>1, <3>1, <4>1 DEF CInv, CancelLatency
    <3> QED
      BY <2>2, <3>6, <3>7, <3>8
  <2> QED
    BY <2>1, <2>3, <2>4
<1>9. CASE RecoverSkip \/ RecoverFail
  <2>1. /\ todo # <<>> /\ todo' = Tail(todo) /\ pc = "recover"
        /\ UNCHANGED <<pc, stream, live, cancelRequested, cancelAt, decodeList,
                       prefillPass>>
        /\ state' = state \/ state' = [state EXCEPT ![Head(todo)] = "kFailed"]
    BY <1>9 DEF RecoverSkip, RecoverFail, queueVars, seqVars, chanVars
  <2>2. Range(todo') \subseteq Range(todo)
    BY <2>1, TailFacts DEF IInv, TypeOK
  <2>3. \A r \in Ids : state'[r] = "kFinished" => state[r] = "kFinished"
    BY <1>0, <2>1
  <2>4. \A r \in Ids : Spent(r) => /\ r \notin Range(todo')
                                   /\ prefillPass' => r \notin Range(decodeList')
    BY <2>1, <2>2 DEF CInv, SpentInv
  <2>5. DisjointInv'
    BY <2>1, <2>2 DEF CInv, DisjointInv
  <2> QED
    BY <1>0, <2>1, <2>3, <2>4, <2>5, SilentStep
<1>10. CASE RecoverEvict
  <2>1. /\ UNCHANGED <<stream, live, cancelRequested, todo, prefillPass, decodeList, pc,
                       cancelAt>>
        /\ state' = [state EXCEPT ![PickPreemptionVictim(Head(todo))] = "kPreempted"]
    BY <1>10 DEF RecoverEvict, passVars, chanVars
  <2>2. \A r \in Ids : state'[r] = "kFinished" => state[r] = "kFinished"
    BY <1>0, <2>1
  <2> QED
    BY <1>1, <2>1, <2>2
<1>11. CASE BeginDecode
  <2>1. /\ pc \in Passing /\ prefillPass /\ prefillPass' = FALSE /\ pc' = "forward"
        /\ todo' = Filter(decodeList, {r \in Ids : state[r] = "kRunning"})
        /\ UNCHANGED <<stream, live, cancelRequested, cancelAt, state>>
    BY <1>11 DEF BeginDecode, queueVars, chanVars
  <2>2. Range(todo') \subseteq Range(decodeList)
    BY <2>1, FilterFacts DEF IInv, TypeOK
  <2>3. \A r \in Ids : Spent(r) => r \notin Range(todo')
    BY <2>1, <2>2 DEF CInv, SpentInv
  <2>4. DisjointInv'
    BY <2>1 DEF DisjointInv
  <2> QED
    BY <1>0, <2>1, <2>3, <2>4, SilentStep
<1>12. CASE RetireTerminal
  <2>1. pc' = "top" /\ UNCHANGED <<stream, cancelAt, state>>
    BY <1>12, RetireTerminalEffect
  <2> QED
    BY <1>0, <2>1, SilentStep DEF DisjointInv
<1>13. CASE ForwardOk \/ \E k \in 0..Len(todo) : ForwardFails(k)
  <2>1. /\ pc \in Passing /\ pc' \in Passing
        /\ UNCHANGED <<stream, live, cancelRequested, todo, prefillPass, decodeList,
                       cancelAt, state>>
    BY <1>13 DEF ForwardOk, ForwardFails, queueVars, chanVars
  <2>2. \A r \in Ids : Spent(r) => /\ r \notin Range(todo')
                                   /\ prefillPass' => r \notin Range(decodeList')
    BY <2>1 DEF CInv, SpentInv
  <2>3. DisjointInv'
    BY <2>1 DEF CInv, DisjointInv
  <2> QED
    BY <1>0, <2>1, <2>2, <2>3, SilentStep
<1>14. CASE /\ UNCHANGED <<stream, live, cancelRequested, todo, prefillPass, decodeList,
                           cancelAt, state>>
            /\ pc' = pc \/ pc' \notin {"retire", "schedule"} \cup Passing
  BY <1>1, <1>14
<1> QED
  BY <1>2, <1>3, <1>4, <1>5, <1>6, <1>7, <1>8, <1>9, <1>10, <1>11, <1>12, <1>13, <1>14
     DEF Next, EngineThread, Terminated, Stop, NotifyEngine, Start, ExternalTake,
         ExternalGive, CheckStop, IdleWait, EndPasses, vars, queueVars, passVars, chanVars

\* Cancellation bookkeeping is as stated in every reachable state.
LEMMA CancelInvariance == Spec => [](IInv /\ CInv)
<1>1. Init => IInv /\ CInv
  BY InitIInv, InitCInv
<1>2. IInv /\ CInv /\ [Next]_vars => (IInv /\ CInv)'
  BY StepInv, AskStep, SpentStep DEF CInv
<1> QED
  BY <1>1, <1>2, PTL DEF Spec

\* At most one more token is delivered after Cancel has returned.
THEOREM OneLateToken == Spec => []CancelLatency
<1>1. CInv => CancelLatency
  BY DEF CInv
<1> QED
  BY <1>1, CancelInvariance, PTL

----------------------------------------------------------------------------
(* The refinement. *)

\* The initial state is one of RequestStreams.
LEMMA StreamsInit == Init => Streams!Init
BY DEF Init, Streams!Init

\* A step that changes nothing clients can notice is a stutter.
LEMMA StreamsStutter ==
  ASSUME UNCHANGED <<nextId, limit, cancelAt, stopRequested, stream, closed>>
  PROVE  UNCHANGED Streams!svars
BY DEF Streams!svars

\* Steps that end open streams the way RequestStreams allows are its Close.
LEMMA StreamsClose ==
  ASSUME IInv, IInv', UNCHANGED <<nextId, limit, cancelAt, stopRequested, stream>>,
         \A r \in Ids : closed'[r] # closed[r] =>
           /\ r < nextId /\ closed[r] = "open"
           /\ \/ closed'[r] = "kFinished" /\ stream[r] # <<>>
              \/ closed'[r] = "kCancelled" /\ (cancelAt[r] >= 0 \/ stopRequested)
              \/ closed'[r] = "kFailed"
  PROVE  Streams!Next
<1>1. closed' \in [Ids -> Streams!Outcomes \cup {"open"}]
  BY DEF IInv, TypeOK, Streams!Outcomes, Terminal
<1>2. Streams!Close(closed')
  BY DEF Streams!Close, Streams!MayClose, Streams!Outcomes
<1> QED
  BY <1>1, <1>2 DEF Streams!Next

\* Every step of the runtime is a step of RequestStreams or a stutter.
LEMMA StreamsStep ==
  ASSUME IInv, CInv, IInv', [Next]_vars
  PROVE  [Streams!Next]_(Streams!svars)
<1>0. /\ nextId \in Nat /\ cancelAt \in [Ids -> Nat \cup {-1}]
      /\ live \subseteq Ids /\ Queued \subseteq Ids
  BY QueuedIds DEF IInv, TypeOK
<1>1. ASSUME NEW p \in PromptLens, NEW m \in TokenLimits, Submit(p, m)
      PROVE  Streams!Next
  <2>1. Streams!Accept(m)
    BY <1>1 DEF Streams!Accept, Submit, Accepts, chanVars
  <2> QED
    BY <2>1 DEF Streams!Next
<1>2. ASSUME NEW r \in Ids, Cancel(r)
      PROVE  Streams!Next \/ UNCHANGED Streams!svars
  <2>1. /\ UNCHANGED <<nextId, limit, stopRequested, stream, closed>>
        /\ cancelAt' = IF r < nextId /\ cancelAt[r] = -1
                       THEN [cancelAt EXCEPT ![r] = Len(stream[r])]
                       ELSE cancelAt
    BY <1>2 DEF Cancel, seqVars, chanVars
  <2>2. CASE r < nextId
    <3>1. Len(stream[r]) \in Nat
      BY DEF IInv, TypeOK
    <3>2. /\ cancelAt'[r] >= 0
          /\ \A q \in Ids \ {r} : cancelAt'[q] = cancelAt[q]
      BY <1>0, <2>1, <2>2, <3>1
    <3>3. {q \in Ids : cancelAt'[q] >= 0} = {q \in Ids : cancelAt[q] >= 0} \cup {r}
      BY <3>2
    <3>4. Streams!AskCancel(r)
      BY <2>1, <2>2, <3>3 DEF Streams!AskCancel
    <3> QED
      BY <3>4 DEF Streams!Next
  <2>3. CASE ~(r < nextId)
    BY <2>1, <2>3, StreamsStutter
  <2> QED
    BY <2>2, <2>3
<1>3. CASE Stop
  <2>1. Streams!AskStop
    BY <1>3 DEF Streams!AskStop, Stop, seqVars, chanVars
  <2> QED
    BY <2>1 DEF Streams!Next
<1>4. CASE Shutdown
  BY <1>4, ShutdownEffect, StreamsClose
<1>5. CASE RetireCancelled
  <2>1. PICK C \in SUBSET live :
           /\ C = {r \in live : cancelRequested[r]}
           /\ \A r \in Ids : closed'[r] = IF r \in C THEN "kCancelled" ELSE closed[r]
           /\ UNCHANGED <<nextId, stopRequested, limit, stream, cancelAt>>
    BY <1>5, RetireCancelledEffect
  <2>2. \A r \in C : r \in Ids /\ r < nextId /\ closed[r] = "open" /\ cancelAt[r] >= 0
    BY <1>0, <2>1 DEF IInv, StateInv, CInv, AskedInv
  <2> QED
    BY <2>1, <2>2, StreamsClose
<1>6. CASE RetireTerminal
  <2>1. PICK T \in SUBSET live :
           /\ \A r \in T : /\ state[r] \in {"kFinished", "kFailed"}
                           /\ r < nextId /\ closed[r] = "open"
           /\ \A r \in Ids : closed'[r] = IF r \in T THEN state[r] ELSE closed[r]
           /\ UNCHANGED <<nextId, stopRequested, limit, stream, cancelAt>>
    BY <1>6, RetireTerminalEffect
  <2>2. \A r \in Ids : r \in T /\ state[r] = "kFinished" => stream[r] # <<>>
    BY DEF CInv, FinishedInv
  <2> QED
    BY <2>1, <2>2, StreamsClose
<1>7. CASE DeliverRow \/ RecoverOk
  <2> DEFINE r == Head(todo)
  <2>1. /\ r \in Ids /\ r < nextId /\ closed[r] = "open"
        /\ UNCHANGED <<nextId, limit, cancelAt, stopRequested, closed>>
        /\ \/ stream' = stream
           \/ /\ stream' = [stream EXCEPT ![r] = Append(@, Len(@) + 1)]
              /\ Len(stream[r]) < limit[r]
    BY <1>7, RowEffect
  <2> HIDE DEF r
  <2>2. CASE stream' = stream
    BY <2>1, <2>2, StreamsStutter
  <2>3. CASE /\ stream' = [stream EXCEPT ![r] = Append(@, Len(@) + 1)]
             /\ Len(stream[r]) < limit[r]
    <3>1. Streams!Emit(r)
      BY <2>1, <2>3 DEF Streams!Emit
    <3> QED
      BY <2>1, <3>1 DEF Streams!Next
  <2> QED
    BY <2>1, <2>2, <2>3
<1>8. CASE UNCHANGED <<nextId, limit, cancelAt, stopRequested, stream, closed>>
  BY <1>8, StreamsStutter
<1> QED
  BY <1>1, <1>2, <1>3, <1>4, <1>5, <1>6, <1>7, <1>8
     DEF Next, EngineThread, Terminated, NotifyEngine, Start, ExternalTake,
         ExternalGive, CheckStop, DrainCommands, IdleWait, ScheduleStep, ForwardOk,
         ForwardFails, RecoverSkip, RecoverFail, RecoverEvict, BeginDecode, EndPasses,
         vars, clientVars, seqVars, chanVars

\* Scheduling, preemption, batching, recovery and shutdown together give every
\* client the stream RequestStreams promises.
THEOREM StreamsImplemented == Spec => ImplementsStreams
<1>1. IInv /\ CInv /\ IInv' /\ [Next]_vars => [Streams!Next]_(Streams!svars)
  BY StreamsStep
<1> QED
  BY <1>1, StreamsInit, CancelInvariance, PTL DEF Spec, ImplementsStreams, Streams!Spec
=============================================================================
