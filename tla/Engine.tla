------------------------------- MODULE Engine -------------------------------
(***************************************************************************)
(* The continuously batched runtime: client threads call Submit, Cancel    *)
(* and Stop, which only touch the command queue and the stop flag under a  *)
(* mutex; one engine thread owns everything else and runs the step loop    *)
(* (drain, retire cancelled, schedule, prefill pass, decode pass, retire   *)
(* terminal).  The engine thread takes one action of this module per piece *)
(* of the loop between two points where it touches shared data.            *)
(*                                                                         *)
(* Data abstraction.  Only lengths matter: of a prompt, of what was        *)
(* generated, and of a sequence's KV cache, which holds BlocksFor(length)  *)
(* blocks of the pool (PagedKvCache checks that).  The token a forward     *)
(* yields is a function of the context it ran on, so it is named by its    *)
(* place in the sequence: a forward that leaves the cache at length L      *)
(* yields token L - prompt + 1.  A cache that is out of step with what was *)
(* generated therefore shows up as a wrong token in the stream.            *)
(* preemption_count_, error messages and logprobs are left out.            *)
(***************************************************************************)
EXTENDS Scheduler

CONSTANTS
  NumBlocks,       \* blocks of the pool
  MaxModelLen,     \* max_model_len_, resolved at Create
  MaxRequests,     \* bound: requests submitted in a run
  PromptLens,      \* prompt lengths a client may send (0: an empty prompt)
  TokenLimits,     \* max_tokens a client may send
  MaxCancels,      \* bound: Cancel calls in a run
  MaxExternal,     \* blocks another user of the pool may hold
  Faults           \* TRUE: forward, sampler and detokenizer may fail

Ids == 1..MaxRequests

\* Engine::Create's checks, on what the model keeps of the configuration.
ValidConfig ==
  /\ NumBlocks \in Nat \ {0}
  /\ MaxModelLen \in Nat \ {0}

ASSUME EngineAssumption ==
  /\ ValidConfig
  /\ MaxRequests \in Nat
  /\ PromptLens \in SUBSET Nat
  /\ TokenLimits \in SUBSET Nat
  /\ MaxCancels \in Nat
  /\ MaxExternal \in Nat
  /\ Faults \in BOOLEAN

VARIABLES
  \* shared with client threads, under cmd_mu_
  nextId,            \* next_id_ (and next_arrival_, which moves with it)
  commands,          \* commands_
  stopRequested,     \* stop_requested_
  notify,            \* a cmd_cv_ notification is still to be issued
  cancels,           \* Cancel calls so far (bound)
  \* engine thread
  pc,                \* where the thread is
  live,              \* keys of requests_
  waiting,           \* waiting_
  running,           \* running_
  cancelRequested,   \* Entry::cancel_requested
  decodeList,        \* out.decode of this step
  prefillPass,       \* RunBatchPass's argument
  todo,              \* the members of pass_entries_ still to be handled
  preLen,            \* pass_pre_len_, by id
  \* per sequence
  state,             \* Sequence::state_
  prompt,            \* length of prompt_ids
  limit,             \* params.max_tokens
  generated,         \* num_generated()
  length,            \* the cache's length (0: no cache, or an empty one)
  computed,          \* num_computed_tokens_
  \* what clients see
  stream,            \* tokens pushed to the channel
  closed,            \* "open", or the terminal state it was closed with
  \* pool and history
  external,          \* blocks held by another user of the pool
  cancelAt           \* length of the stream when Cancel was first called

clientVars == <<nextId, commands, stopRequested, notify, cancels>>
queueVars  == <<live, waiting, running, cancelRequested>>
passVars   == <<decodeList, prefillPass, todo, preLen>>
seqVars    == <<prompt, limit, generated, length, computed>>
chanVars   == <<stream, closed>>
vars == <<clientVars, pc, queueVars, passVars, state, seqVars, chanVars,
          external, cancelAt>>

Terminal == {"kFinished", "kCancelled", "kFailed"}
SeqState == {"kWaiting", "kRunning", "kPreempted"} \cup Terminal

\* The transition table of request.h; "none" is a request not yet created.
IsLegalTransition(from, to) ==
  \/ from = "none" /\ to = "kWaiting"
  \/ from \in {"kWaiting", "kPreempted"} /\ to \in {"kRunning", "kCancelled"}
  \/ from = "kRunning" /\ to \in {"kRunning", "kPreempted"} \cup Terminal

\* f with the value v at every point of S.
Put(f, S, v) == [r \in DOMAIN f |-> IF r \in S THEN v ELSE f[r]]

\* BlockPool::free_blocks().
FreeBlocks == NumBlocks - external - BlocksHeld(Ids, length)

Init ==
  /\ nextId = 1 /\ commands = <<>> /\ stopRequested = FALSE
  /\ notify = FALSE /\ cancels = 0
  /\ pc = "new"
  /\ live = {} /\ waiting = <<>> /\ running = <<>>
  /\ cancelRequested = [r \in Ids |-> FALSE]
  /\ decodeList = <<>> /\ prefillPass = TRUE /\ todo = <<>>
  /\ preLen = [r \in Ids |-> 0]
  /\ state = [r \in Ids |-> "none"]
  /\ prompt = [r \in Ids |-> 0] /\ limit = [r \in Ids |-> 0]
  /\ generated = [r \in Ids |-> 0] /\ length = [r \in Ids |-> 0]
  /\ computed = [r \in Ids |-> 0]
  /\ stream = [r \in Ids |-> <<>>] /\ closed = [r \in Ids |-> "open"]
  /\ external = 0
  /\ cancelAt = [r \in Ids |-> -1]
----------------------------------------------------------------------------
(* Client threads. *)

\* The longest a request of p prompt and m new tokens can get: the last token
\* produced is never appended.
Peak(p, m) == p + (IF m > 0 THEN m - 1 ELSE 0)

\* Mutant: nobody compares the request with the pool's capacity.
AcceptsBeyondPool(p, m) ==
  p > 0 /\ Peak(p, m) <= MaxBatchedTokens /\ Peak(p, m) <= MaxModelLen /\ m > 0
    /\ ~stopRequested

\* Submit's rejections.  m > 0 is Sequence::Create's parameter validation.
Accepts(p, m) ==
  /\ p > 0
  /\ Peak(p, m) <= MaxBatchedTokens
  /\ Peak(p, m) <= MaxModelLen
  /\ Peak(p, m) <= NumBlocks * BlockSize
  /\ m > 0
  /\ ~stopRequested

Submit(p, m) ==
  /\ nextId \in Ids
  /\ Accepts(p, m)
  /\ commands' = Append(commands, [op |-> "submit", id |-> nextId])
  /\ nextId' = nextId + 1
  /\ prompt' = [prompt EXCEPT ![nextId] = p]
  /\ limit' = [limit EXCEPT ![nextId] = m]
  /\ state' = [state EXCEPT ![nextId] = "kWaiting"]
  /\ notify' = TRUE
  /\ UNCHANGED <<stopRequested, cancels, pc, queueVars, passVars, generated,
                 length, computed, chanVars, external, cancelAt>>

\* Any id may be named: one in flight, one long retired, one never submitted.
Cancel(r) ==
  /\ cancels < MaxCancels
  /\ cancels' = cancels + 1
  /\ commands' = Append(commands, [op |-> "cancel", id |-> r])
  /\ notify' = TRUE
  /\ cancelAt' = IF r < nextId /\ cancelAt[r] = -1
                 THEN [cancelAt EXCEPT ![r] = Len(stream[r])]
                 ELSE cancelAt
  /\ UNCHANGED <<nextId, stopRequested, pc, queueVars, passVars, state, seqVars,
                 chanVars, external>>

\* Stop up to its join.
Stop ==
  /\ ~stopRequested
  /\ stopRequested' = TRUE
  /\ notify' = TRUE
  /\ UNCHANGED <<nextId, commands, cancels, pc, queueVars, passVars, state,
                 seqVars, chanVars, external, cancelAt>>

\* The notify that follows the unlock in Submit, Cancel and Stop.  A waiting
\* engine thread wakes and tests its predicate again.
NotifyEngine ==
  /\ notify
  /\ notify' = FALSE
  /\ pc' = IF pc = "asleep" THEN "idle" ELSE pc
  /\ UNCHANGED <<nextId, commands, stopRequested, cancels, queueVars, passVars,
                 state, seqVars, chanVars, external, cancelAt>>

Start ==
  /\ pc = "new"
  /\ ~stopRequested
  /\ pc' = "top"
  /\ UNCHANGED <<clientVars, queueVars, passVars, state, seqVars, chanVars,
                 external, cancelAt>>

\* Positions of the commands of one kind.
At(op) == {i \in DOMAIN commands : commands[i].op = op}

\* Mutant: submits that were never drained are dropped with the queue.
ShutdownDropsQueued ==
  /\ stopRequested
  /\ pc \in {"exited", "new"}
  /\ state' = Put(state, live, "kCancelled")
  /\ closed' = Put(closed, live, "kCancelled")
  /\ length' = Put(length, live, 0)
  /\ commands' = <<>>
  /\ live' = {} /\ waiting' = <<>> /\ running' = <<>>
  /\ pc' = "down"
  /\ UNCHANGED <<nextId, stopRequested, notify, cancels, cancelRequested, passVars,
                 prompt, limit, generated, computed, stream, external, cancelAt>>

\* Stop after the join (or with no thread to join): channels of submits never
\* drained and of every live sequence are closed, everything is dropped.
Shutdown ==
  /\ stopRequested
  /\ pc \in {"exited", "new"}
  /\ LET C == {commands[i].id : i \in At("submit")}
                \cup {r \in live : state[r] \notin Terminal}
     IN /\ state' = Put(state, C, "kCancelled")
        /\ closed' = [r \in Ids |-> IF r \in C /\ closed[r] = "open"
                                    THEN "kCancelled" ELSE closed[r]]
  /\ length' = Put(length, live, 0)
  /\ commands' = <<>>
  /\ live' = {} /\ waiting' = <<>> /\ running' = <<>>
  /\ pc' = "down"
  /\ UNCHANGED <<nextId, stopRequested, notify, cancels, cancelRequested, passVars,
                 prompt, limit, generated, computed, stream, external, cancelAt>>

\* Another user of the same pool takes or returns a block.
ExternalTake ==
  /\ external < MaxExternal
  /\ FreeBlocks > 0
  /\ external' = external + 1
  /\ UNCHANGED <<clientVars, pc, queueVars, passVars, state, seqVars, chanVars,
                 cancelAt>>

ExternalGive ==
  /\ external > 0
  /\ external' = external - 1
  /\ UNCHANGED <<clientVars, pc, queueVars, passVars, state, seqVars, chanVars,
                 cancelAt>>
----------------------------------------------------------------------------
(* The engine thread: the loop of Run and the step boundary. *)

\* Run's test of the stop flag before each step.
CheckStop ==
  /\ pc = "top"
  /\ pc' = IF stopRequested THEN "exited" ELSE "drain"
  /\ UNCHANGED <<clientVars, queueVars, passVars, state, seqVars, chanVars,
                 external, cancelAt>>

\* Mutant: a cancel drained together with its submit finds no such request.
DrainLosesCancel ==
  /\ pc = "drain"
  /\ LET submits == AtPositions(commands, At("submit"))
     IN waiting' = waiting \o [k \in DOMAIN submits |-> submits[k].id]
  /\ live' = live \cup {commands[i].id : i \in At("submit")}
  /\ cancelRequested' =
       Put(cancelRequested, {commands[i].id : i \in At("cancel")} \cap live, TRUE)
  /\ commands' = <<>>
  /\ pc' = "retire"
  /\ UNCHANGED <<nextId, stopRequested, notify, cancels, running, passVars, state,
                 seqVars, chanVars, external, cancelAt>>

\* Swap the command queue out and apply it in order: a cancel marks a request
\* that is live or was submitted before it in the same batch.
DrainCommands ==
  /\ pc = "drain"
  /\ LET submits == AtPositions(commands, At("submit"))
         known(i) == live \cup {commands[j].id : j \in {k \in At("submit") : k < i}}
         marked == {r \in Ids : \E i \in At("cancel") :
                                  commands[i].id = r /\ r \in known(i)}
     IN /\ waiting' = waiting \o [k \in DOMAIN submits |-> submits[k].id]
        /\ live' = live \cup {commands[i].id : i \in At("submit")}
        /\ cancelRequested' = Put(cancelRequested, marked, TRUE)
  /\ commands' = <<>>
  /\ pc' = "retire"
  /\ UNCHANGED <<nextId, stopRequested, notify, cancels, running, passVars, state,
                 seqVars, chanVars, external, cancelAt>>

\* Mutant: a cancelled sequence is erased from the running list only.
RetireLeavesQueued ==
  /\ pc = "retire"
  /\ LET C == {r \in live : cancelRequested[r] /\ state[r] \notin Terminal}
     IN /\ state' = Put(state, C, "kCancelled")
        /\ closed' = Put(closed, C, "kCancelled")
        /\ length' = Put(length, C, 0)
        /\ live' = live \ C
        /\ running' = Erase(running, C)
  /\ pc' = IF waiting = <<>> /\ running' = <<>> THEN "idle" ELSE "schedule"
  /\ UNCHANGED <<clientVars, waiting, cancelRequested, passVars, prompt, limit,
                 generated, computed, stream, external, cancelAt>>

\* Close and drop every cancelled sequence, whatever its state; then Step's
\* idle test.
RetireCancelled ==
  /\ pc = "retire"
  /\ LET C == {r \in live : cancelRequested[r] /\ state[r] \notin Terminal}
     IN /\ state' = Put(state, C, "kCancelled")
        /\ closed' = [r \in Ids |-> IF r \in C /\ closed[r] = "open"
                                    THEN "kCancelled" ELSE closed[r]]
        /\ length' = Put(length, C, 0)
        /\ live' = live \ C
        /\ waiting' = Erase(waiting, C)
        /\ running' = Erase(running, C)
  /\ pc' = IF waiting' = <<>> /\ running' = <<>> THEN "idle" ELSE "schedule"
  /\ UNCHANGED <<clientVars, cancelRequested, passVars, prompt, limit, generated,
                 computed, stream, external, cancelAt>>

\* Mutant: the wait does not look at the queue first.
IdleWaitBlind ==
  /\ pc = "idle"
  /\ pc' = IF stopRequested THEN "exited" ELSE "asleep"
  /\ UNCHANGED <<clientVars, queueVars, passVars, state, seqVars, chanVars,
                 external, cancelAt>>

\* cmd_cv_.wait with its predicate, tested under the lock.
IdleWait ==
  /\ pc = "idle"
  /\ pc' = IF stopRequested THEN "exited"
           ELSE IF commands # <<>> THEN "top" ELSE "asleep"
  /\ UNCHANGED <<clientVars, queueVars, passVars, state, seqVars, chanVars,
                 external, cancelAt>>

\* Tokens a waiting sequence feeds when admitted: prompt ++ generated.
PrefillLen == [r \in Ids |-> prompt[r] + generated[r]]

\* Mutant: a preempted sequence keeps its cache.
ScheduleKeepsCaches ==
  /\ pc = "schedule"
  /\ LET plan == Schedule(waiting, running, PrefillLen, length, FreeBlocks)
         A == Range(plan.prefill)
     IN /\ decodeList' = plan.decode
        /\ todo' = plan.prefill
        /\ waiting' = Erase(Sorted(plan.preempt) \o waiting, A)
        /\ running' = Erase(running, plan.preempt) \o plan.prefill
        /\ state' = Put(Put(state, plan.preempt, "kPreempted"), A, "kRunning")
        /\ computed' = Put(computed, plan.preempt, 0)
  /\ prefillPass' = TRUE
  /\ pc' = "forward"
  /\ UNCHANGED <<clientVars, live, cancelRequested, preLen, prompt, limit, generated,
                 length, chanVars, external, cancelAt>>

\* Ask the scheduler, evict its victims to the head of the queue, move the
\* admitted prefix to the running list.
ScheduleStep ==
  /\ pc = "schedule"
  /\ LET plan == Schedule(waiting, running, PrefillLen, length, FreeBlocks)
         A == Range(plan.prefill)
     IN /\ decodeList' = plan.decode
        /\ todo' = plan.prefill
        /\ waiting' = Erase(Sorted(plan.preempt) \o waiting, A)
        /\ running' = Erase(running, plan.preempt) \o plan.prefill
        /\ state' = Put(Put(state, plan.preempt, "kPreempted"), A, "kRunning")
        /\ length' = Put(length, plan.preempt, 0)
        /\ computed' = Put(computed, plan.preempt, 0)
  /\ prefillPass' = TRUE
  /\ pc' = "forward"
  /\ UNCHANGED <<clientVars, live, cancelRequested, preLen, prompt, limit, generated,
                 chanVars, external, cancelAt>>
----------------------------------------------------------------------------
(* The two batched passes. *)

\* Mutant: a resumed sequence prefills its prompt without what it generated.
NewTokensPromptOnly(r) == IF prefillPass THEN prompt[r] ELSE 1

\* Tokens r feeds to this pass's forward.
NewTokens(r) == IF prefillPass THEN prompt[r] + generated[r] ELSE 1

\* Blocks the first k members of the pass must allocate.
PassNeed(k) ==
  SumOver([i \in 1..k |-> BlocksNeeded(length[todo[i]], NewTokens(todo[i]))], 1..k)

\* The caches after the first k members have appended.
Appended(k) ==
  [r \in Ids |-> IF r \in Range(SubSeq(todo, 1, k)) THEN length[r] + NewTokens(r)
                 ELSE length[r]]

\* One batched forward over the pass; every cache has grown.
ForwardOk ==
  /\ pc = "forward"
  /\ todo # <<>>
  /\ PassNeed(Len(todo)) <= FreeBlocks
  /\ length' = Appended(Len(todo))
  /\ preLen' = length
  /\ pc' = "rows"
  /\ UNCHANGED <<clientVars, queueVars, decodeList, prefillPass, todo, state, prompt,
                 limit, generated, computed, chanVars, external, cancelAt>>

\* The forward fails with the first k caches grown.  Out of blocks: the up
\* front capacity check finds a member that cannot fit on its own (k = 0), or
\* layer 0 runs out at member k + 1.  Any other fault: anywhere.
ForwardFails(k) ==
  /\ pc = "forward"
  /\ todo # <<>>
  /\ PassNeed(k) <= FreeBlocks
  /\ \/ Faults
     \/ /\ k = 0
        /\ \E i \in DOMAIN todo :
             BlocksNeeded(length[todo[i]], NewTokens(todo[i])) > FreeBlocks
     \/ /\ \A i \in DOMAIN todo :
             BlocksNeeded(length[todo[i]], NewTokens(todo[i])) <= FreeBlocks
        /\ k < Len(todo)
        /\ PassNeed(k + 1) > FreeBlocks
  /\ length' = Appended(k)
  /\ preLen' = length
  /\ pc' = "recover"
  /\ UNCHANGED <<clientVars, queueVars, decodeList, prefillPass, todo, state, prompt,
                 limit, generated, computed, chanVars, external, cancelAt>>

\* Mutant: the limit is tested one token late.
DeliverOneTooMany(r, len) ==
  /\ generated' = [generated EXCEPT ![r] = @ + 1]
  /\ computed' = [computed EXCEPT ![r] = @ + 1]
  /\ \/ /\ Faults
        /\ state' = [state EXCEPT ![r] = "kFailed"]
        /\ UNCHANGED stream
     \/ /\ stream' = [stream EXCEPT ![r] = Append(@, len - prompt[r] + 1)]
        /\ \/ state' = [state EXCEPT ![r] = "kFinished"]
           \/ generated[r] < limit[r] /\ UNCHANGED state

\* DeliverSampled, for a forward that left r's cache at length len: record the
\* token, run the stop checker (which may fail, may stop early and must stop at
\* max_tokens), push the token, note the finish.
DeliverSampled(r, len) ==
  /\ generated' = [generated EXCEPT ![r] = @ + 1]
  /\ computed' = [computed EXCEPT ![r] = @ + 1]
  /\ \/ /\ Faults
        /\ state' = [state EXCEPT ![r] = "kFailed"]
        /\ UNCHANGED stream
     \/ /\ stream' = [stream EXCEPT ![r] = Append(@, len - prompt[r] + 1)]
        /\ \/ state' = [state EXCEPT ![r] = "kFinished"]
           \/ generated[r] + 1 < limit[r] /\ UNCHANGED state

\* The sampler rejects r's logits row.
FailRow(r) ==
  /\ Faults
  /\ state' = [state EXCEPT ![r] = "kFailed"]
  /\ UNCHANGED <<generated, computed, stream>>

\* One row of the batched result.
DeliverRow ==
  /\ pc = "rows"
  /\ todo # <<>>
  /\ LET r == Head(todo) IN DeliverSampled(r, length[r]) \/ FailRow(r)
  /\ todo' = Tail(todo)
  /\ UNCHANGED <<clientVars, pc, queueVars, decodeList, prefillPass, preLen, prompt,
                 limit, length, closed, external, cancelAt>>

\* Mutant: terminal sequences are not skipped in the search for a victim.
VictimsAnyState(r) == Range(running) \ {r}

\* The latest-arrived other running sequence.
Victims(r) == {v \in Range(running) \ {r} : state[v] = "kRunning"}
PickPreemptionVictim(r) == CHOOSE v \in Victims(r) : \A w \in Victims(r) : w <= v

\* Free blocks once r's cache is truncated to its length before the forward.
FreeAfterTruncate(r) == FreeBlocks + BlocksFor(length[r]) - BlocksFor(preLen[r])

RetryFits(r) == BlocksNeeded(preLen[r], NewTokens(r)) <= FreeAfterTruncate(r)

\* A member evicted as a victim earlier in this recovery is skipped.
RecoverSkip ==
  /\ pc = "recover"
  /\ todo # <<>>
  /\ state[Head(todo)] # "kRunning"
  /\ todo' = Tail(todo)
  /\ UNCHANGED <<clientVars, pc, queueVars, decodeList, prefillPass, preLen, state,
                 seqVars, chanVars, external, cancelAt>>

\* Mutant: the member is re-run on top of what the failed forward left.
RecoverWithoutTruncate ==
  /\ pc = "recover"
  /\ todo # <<>>
  /\ LET r == Head(todo)
         len == length[r] + NewTokens(r)
     IN /\ state[r] = "kRunning"
        /\ BlocksNeeded(length[r], NewTokens(r)) <= FreeBlocks
        /\ length' = [length EXCEPT ![r] = len]
        /\ DeliverSampled(r, len) \/ FailRow(r)
  /\ todo' = Tail(todo)
  /\ UNCHANGED <<clientVars, pc, queueVars, decodeList, prefillPass, preLen, prompt,
                 limit, closed, external, cancelAt>>

\* Truncate the member, run it alone, deliver its token.
RecoverOk ==
  /\ pc = "recover"
  /\ todo # <<>>
  /\ LET r == Head(todo)
         len == preLen[r] + NewTokens(r)
     IN /\ state[r] = "kRunning"
        /\ RetryFits(r)
        /\ length' = [length EXCEPT ![r] = len]
        /\ DeliverSampled(r, len) \/ FailRow(r)
  /\ todo' = Tail(todo)
  /\ UNCHANGED <<clientVars, pc, queueVars, decodeList, prefillPass, preLen, prompt,
                 limit, closed, external, cancelAt>>

\* The member alone fails: its own fault, or no block for its prefill, or none
\* for its decode and nobody left to evict.
RecoverFail ==
  /\ pc = "recover"
  /\ todo # <<>>
  /\ LET r == Head(todo)
     IN /\ state[r] = "kRunning"
        /\ \/ Faults
           \/ ~RetryFits(r) /\ (prefillPass \/ Victims(r) = {})
        /\ \/ length' = [length EXCEPT ![r] = preLen[r]]
           \/ /\ Faults
              /\ RetryFits(r)
              /\ length' = [length EXCEPT ![r] = preLen[r] + NewTokens(r)]
        /\ state' = [state EXCEPT ![r] = "kFailed"]
  /\ todo' = Tail(todo)
  /\ UNCHANGED <<clientVars, pc, queueVars, decodeList, prefillPass, preLen, prompt,
                 limit, generated, computed, chanVars, external, cancelAt>>

\* No block for the member's decode: evict somebody and try again.
RecoverEvict ==
  /\ pc = "recover"
  /\ todo # <<>>
  /\ ~prefillPass
  /\ LET r == Head(todo)
         v == PickPreemptionVictim(r)
     IN /\ state[r] = "kRunning"
        /\ ~RetryFits(r)
        /\ Victims(r) # {}
        /\ state' = [state EXCEPT ![v] = "kPreempted"]
        /\ length' = [length EXCEPT ![r] = preLen[r], ![v] = 0]
        /\ computed' = [computed EXCEPT ![v] = 0]
        /\ running' = Erase(running, {v})
        /\ waiting' = <<v>> \o waiting
  /\ UNCHANGED <<clientVars, pc, live, cancelRequested, passVars, prompt, limit,
                 generated, chanVars, external, cancelAt>>

\* The prefill pass is over (or was empty): the decode pass takes the members
\* of the scheduler's decode list that are still running.
BeginDecode ==
  /\ pc \in {"forward", "rows", "recover"}
  /\ todo = <<>>
  /\ prefillPass
  /\ prefillPass' = FALSE
  /\ todo' = Filter(decodeList, {r \in Ids : state[r] = "kRunning"})
  /\ pc' = "forward"
  /\ UNCHANGED <<clientVars, queueVars, decodeList, preLen, state, seqVars, chanVars,
                 external, cancelAt>>

EndPasses ==
  /\ pc \in {"forward", "rows", "recover"}
  /\ todo = <<>>
  /\ ~prefillPass
  /\ pc' = "terminal"
  /\ UNCHANGED <<clientVars, queueVars, passVars, state, seqVars, chanVars, external,
                 cancelAt>>

\* Mutant: the running list is retired without looking at the state.
RetireEverything ==
  /\ pc = "terminal"
  /\ closed' = [r \in Ids |-> IF r \in Range(running) THEN state[r] ELSE closed[r]]
  /\ length' = Put(length, Range(running), 0)
  /\ live' = live \ Range(running)
  /\ running' = <<>>
  /\ pc' = "top"
  /\ UNCHANGED <<clientVars, waiting, cancelRequested, passVars, state, prompt, limit,
                 generated, computed, stream, external, cancelAt>>

\* Close and drop what finished or failed in this step.
RetireTerminal ==
  /\ pc = "terminal"
  /\ LET T == {r \in Range(running) : state[r] \in Terminal}
     IN /\ closed' = [r \in Ids |-> IF r \in T /\ closed[r] = "open"
                                    THEN state[r] ELSE closed[r]]
        /\ length' = Put(length, T, 0)
        /\ live' = live \ T
        /\ running' = Erase(running, T)
  /\ pc' = "top"
  /\ UNCHANGED <<clientVars, waiting, cancelRequested, passVars, state, prompt, limit,
                 generated, computed, stream, external, cancelAt>>
----------------------------------------------------------------------------
EngineThread ==
  \/ CheckStop \/ DrainCommands \/ RetireCancelled \/ IdleWait \/ ScheduleStep
  \/ ForwardOk \/ (\E k \in 0..Len(todo) : ForwardFails(k)) \/ DeliverRow
  \/ RecoverSkip \/ RecoverOk \/ RecoverFail \/ RecoverEvict
  \/ BeginDecode \/ EndPasses \/ RetireTerminal

\* After Stop has returned there may be nothing left to do.
Terminated == pc = "down" /\ UNCHANGED vars

Next ==
  \/ \E p \in PromptLens, m \in TokenLimits : Submit(p, m)
  \/ \E r \in Ids : Cancel(r)
  \/ Stop \/ NotifyEngine \/ Start \/ Shutdown
  \/ ExternalTake \/ ExternalGive
  \/ EngineThread
  \/ Terminated

\* The engine thread keeps running, a client that has queued a command gets to
\* its notify, and a client in Stop gets past its join.
Fairness ==
  /\ WF_vars(EngineThread)
  /\ WF_vars(NotifyEngine)
  /\ WF_vars(Shutdown)

Spec == Init /\ [][Next]_vars
FairSpec == Spec /\ Fairness
----------------------------------------------------------------------------
(* What is checked. *)

Boundary == {"new", "top", "drain", "retire", "idle", "asleep", "schedule",
             "exited", "down"}

Command == [op : {"submit", "cancel"}, id : Ids]

TypeOK ==
  /\ nextId \in 1..(MaxRequests + 1)
  /\ commands \in Seq(Command)
  /\ stopRequested \in BOOLEAN /\ notify \in BOOLEAN /\ cancels \in 0..MaxCancels
  /\ pc \in Boundary \cup {"forward", "rows", "recover", "terminal"}
  /\ live \in SUBSET Ids
  /\ waiting \in Seq(Ids) /\ running \in Seq(Ids)
  /\ cancelRequested \in [Ids -> BOOLEAN]
  /\ decodeList \in Seq(Ids) /\ prefillPass \in BOOLEAN /\ todo \in Seq(Ids)
  /\ preLen \in [Ids -> Nat]
  /\ state \in [Ids -> SeqState \cup {"none"}]
  /\ prompt \in [Ids -> Nat] /\ limit \in [Ids -> Nat]
  /\ generated \in [Ids -> Nat] /\ length \in [Ids -> Nat]
  /\ computed \in [Ids -> Nat]
  /\ stream \in [Ids -> Seq(Int)]
  /\ closed \in [Ids -> Terminal \cup {"open"}]
  /\ external \in 0..MaxExternal
  /\ cancelAt \in [Ids -> Nat \cup {-1}]

\* requests_, waiting_ and running_ agree: every live request is in exactly one
\* of the two lists, once, and in a state that list allows.  Terminal sequences
\* linger in running_ only inside a step.
QueuesPartitionLive ==
  /\ NoDuplicates(waiting) /\ NoDuplicates(running)
  /\ Range(waiting) \cap Range(running) = {}
  /\ Range(waiting) \cup Range(running) = live
  /\ \A r \in Range(waiting) : state[r] \in {"kWaiting", "kPreempted"}
  /\ \A r \in Range(running) :
       \/ state[r] = "kRunning"
       \/ pc \notin Boundary /\ state[r] \in {"kFinished", "kFailed"}

\* Whatever was preempted, rolled back or re-run on the way, a client reads the
\* tokens of an undisturbed run: the first, the second, the third, ...
StreamsInOrder == \A r \in Ids : stream[r] = [i \in 1..Len(stream[r]) |-> i]

\* Between steps the cache of a running sequence holds its prompt and all that
\* was generated except the last token, and the sequence still has a token to
\* produce.
KvAligned ==
  pc \in Boundary =>
    \A r \in Range(running) :
      /\ generated[r] \in 1..(limit[r] - 1)
      /\ length[r] = prompt[r] + generated[r] - 1

\* No client is left waiting on a channel nobody will close: an open channel of
\* an accepted request belongs to a live sequence or to a queued submit, and a
\* live sequence's channel is open.
OpenChannelsOwned ==
  \A r \in Ids :
    /\ r < nextId /\ closed[r] = "open" =>
         r \in live \/ \E i \in At("submit") : commands[i].id = r
    /\ r \in live => closed[r] = "open"

\* Blocks are held by the running list only: preempted, cancelled, finished and
\* failed sequences have given theirs back, and after Stop nobody holds any.
BlocksOnlyWhileRunning == \A r \in Ids : length[r] > 0 => r \in Range(running)

\* The scheduler's accounting is exact when nobody else uses the pool: neither
\* pass can run out of blocks, even when members are rolled back and re-run and
\* terminal ones still hold theirs.
NeverExhausted ==
  /\ pc = "forward" =>
       PassNeed(Len(todo))
         + (IF prefillPass THEN DecodeDemand(Range(decodeList), length) ELSE 0)
         <= FreeBlocks
  /\ pc = "recover" /\ todo # <<>> /\ state[Head(todo)] = "kRunning" =>
       RetryFits(Head(todo))

\* A step that finds work runs at least one sequence: no queue can stall behind
\* a head that will never be admitted.
StepAdvances ==
  pc = "forward" /\ prefillPass => todo # <<>> \/ decodeList # <<>>

\* Cancel latency: after Cancel returns at most one more token of that request
\* is delivered.
CancelLatency ==
  \A r \in Ids : cancelAt[r] >= 0 => Len(stream[r]) <= cancelAt[r] + 1

\* A victim always has an older running sequence that keeps its cache, so the
\* oldest is never evicted and somebody advances in every step.
OldestKeepsRunning ==
  [][\A r \in Ids : state[r] = "kRunning" /\ state'[r] = "kPreempted" =>
       \E o \in Range(running) : o < r /\ state'[o] = "kRunning"]_vars

\* Every state change is an edge of the transition table, the CHECK in
\* Sequence::Transition.
LegalTransitions ==
  [][\A r \in Ids : state'[r] # state[r] => IsLegalTransition(state[r], state'[r])]_vars

\* The runtime implements its client-side promise.
Streams == INSTANCE RequestStreams
  WITH Limits <- TokenLimits, next <- nextId, stop <- stopRequested,
       asked <- {r \in Ids : cancelAt[r] >= 0}
ImplementsStreams == Streams!Spec

\* Once the engine runs, every accepted request's channel is closed in the end:
\* no starvation, no livelock between preemptions, no lost wake-up.
EveryRequestCloses ==
  \A r \in Ids : (pc # "new" /\ r < nextId) ~> (closed[r] # "open")

\* Stop always gets through, and leaves no channel open.
StopClosesAll ==
  stopRequested ~> (pc = "down" /\ \A r \in Ids : r < nextId => closed[r] # "open")
----------------------------------------------------------------------------
(* What comments and the design say that the code does not do. *)

\* "the in-flight token is produced but never delivered": no token reaches the
\* channel after Cancel has been called.
NoTokenAfterCancel == \A r \in Ids : cancelAt[r] >= 0 => Len(stream[r]) = cancelAt[r]
=============================================================================
