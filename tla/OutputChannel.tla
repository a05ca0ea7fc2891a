---------------------------- MODULE OutputChannel ----------------------------
(***************************************************************************)
(* The per-request queue between the engine thread, which pushes tokens    *)
(* and closes once, and the client's threads, which read with Next, poll   *)
(* with TryNext or wait for the end with AwaitFinish (RequestHandle).  A   *)
(* critical section under mu_ is one action; the producer's notify comes   *)
(* after its unlock, as a step of its own; a consumer that finds its       *)
(* predicate false goes to sleep in the step that tested it.               *)
(*                                                                         *)
(* Items are numbered in the order they are pushed.                        *)
(***************************************************************************)
EXTENDS Integers, Sequences

CONSTANTS
  Consumers,   \* client threads
  MaxItems,    \* bound: items pushed
  Finishes     \* FinishInfos the engine may close with

ASSUME OutputChannelAssumption == MaxItems \in Nat

VARIABLES
  queue,       \* queue_
  closed,      \* closed_
  finish,      \* finish_: at most one element
  producer,    \* "ready", or the notification it has still to issue
  pushed,      \* items pushed so far
  cpc,         \* the call each consumer is in, awake or asleep
  taken,       \* items handed to consumers, in the order they left the queue
  drained      \* consumers whose Next returned nullopt

channelVars == <<queue, closed, finish, producer, pushed, cpc, taken, drained>>

ChannelInit ==
  /\ queue = <<>> /\ closed = FALSE /\ finish = {}
  /\ producer = "ready" /\ pushed = 0
  /\ cpc = [c \in Consumers |-> "idle"]
  /\ taken = <<>> /\ drained = {}

InNext(c) == cpc[c] \in {"next", "nextAsleep"}
InAwait(c) == cpc[c] \in {"await", "awaitAsleep"}
Awake(p) == CASE p = "nextAsleep" -> "next" [] p = "awaitAsleep" -> "await" [] OTHER -> p
Asleep == {c \in Consumers : cpc[c] \in {"nextAsleep", "awaitAsleep"}}
----------------------------------------------------------------------------
(* The engine thread.  It never pushes after a close: the CHECK of Push. *)

Push ==
  /\ producer = "ready" /\ ~closed /\ pushed < MaxItems
  /\ pushed' = pushed + 1
  /\ queue' = Append(queue, pushed + 1)
  /\ producer' = "notify_one"
  /\ UNCHANGED <<closed, finish, cpc, taken, drained>>

\* The first close wins; a later one changes nothing and notifies nobody.
Close(info) ==
  /\ producer = "ready"
  /\ \/ /\ ~closed
        /\ closed' = TRUE /\ finish' = {info} /\ producer' = "notify_all"
     \/ closed /\ UNCHANGED <<closed, finish, producer>>
  /\ UNCHANGED <<queue, pushed, cpc, taken, drained>>

\* Mutant: an off-by-one: a push into an empty queue notifies nobody.
NotifyOneForgotten ==
  /\ producer = "notify_one" /\ producer' = "ready"
  /\ \/ (Asleep = {} \/ Len(queue) = 1) /\ UNCHANGED cpc
     \/ \E c \in Asleep : Len(queue) > 1 /\ cpc' = [cpc EXCEPT ![c] = Awake(@)]
  /\ UNCHANGED <<queue, closed, finish, pushed, taken, drained>>

\* notify_one wakes some sleeper, whatever it waits for, or nobody.
NotifyOne ==
  /\ producer = "notify_one" /\ producer' = "ready"
  /\ \/ Asleep = {} /\ UNCHANGED cpc
     \/ \E c \in Asleep : cpc' = [cpc EXCEPT ![c] = Awake(@)]
  /\ UNCHANGED <<queue, closed, finish, pushed, taken, drained>>

NotifyAll ==
  /\ producer = "notify_all" /\ producer' = "ready"
  /\ cpc' = [c \in Consumers |-> Awake(cpc[c])]
  /\ UNCHANGED <<queue, closed, finish, pushed, taken, drained>>
----------------------------------------------------------------------------
(* Client threads. *)

BeginCall(c) ==
  /\ cpc[c] = "idle"
  /\ cpc' \in {[cpc EXCEPT ![c] = p] : p \in {"next", "await"}}
  /\ UNCHANGED <<queue, closed, finish, producer, pushed, taken, drained>>

Pop ==
  /\ taken' = Append(taken, Head(queue))
  /\ queue' = Tail(queue)

\* Mutant: a closed channel ends at once, with items still buffered.
NextDropsTail(c) ==
  /\ cpc[c] = "next"
  /\ \/ /\ queue # <<>> /\ ~closed /\ Pop
        /\ cpc' = [cpc EXCEPT ![c] = "idle"] /\ UNCHANGED drained
     \/ /\ closed
        /\ cpc' = [cpc EXCEPT ![c] = "idle"]
        /\ drained' = drained \cup {c} /\ UNCHANGED <<queue, taken>>
     \/ /\ queue = <<>> /\ ~closed
        /\ cpc' = [cpc EXCEPT ![c] = "nextAsleep"] /\ UNCHANGED <<queue, taken, drained>>
  /\ UNCHANGED <<closed, finish, producer, pushed>>

\* Next's wait and what follows it: an item, the end, or sleep.
NextItem(c) ==
  /\ cpc[c] = "next"
  /\ \/ /\ queue # <<>>
        /\ Pop
        /\ cpc' = [cpc EXCEPT ![c] = "idle"]
        /\ UNCHANGED drained
     \/ /\ queue = <<>> /\ closed
        /\ cpc' = [cpc EXCEPT ![c] = "idle"]
        /\ drained' = drained \cup {c}
        /\ UNCHANGED <<queue, taken>>
     \/ /\ queue = <<>> /\ ~closed
        /\ cpc' = [cpc EXCEPT ![c] = "nextAsleep"]
        /\ UNCHANGED <<queue, taken, drained>>
  /\ UNCHANGED <<closed, finish, producer, pushed>>

\* Mutant: the poll copies the item and leaves it in the queue.
TryNextKeeps(c) ==
  /\ cpc[c] = "idle" /\ queue # <<>>
  /\ taken' = Append(taken, Head(queue))
  /\ UNCHANGED <<queue, closed, finish, producer, pushed, cpc, drained>>

\* The poll; on an empty queue it returns nullopt and changes nothing.
TryNext(c) ==
  /\ cpc[c] = "idle" /\ queue # <<>>
  /\ Pop
  /\ UNCHANGED <<closed, finish, producer, pushed, cpc, drained>>

\* AwaitFinish's wait; its CHECK needs finish_ to be there once closed_ is.
AwaitFinish(c) ==
  /\ cpc[c] = "await"
  /\ cpc' = [cpc EXCEPT ![c] = IF closed THEN "finished" ELSE "awaitAsleep"]
  /\ UNCHANGED <<queue, closed, finish, producer, pushed, taken, drained>>

\* The client goes on with the FinishInfo it was given.
Resume(c) ==
  /\ cpc[c] = "finished"
  /\ cpc' = [cpc EXCEPT ![c] = "idle"]
  /\ UNCHANGED <<queue, closed, finish, producer, pushed, taken, drained>>

Spurious(c) ==
  /\ c \in Asleep
  /\ cpc' = [cpc EXCEPT ![c] = Awake(@)]
  /\ UNCHANGED <<queue, closed, finish, producer, pushed, taken, drained>>

ChannelNext ==
  \/ Push \/ NotifyOne \/ NotifyAll
  \/ \E info \in Finishes : Close(info)
  \/ \E c \in Consumers :
       BeginCall(c) \/ NextItem(c) \/ TryNext(c) \/ AwaitFinish(c) \/ Resume(c)
         \/ Spurious(c)

\* Threads that can run do run, and a notification that is due is issued; nothing
\* is assumed of when the engine pushes or closes, nor of spurious wake-ups.
Fairness ==
  /\ WF_channelVars(NotifyOne \/ NotifyAll)
  /\ \A c \in Consumers : WF_channelVars(NextItem(c) \/ AwaitFinish(c))

ChannelSpec == ChannelInit /\ [][ChannelNext]_channelVars /\ Fairness
----------------------------------------------------------------------------
\* What left the queue followed by what is still in it is everything that was
\* pushed, in order: Next, TryNext and Push racing lose, repeat or swap nothing.
ExactlyOnceInOrder == taken \o queue = [i \in 1..pushed |-> i]

\* Next reports the end of the stream only after the last item was taken, and
\* AwaitFinish returns only when the FinishInfo is there.
EndMeansDrained ==
  /\ drained # {} => closed /\ Len(taken) = pushed
  /\ \A c \in Consumers : cpc[c] = "finished" => closed /\ finish # {}

\* How a stream ends: drained before any reader sees the end, and once.  The first
\* close is final: its FinishInfo stays and nothing is pushed after.
EndsOnce ==
  [][/\ EndMeansDrained'
     /\ closed => closed' /\ finish' = finish /\ pushed' = pushed]_channelVars

\* No wake-up is lost to a reader that is the only blocked thread: while an item
\* is buffered, its call of Next ends without any further push, unless another
\* thread polls the queue empty first.  (A thread in AwaitFinish beside it may
\* swallow the one notification a push issues; the reader then sleeps on until
\* the close.)
LoneReaderWakes ==
  \A c \in Consumers :
    (InNext(c) /\ queue # <<>>) ~>
      (~InNext(c) \/ queue = <<>> \/ \E d \in Consumers \ {c} : InNext(d) \/ InAwait(d))

\* A close gets every blocked thread out, however many wait and for whatever.
CloseReleasesAll ==
  \A c \in Consumers : (closed /\ (InNext(c) \/ InAwait(c))) ~> ~(InNext(c) \/ InAwait(c))

\* Nobody waits for what has happened: neither for an item nor for the close.
NobodyStuck == LoneReaderWakes /\ CloseReleasesAll
=============================================================================
