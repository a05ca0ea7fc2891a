--------------------------- MODULE RequestStreams ---------------------------
(***************************************************************************)
(* What the runtime promises its clients, with no scheduler, cache or      *)
(* batch in sight.  A request that was accepted gets the tokens a run of   *)
(* its own would give it, in order and each exactly once, at most as many  *)
(* as it asked for, and then one finish descriptor, after which nothing    *)
(* more arrives.  A token is named by its place in that solitary run.      *)
(* Engine is shown to implement this specification.                        *)
(***************************************************************************)
EXTENDS Naturals, Sequences

CONSTANTS
  Ids,                  \* request ids, handed out 1, 2, 3, ...
  Limits                \* the values of max_tokens a client may send

VARIABLES
  next,                 \* the id the next accepted request gets
  limit,                \* limit[r]: max_tokens of r
  asked,                \* ids a Cancel call named after they were accepted
  stop,                 \* Stop was called
  stream,               \* stream[r]: the tokens pushed to r's channel
  closed                \* closed[r]: "open", or how the channel was closed

svars == <<next, limit, asked, stop, stream, closed>>

Outcomes == {"kFinished", "kCancelled", "kFailed"}

Init ==
  /\ next = 1
  /\ limit = [r \in Ids |-> 0]
  /\ asked = {}
  /\ stop = FALSE
  /\ stream = [r \in Ids |-> <<>>]
  /\ closed = [r \in Ids |-> "open"]

\* A request is accepted while the engine has not been stopped.
Accept(m) ==
  /\ ~stop
  /\ next \in Ids
  /\ m > 0
  /\ next' = next + 1
  /\ limit' = [limit EXCEPT ![next] = m]
  /\ UNCHANGED <<asked, stop, stream, closed>>

AskCancel(r) ==
  /\ r < next
  /\ asked' = asked \cup {r}
  /\ UNCHANGED <<next, limit, stop, stream, closed>>

AskStop ==
  /\ stop' = TRUE
  /\ UNCHANGED <<next, limit, asked, stream, closed>>

\* r's next token, the one that follows those it already has.
Emit(r) ==
  /\ r < next
  /\ closed[r] = "open"
  /\ Len(stream[r]) < limit[r]
  /\ stream' = [stream EXCEPT ![r] = Append(@, Len(@) + 1)]
  /\ UNCHANGED <<next, limit, asked, stop, closed>>

\* How an open stream may end: finished only after a token, cancelled only
\* when somebody asked.
MayClose(r, how) ==
  /\ r < next
  /\ closed[r] = "open"
  /\ \/ how = "kFinished" /\ stream[r] # <<>>
     \/ how = "kCancelled" /\ (r \in asked \/ stop)
     \/ how = "kFailed"

\* Any number of streams end at once.
Close(to) ==
  /\ \A r \in Ids : to[r] # closed[r] => to[r] \in Outcomes /\ MayClose(r, to[r])
  /\ closed' = to
  /\ UNCHANGED <<next, limit, asked, stop, stream>>

Next ==
  \/ \E m \in Limits : Accept(m)
  \/ \E r \in Ids : AskCancel(r) \/ Emit(r)
  \/ AskStop
  \/ \E to \in [Ids -> Outcomes \cup {"open"}] : Close(to)

Spec == Init /\ [][Next]_svars
=============================================================================
