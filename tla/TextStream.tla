----------------------------- MODULE TextStream -----------------------------
(***************************************************************************)
(* One sequence's way from sampled ids to text: the generation loop        *)
(* (Generate), the incremental UTF-8 detokenizer (DetokenizerStream), the  *)
(* stop-string matcher (StopStringMatcher) and the checker that combines   *)
(* them (StopChecker).  A call that fails in a forward may be resumed on   *)
(* the same cache with the last delivered token, as generator.h promises.  *)
(*                                                                         *)
(* Texts are sequences of bytes.  The cache is the list of ids whose K/V   *)
(* it holds.  Logprobs are left out.  Recursion is written as recursive    *)
(* functions, for OutputProofs.                                            *)
(***************************************************************************)
EXTENDS Integers, Sequences, FiniteSetsExt, SequencesExt

CONSTANTS
  TokenBytes,    \* token_bytes: from an id to its bytes
  Special,       \* special ids
  EosIds, StopTokenIds,
  StopLists,     \* values of stop_strings
  Limits,        \* values of max_tokens
  Prompts,       \* values of prompt_ids
  Capacity,      \* cache.capacity()
  MaxCalls       \* bound: calls of Generate

Vocab == DOMAIN TokenBytes
Byte == 0..255

ASSUME TextStreamAssumption ==
  /\ \A id \in Vocab : TokenBytes[id] \in Seq(Byte)
  /\ Special \subseteq Vocab /\ EosIds \subseteq Vocab /\ StopTokenIds \subseteq Vocab
  /\ \A list \in StopLists : list \in Seq(Seq(Byte) \ {<<>>})
  /\ \A prompt \in Prompts : prompt \in Seq(Vocab)
  /\ Limits \in SUBSET (Nat \ {0}) /\ Capacity \in Nat /\ MaxCalls \in Nat

VARIABLES
  params,        \* stop_strings, max_tokens, skip_special_tokens, the prompt
  pc,            \* "ready", "forward", "consume", "done" or "failed"
  calls,
  cache,         \* ids appended to the cache
  input,         \* ids the next forward feeds
  tokens,        \* result.tokens
  text,          \* result.text: what the callbacks have delivered
  pending,       \* the detokenizer's carry
  held,          \* the matcher's held-back tail
  trigger,       \* StopTrigger
  delivered      \* ids handed to on_token, over all calls

vars == <<params, pc, calls, cache, input, tokens, text, pending, held, trigger, delivered>>
----------------------------------------------------------------------------
(* UTF-8, one maximal subpart at a time. *)

Replacement == <<239, 191, 189>>   \* U+FFFD

\* Bytes of the sequence that lead begins; 0: it begins none.
SequenceLength(lead) ==
  CASE lead < 128 -> 1
    [] lead \in 194..223 -> 2
    [] lead \in 224..239 -> 3
    [] lead \in 240..244 -> 4
    [] OTHER -> 0

\* What may follow lead: no overlong form, no surrogate, nothing over U+10FFFF.
SecondBytes(lead) ==
  CASE lead = 224 -> 160..191
    [] lead = 237 -> 128..159
    [] lead = 240 -> 144..191
    [] lead = 244 -> 128..143
    [] OTHER -> 128..191

\* Places of the sequence that s begins whose byte cannot stand there.
Misplaced(s) ==
  {i \in 2..SequenceLength(s[1]) :
     i <= Len(s) /\ s[i] \notin (IF i = 2 THEN SecondBytes(s[1]) ELSE 128..191)}

Prefix(kind, length) == [kind |-> kind, length |-> length]

classify_utf8_prefix(s) ==
  LET n == SequenceLength(s[1])
      wrong == Misplaced(s)
  IN IF n = 0 THEN Prefix("kInvalid", 1)
     ELSE IF wrong # {} THEN Prefix("kInvalid", Min(wrong) - 1)
     ELSE IF Len(s) < n THEN Prefix("kIncomplete", Len(s))
     ELSE Prefix("kComplete", n)

Rest(s, n) == SubSeq(s, n + 1, Len(s))

Shown(s, part) == IF part.kind = "kComplete" THEN SubSeq(s, 1, part.length) ELSE Replacement

\* The batch decoder: the reference for the incremental one.
append_utf8_lossy[s \in Seq(Byte)] ==
  IF s = <<>> THEN <<>>
  ELSE LET part == classify_utf8_prefix(s)
       IN Shown(s, part) \o append_utf8_lossy[Rest(s, part.length)]

\* push's loop: what can be shown of s, and the carry that stays.
Drain[s \in Seq(Byte)] ==
  IF s = <<>> \/ classify_utf8_prefix(s).kind = "kIncomplete"
  THEN [out |-> <<>>, carry |-> s]
  ELSE LET part == classify_utf8_prefix(s)
           more == Drain[Rest(s, part.length)]
       IN [out |-> Shown(s, part) \o more.out, carry |-> more.carry]

\* The bytes an id contributes.
Piece(id) == IF params.skip /\ id \in Special THEN <<>> ELSE TokenBytes[id]

\* Mutant: a skipped special token also drops the carry.
PushResets(id) ==
  IF params.skip /\ id \in Special THEN [out |-> <<>>, carry |-> <<>>]
  ELSE Drain[pending \o Piece(id)]

push(id) == Drain[pending \o Piece(id)]

\* finish() of the detokenizer with a given carry.
Residue(carry) == IF carry = <<>> THEN <<>> ELSE Replacement
----------------------------------------------------------------------------
(* The stop-string matcher. *)

OccursAt(s, stop, i) == i + Len(stop) - 1 <= Len(s) /\ SubSeq(s, i, i + Len(stop) - 1) = stop
Occurrences(s, stop) == {i \in 1..Len(s) : OccursAt(s, stop, i)}

LongestPrefixOverlap(s, stop) ==
  Max({0} \cup {n \in 1..(Len(stop) - 1) :
                  n <= Len(s) /\ SubSeq(s, Len(s) - n + 1, Len(s)) = SubSeq(stop, 1, n)})

\* Mutant: only the first-listed stop string is held back for.
HoldForFirst(s) == LongestPrefixOverlap(s, params.stops[1])

\* How much of an unmatched buffer must wait.
Hold(s) == Max({LongestPrefixOverlap(s, params.stops[i]) : i \in DOMAIN params.stops})

\* Feed: the earliest match, the first-listed on a tie, or the part that cannot
\* belong to a match any more.
Feed(chunk) ==
  LET s     == held \o chunk
      found == {i \in DOMAIN params.stops : Occurrences(s, params.stops[i]) # {}}
      at(i) == Min(Occurrences(s, params.stops[i]))
      best  == Min({at(i) : i \in found})
      first == Min({i \in found : at(i) = best})
  IN IF found # {}
     THEN [emit |-> SubSeq(s, 1, best - 1), held |-> <<>>, matched |-> {params.stops[first]}]
     ELSE [emit |-> SubSeq(s, 1, Len(s) - Hold(s)), held |-> Rest(s, Len(s) - Hold(s)),
           matched |-> {}]
----------------------------------------------------------------------------
(* StopChecker::Observe, and Finish when it reports the end. *)

IdTrigger(id) ==
  CASE id \in EosIds                -> "kEosId"
    [] id \in StopTokenIds \ EosIds -> "kStopTokenId"
    [] OTHER                       -> "kNone"

\* The id-based stops: nothing is trimmed, the held tail is real text.
ObserveId(id) ==
  LET p == push(id)
  IN /\ IdTrigger(id) # "kNone"
     /\ trigger' = IdTrigger(id)
     /\ text' = text \o held \o p.out \o Residue(p.carry)
     /\ held' = <<>> /\ pending' = <<>>

ObserveMatch(id) ==
  /\ IdTrigger(id) = "kNone" /\ params.stops # <<>>
  /\ LET p == push(id)
         fed == Feed(p.out)
     IN /\ fed.matched # {}
        /\ text' = text \o fed.emit
        /\ held' = <<>> /\ pending' = p.carry
  /\ trigger' = "kStopString"

\* No stop: at the limit everything held back is released, otherwise it waits.
ObserveText(id) ==
  /\ IdTrigger(id) = "kNone"
  /\ LET p == push(id)
         fed == IF params.stops = <<>> THEN [emit |-> p.out, held |-> <<>>, matched |-> {}]
                ELSE Feed(p.out)
     IN /\ fed.matched = {}
        /\ IF Len(tokens) + 1 >= params.limit
           THEN /\ trigger' = "kMaxTokens"
                /\ text' = text \o fed.emit \o fed.held \o Residue(p.carry)
                /\ held' = <<>> /\ pending' = <<>>
           ELSE /\ text' = text \o fed.emit
                /\ held' = fed.held /\ pending' = p.carry
                /\ UNCHANGED trigger

Observe(id) == ObserveId(id) \/ ObserveMatch(id) \/ ObserveText(id)
----------------------------------------------------------------------------
(* Generate. *)

Init ==
  /\ params \in [stops : StopLists, limit : Limits, skip : BOOLEAN, prompt : Prompts]
  /\ pc = "ready" /\ calls = 0
  /\ cache = <<>> /\ input = <<>> /\ tokens = <<>> /\ text = <<>>
  /\ pending = <<>> /\ held = <<>> /\ trigger = "kNone" /\ delivered = <<>>

\* Mutant: the peak forgets that the cache may already hold something.
PeakFromZero(ids) == Len(ids) + params.limit - 1

\* The longest the cache can get: the last token produced is never appended.
Peak(ids) == Len(cache) + Len(ids) + params.limit - 1

\* The prompt, or the last delivered token once there is one.  A call that cannot
\* fit, or has nothing to feed, is refused with nothing changed.
Begin ==
  /\ pc = "ready" /\ calls < MaxCalls
  /\ LET ids == IF delivered = <<>> THEN params.prompt ELSE <<Last(delivered)>>
     IN /\ ids # <<>> /\ Peak(ids) <= Capacity
        /\ input' = ids
  /\ calls' = calls + 1
  /\ tokens' = <<>> /\ text' = <<>> /\ pending' = <<>> /\ held' = <<>>
  /\ trigger' = "kNone"
  /\ pc' = "forward"
  /\ UNCHANGED <<params, cache, delivered>>

Forward ==
  /\ pc = "forward"
  /\ cache' = cache \o input
  /\ pc' = "consume"
  /\ UNCHANGED <<params, calls, input, tokens, text, pending, held, trigger, delivered>>

\* Another sequence drained the pool: the call returns, the cache as it was.
ForwardFails ==
  /\ pc = "forward"
  /\ pc' = "ready"
  /\ UNCHANGED <<params, calls, cache, input, tokens, text, pending, held, trigger, delivered>>

\* A token is sampled, checked, delivered and becomes the next input.
Consume(id) ==
  /\ pc = "consume" /\ id \in Vocab
  /\ Observe(id)
  /\ tokens' = Append(tokens, id) /\ delivered' = Append(delivered, id)
  /\ pc' = IF trigger' = "kNone" THEN "forward" ELSE "done"
  /\ input' = <<id>>
  /\ UNCHANGED <<params, calls, cache>>

\* The sampler rejects the logits, or the id is outside the vocabulary: the call
\* fails with the forward already in the cache.
ConsumeFails ==
  /\ pc = "consume"
  /\ pc' = "failed"
  /\ UNCHANGED <<params, calls, cache, input, tokens, text, pending, held, trigger, delivered>>

Next == Begin \/ Forward \/ ForwardFails \/ (\E id \in Vocab : Consume(id)) \/ ConsumeFails

Spec == Init /\ [][Next]_vars
----------------------------------------------------------------------------
\* The bytes of this call's tokens, their batch decoding, and what of it is
\* decided: all but the character the last token left unfinished.
Stream == FlattenSeq([i \in DOMAIN tokens |-> Piece(tokens[i])])
Decoded == append_utf8_lossy[Stream]
Decided == Drain[Stream].out

\* Incremental text is batch text: what was delivered, what the matcher holds and
\* what the detokenizer carries are the decoding of all ids so far, and at the end
\* nothing is left behind, wherever tokens cut characters and stop strings.
StreamingIsBatch ==
  trigger # "kStopString" => text \o held \o Residue(pending) = Decoded

\* A stop string spread over any number of tokens is caught at its first byte:
\* on a match the text ends just before the earliest occurrence of any stop string,
\* and without one no stop string has come.  (An unfinished character is replaced
\* only at the end of the call, and is not matched against.)  What is held is the
\* beginning of a stop string, so nothing waits in vain.
StopsHonoured ==
  LET stops == ToSet(params.stops)
      begins == UNION {Occurrences(Decided, stop) : stop \in stops}
  IN CASE trigger = "kStopString" -> begins # {} /\ text = SubSeq(Decided, 1, Min(begins) - 1)
       [] trigger \in {"kNone", "kMaxTokens"} ->
            /\ begins = {}
            /\ held # <<>> => \E stop \in stops : IsStrictPrefix(held, stop)
       [] OTHER -> held = <<>>

\* Every forward continues where the delivered ids stand, also after calls that
\* failed in a forward and were resumed, and the up-front check is enough: the
\* cache never outgrows its capacity.
ForwardsInPlace ==
  /\ pc = "forward" => cache \o input = params.prompt \o delivered
  /\ Len(cache) <= Capacity
=============================================================================
