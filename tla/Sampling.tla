------------------------------ MODULE Sampling ------------------------------
(***************************************************************************)
(* The sampler: one row of logits, a request's parameters and history, a   *)
(* uniform draw, and the scratch the batched sampler keeps per row.        *)
(* Logits are small integers or one of NaN, PosInf, NegInf; base 2 stands  *)
(* in for e, so a probability is an integer weight over the sum of the     *)
(* weights and every comparison is exact.  Temperature is 0 or 1/k and is  *)
(* given as k; top_p and the draw are quarters.                            *)
(***************************************************************************)
EXTENDS Integers, Sequences, SequencesExt, FiniteSetsExt

NegInf == -1000000
PosInf == 1000000
NaN == 2000000
FloatMax == 100        \* a finite float; beyond it a product overflows
Span == 12             \* ExpF32 flushes to zero below -Span

Less(x, y) == x # NaN /\ y # NaN /\ x < y
Finite(x) == x \notin {NaN, PosInf, NegInf}
Rounded(n) == IF n > FloatMax THEN PosInf ELSE IF n < -FloatMax THEN NegInf ELSE n
Lift(x, F(_)) == IF Finite(x) THEN Rounded(F(x)) ELSE x
Total(weights) == FoldLeft(LAMBDA a, b : a + b, 0, weights)
Ids(row) == 1..Len(row)

\* ValidateSamplingParams, for what the stages read.  max_tokens and the stop
\* lists are TextStream's.
ValidateSamplingParams(p) ==
  /\ p.temperature >= 0 /\ p.top_k >= 0
  /\ p.top_p > 0 /\ p.top_p <= 4
  /\ p.repetition > 0 /\ p.presence \in -2..2 /\ p.frequency \in -2..2
  /\ p.logprobs \in 0..20

CheckFinite(row) ==
  /\ \A v \in Ids(row) : row[v] \notin {NaN, PosInf}
  /\ \E v \in Ids(row) : Finite(row[v])

-----------------------------------------------------------------------------
PenaltiesActive(p) == p.repetition # 1 \/ p.presence # 0 \/ p.frequency # 0

\* Ids outside the vocabulary are refused before any logit is touched.
HistoryInRange(row, ctx) == \A id \in Range(ctx.generated) \union Range(ctx.prompt) : id \in Ids(row)

Counts(ctx, id) == Cardinality({i \in DOMAIN ctx.generated : ctx.generated[i] = id})

Repeat(x, r) == Lift(x, LAMBDA n : IF n < 0 THEN n * r ELSE n \div r)

\* Repetition over prompt and generated, then frequency and presence over the
\* generated ids alone.
ApplyPenalties(row, ctx, p) ==
  [v \in Ids(row) |->
     LET x1 == IF v \in Range(ctx.generated) \union Range(ctx.prompt) THEN Repeat(row[v], p.repetition) ELSE row[v]
         n == Counts(ctx, v)
     IN  Lift(x1, LAMBDA x : x - p.frequency * n - (IF n > 0 THEN p.presence ELSE 0))]

ApplyTemperature(row, k) == [v \in Ids(row) |-> Lift(row[v], LAMBDA x : x * k)]

\* Mask what lies below the k-th largest; ties at the boundary survive.
ApplyTopK(row, k) ==
  IF k <= 0 \/ k >= Len(row) THEN row
  ELSE LET kth == SortSeq(row, LAMBDA a, b : a > b)[k]
       IN  [v \in Ids(row) |-> IF Less(row[v], kth) THEN NegInf ELSE row[v]]

MaxOf(row) == Max({row[v] : v \in Ids(row)})
ExpF32(d) == IF d < -Span THEN 0 ELSE 2 ^ (Span + d)

\* A row whose maximum overflowed to +inf has only NaN probabilities.
Softmax(row) ==
  IF MaxOf(row) = PosInf THEN [v \in Ids(row) |-> NaN]
  ELSE [v \in Ids(row) |-> IF row[v] = NegInf THEN 0 ELSE ExpF32(row[v] - MaxOf(row))]

Positive(probs, v) == probs[v] # NaN /\ probs[v] > 0
Ahead(probs, a, b) == probs[a] > probs[b] \/ (probs[a] = probs[b] /\ a < b)

\* Mutant: the order kept from the row before is not cleared.
TopPOrderKept(probs, old) ==
  old \o SortSeq(SelectSeq([v \in Ids(probs) |-> v], LAMBDA v : Positive(probs, v)), LAMBDA a, b : Ahead(probs, a, b))

\* The positive ids, likeliest first, over whatever order held before.
TopPOrder(probs, old) ==
  SortSeq(SelectSeq([v \in Ids(probs) |-> v], LAMBDA v : Positive(probs, v)), LAMBDA a, b : Ahead(probs, a, b))

\* How many of order are kept: up to and with the one that reaches top_p.
Kept(probs, order, top_p) ==
  LET mass(n) == Total([i \in 1..n |-> probs[order[i]]])
      reach == {n \in DOMAIN order : 4 * mass(n) >= top_p * Total(probs)}
  IN  IF reach = {} THEN Len(order) ELSE Min(reach)

ApplyTopP(probs, top_p, old) ==
  IF top_p >= 4 THEN [probs |-> probs, order |-> old]
  ELSE LET order == TopPOrder(probs, old)
           dropped == {order[i] : i \in (Kept(probs, order, top_p) + 1)..Len(order)}
       IN  [probs |-> [v \in Ids(probs) |-> IF v \in dropped THEN 0 ELSE probs[v]], order |-> order]

\* The first id whose cumulative mass passes u; the last positive one when u
\* rounds up to the whole mass; 0 (the code's -1) when none is positive.
SelectByCdf(probs, u) ==
  LET mass(v) == Total(SubSeq(probs, 1, v))
      past == {v \in Ids(probs) : 4 * mass(v) > u * mass(Len(probs)) /\ probs[v] > 0}
      positive == {v \in Ids(probs) : Positive(probs, v)}
  IN  IF positive = {} THEN 0
      ELSE IF past = {} THEN Max(positive) ELSE Min(past)

-----------------------------------------------------------------------------
\* log-softmax up to the row's own constant: the shifted logit and the mass.
LogSoftmax(row) == [v \in Ids(row) |-> IF Finite(row[v]) THEN row[v] - MaxOf(row) ELSE NegInf]

ExtractLogprobs(lp, row, chosen, n) ==
  LET order == SortSeq([v \in Ids(lp) |-> v], LAMBDA a, b : Ahead(lp, a, b))
      top == SubSeq(order, 1, Min({n, Len(lp)}))
  IN  [z |-> Total(Softmax(row)), chosen |-> lp[chosen],
       top |-> SelectSeq([i \in DOMAIN top |-> <<top[i], lp[top[i]]>>], LAMBDA e : e[2] # NegInf)]

\* Strict > scan: the lowest index of the maximum; a NaN in front hides all.
ArgmaxRow(row) ==
  IF row[1] = NaN THEN 0
  ELSE LET best == MaxOf([v \in Ids(row) |-> IF row[v] = NaN THEN NegInf ELSE row[v]])
       IN  Min({v \in Ids(row) : row[v] = best})

Fresh == [logits |-> <<>>, probs |-> <<>>, lp |-> <<>>, order |-> <<>>]   \* RowScratch
NoLogprobs == [z |-> 0, chosen |-> 0, top |-> <<>>]
Ok(token, lp, scratch) == [ok |-> TRUE, token |-> token, lp |-> lp, scratch |-> scratch]
Failed(scratch) == [ok |-> FALSE, token |-> 0, lp |-> NoLogprobs, scratch |-> scratch]

SampleGreedy(row, ctx, p, want, scratch) ==
  LET s1 == IF PenaltiesActive(p) THEN [scratch EXCEPT !.logits = row] ELSE scratch
      s2 == IF PenaltiesActive(p) THEN [s1 EXCEPT !.logits = ApplyPenalties(row, ctx, p)] ELSE s1
      seen == IF PenaltiesActive(p) THEN s2.logits ELSE row
      token == ArgmaxRow(seen)
      s3 == [s2 EXCEPT !.lp = LogSoftmax(seen)]
  IN  CASE PenaltiesActive(p) /\ ~HistoryInRange(row, ctx) -> Failed(s1)
        [] token = 0 -> Failed(s2)
        [] ~want -> Ok(token, NoLogprobs, s2)
        [] ~CheckFinite(seen) -> Failed(s2)
        [] OTHER -> Ok(token, ExtractLogprobs(s3.lp, seen, token, p.logprobs), s3)

\* The draw over the cut distribution, with the log-probabilities of the uncut row.
Draw(scaled, p, token, want, scratch) ==
  Ok(token, IF want /\ token # 0 THEN ExtractLogprobs(scratch.lp, scaled, token, p.logprobs) ELSE NoLogprobs, scratch)
DrawCut(scaled, masked, cut, p, u, want, scratch) ==
  Draw(scaled, p, SelectByCdf(cut.probs, u), want,
       [logits |-> masked, probs |-> cut.probs, lp |-> IF want THEN LogSoftmax(scaled) ELSE scratch.lp, order |-> cut.order])
DrawMasked(scaled, masked, p, u, want, scratch) ==
  DrawCut(scaled, masked, ApplyTopP(Softmax(masked), p.top_p, scratch.order), p, u, want, scratch)
DrawScaled(scaled, p, u, want, scratch) == DrawMasked(scaled, ApplyTopK(scaled, p.top_k), p, u, want, scratch)
SampleStochastic(row, ctx, p, u, want, scratch) ==
  CASE ~CheckFinite(row) -> Failed(scratch)
    [] PenaltiesActive(p) /\ ~HistoryInRange(row, ctx) -> Failed([scratch EXCEPT !.logits = row])
    [] OTHER -> DrawScaled(ApplyTemperature(IF PenaltiesActive(p) THEN ApplyPenalties(row, ctx, p) ELSE row, p.temperature),
                           p, u, want, scratch)

\* detail::SampleRow, with draw[step] for PhiloxUniformDouble(seed, step, 0).
SampleRow(row, ctx, p, draw, scratch) ==
  LET want == p.logprobs > 0
  IN  IF p.temperature = 0 THEN SampleGreedy(row, ctx, p, want, scratch)
      ELSE SampleStochastic(row, ctx, p, draw[Len(ctx.generated)], want, scratch)

-----------------------------------------------------------------------------
(***************************************************************************)
(* What a request may expect, stated without the stages' loops, scratch or *)
(* early exits.                                                            *)
(***************************************************************************)
Adjusted(row, ctx, p) ==
  [v \in Ids(row) |->
     LET n == Counts(ctx, v)
         seen == n > 0 \/ v \in Range(ctx.prompt)
         halved == IF ~seen \/ ~Finite(row[v]) THEN row[v]
                   ELSE IF row[v] < 0 THEN p.repetition * row[v] ELSE row[v] \div p.repetition
     IN  IF Finite(row[v]) THEN halved - n * p.frequency - (IF n > 0 THEN p.presence ELSE 0) ELSE row[v]]

\* v is in the support: fewer than top_k logits beat it, and what stands ahead
\* of it among those does not already hold top_p of their mass.
Weight(row, v) == IF row[v] = NegInf THEN 0 ELSE ExpF32(row[v] - MaxOf(row))
InTopK(row, v, k) == k = 0 \/ Cardinality({u \in Ids(row) : row[u] > row[v]}) < k
Mass(row, S) == MapThenSumSet(LAMBDA v : Weight(row, v), S)
Support(row, k, top_p) ==
  LET top == {v \in Ids(row) : InTopK(row, v, k) /\ Weight(row, v) > 0}
      ahead(v) == {u \in top : row[u] > row[v] \/ (row[u] = row[v] /\ u < v)}
  IN  {v \in top : top_p = 4 \/ 4 * Mass(row, ahead(v)) < top_p * Mass(row, top)}

\* Inverse CDF over the support, in id order.
Drawn(row, S, u) ==
  IF u = 4 THEN Max(S)
  ELSE CHOOSE v \in S : /\ 4 * Mass(row, {t \in S : t < v}) <= u * Mass(row, S)
                        /\ u * Mass(row, S) < 4 * Mass(row, {t \in S : t <= v})

\* Sample's error contract: a NaN or +inf logit is Internal, whatever the
\* temperature; a history id outside the vocabulary that a penalty would touch
\* is InvalidArgument; and a distribution needs a finite logit.
NonFinite(row) == \E v \in Ids(row) : row[v] \in {NaN, PosInf}
Refused(row, ctx, p) ==
  \/ PenaltiesActive(p) /\ ~HistoryInRange(row, ctx)
  \/ NonFinite(row)
  \/ (p.temperature > 0 \/ p.logprobs > 0) /\ ~\E v \in Ids(row) : Finite(row[v])

\* Where the code does not keep that contract: greedy, no log-probabilities asked
\* for, and the first logit not NaN, so that the scan's maximum is not NaN either.
GreedyOverlooks(row, p) ==
  p.temperature = 0 /\ p.logprobs = 0 /\ row[1] # NaN /\ NonFinite(row)

Scaled(row, ctx, p) ==
  [v \in Ids(row) |-> LET x == Adjusted(row, ctx, p)[v]
                      IN  IF Finite(x) /\ p.temperature > 0 THEN x * p.temperature ELSE x]

Expected(row, ctx, p, u) ==
  LET x == Scaled(row, ctx, p)
  IN  IF p.temperature > 0 THEN Drawn(x, Support(x, p.top_k, p.top_p), u)
      ELSE Min({v \in Ids(x) : x[v] # NaN /\ \A t \in Ids(x) : ~Less(x[v], x[t])})

\* No logit overflows when the temperature divides it.  Where one does, the
\* stages return id -1 with an OK status, which this policy says nothing about.
NoOverflow(row, ctx, p) == \A v \in Ids(row) : Finite(row[v]) => Scaled(row, ctx, p)[v] \in -FloatMax..FloatMax

(***************************************************************************)
(* A row's result is the policy's, whatever row its scratch slot served    *)
(* before: it fails exactly when the error contract says so, the rows that *)
(* GreedyOverlooks names excepted, and a token it gives is the policy's,   *)
(* with the logprobs of the whole vocabulary, whatever top-k and top-p cut *)
(* away.                                                                   *)
(***************************************************************************)
RowFollowsPolicy(row, ctx, p, draw, result) ==
  NoOverflow(row, ctx, p) =>
    LET x == Scaled(row, ctx, p)
    IN  /\ GreedyOverlooks(row, p) \/ result.ok = ~Refused(row, ctx, p)
        /\ result.ok => result.token = Expected(row, ctx, p, draw[Len(ctx.generated)])
        /\ result.ok /\ p.logprobs > 0 =>
             /\ result.lp.z = Mass(x, Ids(x))
             /\ result.lp.chosen = x[result.token] - MaxOf(x)
             /\ Len(result.lp.top) = Min({p.logprobs, Cardinality({v \in Ids(x) : x[v] # NegInf})})
             /\ \A i \in DOMAIN result.lp.top : \A v \in Ids(x) :
                  Less(x[result.lp.top[i][1]], x[v]) => \E j \in 1..(i - 1) : result.lp.top[j][1] = v
=============================================================================
