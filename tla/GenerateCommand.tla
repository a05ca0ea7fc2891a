-------------------------- MODULE GenerateCommand --------------------------
(***************************************************************************)
(* engine generate: the flags, the sizing of the KV cache and the order of *)
(* the run's steps.  An argument is a record: its text s, and for a number *)
(* its value n.  A std::sto* that throws, and a CHECK, end the process:    *)
(* Abort.  IntMax and LongMax scale the ranges of int32 and int64.         *)
(***************************************************************************)
EXTENDS Integers, Sequences, JsonNodes

IntMax == 127
LongMax == 100000
Abort == "Abort"
Word(s) == [s |-> s, numeric |-> FALSE, n |-> 0]
Number(n) == [s |-> "number", numeric |-> TRUE, n |-> n]
AsInt(n) == ((n + IntMax + 1) % (2 * (IntMax + 1))) - (IntMax + 1)

DefaultArgs ==
  [model_dir |-> "", prompt |-> "Hello", backend |-> "optimized", max_new_tokens |-> 64, cache_capacity |-> 0,
   paged_cache |-> TRUE, kv_block_size |-> 16, kv_cache_memory |-> "", add_bos |-> TRUE, top_k |-> 0,
   stop_strings |-> <<>>, stop_token_ids |-> <<>>]
\* Flags with an int64 or an int32 value; the other sampling flags read theirs alike.
LongFlags == [f \in {"--max-new-tokens", "--cache-capacity"} |-> IF f = "--max-new-tokens" THEN "max_new_tokens" ELSE "cache_capacity"]
IntFlags == [f \in {"--kv-block-size", "--top-k"} |-> IF f = "--kv-block-size" THEN "kv_block_size" ELSE "top_k"]
TextFlags == [f \in {"--model", "--prompt", "--kv-cache-memory"} |->
               CASE f = "--model" -> "model_dir" [] f = "--prompt" -> "prompt" [] OTHER -> "kv_cache_memory"]
ValueFlags == DOMAIN LongFlags \union DOMAIN IntFlags \union DOMAIN TextFlags
              \union {"--kv-cache", "--backend", "--stop", "--stop-token-id"}
ParseBackend(name) == Require(name \in {"reference", "optimized"}, Invalid)

Stol(v) == Require(v.numeric /\ v.n \in (-LongMax - 1)..LongMax, Abort)
\* One flag and its value: <<status, args>>.
ParseKvArg(args, f, v) ==
  CASE f = "--kv-cache-memory" -> <<Ok, [args EXCEPT !.kv_cache_memory = v.s]>>
    [] f = "--kv-block-size" -> <<Stol(v), [args EXCEPT !.kv_block_size = AsInt(v.n)]>>
    [] f = "--kv-cache" -> <<Require(v.s \in {"paged", "simple"}, Invalid), [args EXCEPT !.paged_cache = v.s = "paged"]>>
ParseFlag(args, f, v) ==
  CASE f \in {"--kv-cache-memory", "--kv-block-size", "--kv-cache"} -> ParseKvArg(args, f, v)
    [] f \in DOMAIN TextFlags \ {"--kv-cache-memory"} -> <<Ok, [args EXCEPT ![TextFlags[f]] = v.s]>>
    [] f \in DOMAIN LongFlags -> <<Stol(v), [args EXCEPT ![LongFlags[f]] = v.n]>>
    [] f = "--top-k" -> <<Stol(v), [args EXCEPT !.top_k = AsInt(v.n)]>>
    [] f = "--backend" -> <<ParseBackend(v.s), [args EXCEPT !.backend = v.s]>>
    [] f = "--stop" -> <<Ok, [args EXCEPT !.stop_strings = Append(@, v.s)]>>
    [] f = "--stop-token-id" -> <<Stol(v), [args EXCEPT !.stop_token_ids = Append(@, AsInt(v.n))]>>

RECURSIVE Walk(_, _, _)
Walk(argv, i, args) ==
  IF i > Len(argv) THEN <<Require(args.model_dir # "", Invalid), args>>
  ELSE LET f == argv[i].s
       IN IF f = "--no-bos" THEN Walk(argv, i + 1, [args EXCEPT !.add_bos = FALSE])
          ELSE IF f \notin ValueFlags \/ i = Len(argv) THEN <<Invalid, args>>
          ELSE LET r == ParseFlag(args, f, argv[i + 1])
               IN IF r[1] # Ok THEN r ELSE Walk(argv, i + 2, r[2])
ParseArgs(argv) == Walk(argv, 1, DefaultArgs)

-----------------------------------------------------------------------------
(* kv_budget.cpp.  A --kv-cache-memory text is its unit ("" for none), its  *)
(* number in quarters (<<>> when stod refuses it or it is negative or not   *)
(* finite) and whether it has a dot.  Multipliers are scaled.               *)
Units == [GiB |-> 512, MiB |-> 64, KiB |-> 8, GB |-> 125, MB |-> 25, KB |-> 5, B |-> 1]
MatchUnit(spec) == IF spec.unit \in DOMAIN Units THEN Units[spec.unit] ELSE 0
\* Above the range the conversion gives the most negative value.
llround(quarters) == LET r == (quarters + 2) \div 4 IN IF r > LongMax THEN -LongMax - 1 ELSE r
ParseKvCacheMemory(spec) ==
  LET absolute(quarters) == IF quarters < 4 THEN <<Invalid>> ELSE <<Ok, [kind |-> "bytes", bytes |-> llround(quarters)]>>
  IN IF spec.empty \/ spec.quarters = <<>> THEN <<Invalid>>
     ELSE IF MatchUnit(spec) # 0 THEN absolute(spec.quarters[1] * MatchUnit(spec))
     ELSE IF ~spec.dot THEN absolute(spec.quarters[1])
     ELSE IF spec.quarters[1] \in 1..4 THEN <<Ok, [kind |-> "fraction", quarters |-> spec.quarters[1]]>> ELSE <<Invalid>>
ResolveKvBudgetBytes(spec, host_ram, weights_bytes, workspace_bytes) ==
  LET budget == llround(spec.quarters * host_ram) - weights_bytes - workspace_bytes
  IN IF spec.kind = "bytes" THEN <<Ok, spec.bytes>>
     ELSE IF host_ram <= 0 THEN <<"FailedPrecondition">>
     ELSE IF budget <= 0 THEN <<"ResourceExhausted">> ELSE <<Ok, budget>>
\* Mutant: whole blocks only.
BlocksForTokensFloor(tokens, block_size) ==
  IF block_size <= 0 THEN <<Abort>> ELSE IF tokens <= 0 THEN <<Ok, 1>> ELSE <<Ok, tokens \div block_size>>
BlocksForTokens(tokens, block_size) ==
  IF block_size <= 0 THEN <<Abort>>
  ELSE IF tokens <= 0 THEN <<Ok, 1>> ELSE <<Ok, (tokens + block_size - 1) \div block_size>>

-----------------------------------------------------------------------------
(* block_pool.cpp and workspace.cpp: sizes.                                 *)
IsValidBlockSize(bs) == bs \in {8, 16, 32, 64}
ValidateGeometry(c) == Require(c.num_layers >= 1 /\ c.num_kv_heads >= 1 /\ c.head_dim >= 1, Invalid)
BlockBytes(c, bs) == 2 * c.num_layers * c.num_kv_heads * bs * c.head_dim * 4
BytesPerBlock(c, bs) ==
  Checked(ValidateGeometry(c) && (Require(IsValidBlockSize(bs), Invalid) && Require(BlockBytes(c, bs) <= LongMax, Invalid)),
          BlockBytes(c, bs))
NumBlocksForBudget(c, bs, budget) ==
  IF budget <= 0 THEN <<Invalid>>
  ELSE AssignOrReturn(BytesPerBlock(c, bs), LAMBDA per :
         IF budget \div per < 1 THEN <<"ResourceExhausted">> ELSE <<Ok, budget \div per>>)
BlockPoolCreate(c, bs, num_blocks) ==
  ValidateGeometry(c) && (Require(IsValidBlockSize(bs), Invalid) && (Require(num_blocks >= 1, Invalid)
  && Require(num_blocks * c.num_kv_heads * bs * c.head_dim * 4 <= LongMax, Invalid)))
WorkspaceBytes(c, t) ==
  LET q_rows == c.num_heads * c.head_dim
      kv_rows == c.num_kv_heads * c.head_dim
  IN 4 * t * (4 * c.hidden_size + 2 * q_rows + 2 * kv_rows + 2 * c.intermediate_size)

-----------------------------------------------------------------------------
(* main.cpp: a world gives what the other components answer: the statuses   *)
(* of loading, building, the tokenizer and the generation, the prompt's     *)
(* length, the weights' bytes, the host's memory and the memory flag's text.*)
ResolvePagedBlocks(args, w, worst_case_tokens) ==
  IF args.kv_cache_memory = "" THEN
    BlocksForTokens(IF args.cache_capacity > 0 THEN args.cache_capacity ELSE worst_case_tokens, args.kv_block_size)
  ELSE AssignOrReturn(ParseKvCacheMemory(w.memory), LAMBDA spec :
         AssignOrReturn(ResolveKvBudgetBytes(spec, w.host_ram, w.weights_bytes, WorkspaceBytes(w.config, worst_case_tokens)),
                        LAMBDA budget : NumBlocksForBudget(w.config, args.kv_block_size, budget)))
\* <<status>> or <<Ok, cache>>: its kind and its size in tokens or in blocks.
BuildSimple(c, capacity) ==
  Checked(ValidateGeometry(c) && Require(capacity >= 1, Invalid), [kind |-> "simple", size |-> capacity])
BuildKvCache(args, w, worst_case_tokens) ==
  IF ~args.paged_cache THEN BuildSimple(w.config, IF args.cache_capacity > 0 THEN args.cache_capacity ELSE worst_case_tokens)
  ELSE AssignOrReturn(ResolvePagedBlocks(args, w, worst_case_tokens), LAMBDA blocks :
         Checked(BlockPoolCreate(w.config, args.kv_block_size, blocks), [kind |-> "paged", size |-> blocks]))
RunGenerate(args, w) ==
  AssignOrReturn(Checked(w.load && (w.build && (w.tokenizer && Require(w.prompt_len > 0, Invalid))), w.prompt_len), LAMBDA n :
    AssignOrReturn(BuildKvCache(args, w, n + args.max_new_tokens), LAMBDA cache : <<w.generate, cache>>))
ExitCode(status) == CASE status = Ok -> 0 [] status = Abort -> 134 [] OTHER -> 1
Finished(args, run) == [exit |-> ExitCode(run[1]), args |-> args, run |-> run]
RunParsed(parsed, w) ==
  IF parsed[1] # Ok THEN [exit |-> IF parsed[1] = Abort THEN 134 ELSE 2, args |-> parsed[2], run |-> <<parsed[1]>>]
  ELSE Finished(parsed[2], RunGenerate(parsed[2], w))
main(argv, w) == RunParsed(ParseArgs(argv), w)

-----------------------------------------------------------------------------
\* A run that reaches the generation has a cache for it: sized in tokens it holds the capacity
\* asked for, or the whole request when none was, and by less than a block too much; sized in bytes
\* it keeps within the budget, a fraction with the weights and the workspace inside the host's
\* share.  The process aborts only on a number it cannot read or a block size that is not positive
\* in a run sized in tokens.
SizedForRequest(argv, w, r) ==
  LET a == r.args
      tokens == IF a.cache_capacity > 0 THEN a.cache_capacity ELSE w.prompt_len + a.max_new_tokens
      per == BytesPerBlock(w.config, a.kv_block_size)[2]
      spec == ParseKvCacheMemory(w.memory)[2]
      size == r.run[2].size
      unread == \E i \in 1..(Len(argv) - 1) :
                  argv[i].s \in DOMAIN LongFlags \union DOMAIN IntFlags \union {"--stop-token-id"} /\ Stol(argv[i + 1]) # Ok
  IN /\ Len(r.run) = 2 =>
          CASE r.run[2].kind = "simple" -> size = tokens /\ size >= 1
            [] r.run[2].kind = "paged" /\ a.kv_cache_memory = "" ->
                 size * a.kv_block_size >= tokens /\ (tokens >= 1 => (size - 1) * a.kv_block_size < tokens)
            [] OTHER ->
                 IF spec.kind = "bytes" THEN size * per <= spec.bytes
                 ELSE size * per + w.weights_bytes + WorkspaceBytes(w.config, w.prompt_len + a.max_new_tokens) <= llround(spec.quarters * w.host_ram)
     /\ r.exit = 134 => unread \/ (a.kv_block_size <= 0 /\ a.paged_cache /\ a.kv_cache_memory = "")
     /\ r.exit = 0 => Len(r.run) = 2 /\ a.model_dir # ""
=============================================================================
