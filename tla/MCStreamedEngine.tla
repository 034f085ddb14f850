--------------------------- MODULE MCStreamedEngine ---------------------------
(* An instance of StreamedEngine for TLC: two good files of each kind, and *)
(* what is wrong with one of them in one place.                            *)
EXTENDS StreamedEngine

CONSTANTS p1, p2, r1, r2, past

\* The ring's file: three blocks of one or two pieces and a tensor of a block
\* past the stack, block 1 before block 0.
MCTensors ==
  {[block |-> 1, start |-> 0, len |-> 1],
   [block |-> 0, start |-> 1, len |-> 1], [block |-> 0, start |-> 2, len |-> 1],
   [block |-> 2, start |-> 3, len |-> 1],
   [block |-> past, start |-> 4, len |-> 1]}

-----------------------------------------------------------------------------
(* Headers.                                                                *)

N(n) == [type |-> "u32", v |-> n]
S(v) == [type |-> "string", v |-> v]
A(of, items) == [type |-> "array", of |-> of, v |-> items]
KV(key, value) == [key |-> key, bytes |-> 4, value |-> value]

TokenList(n) == KV("tokenizer.ggml.tokens", A("string", SubSeq(<<S("a"), S("b"), S("c")>>, 1, n)))

QwenKVs ==
  <<KV("general.architecture", S("qwen35")),
    KV("tokenizer.ggml.model", S("gpt2")), TokenList(2),
    KV("tokenizer.ggml.merges", A("string", <<[type |-> "pair", v |-> <<"a", "b">>], S("a")>>)),
    KV("tokenizer.ggml.token_type", A("i32", <<[type |-> "i32", v |-> 1], [type |-> "i32", v |-> 1]>>)),
    KV("embedding_length", N(256)), KV("block_count", N(4)), KV("nextn_predict_layers", N(1)),
    KV("attention.head_count", N(1)), KV("attention.head_count_kv", N(1)),
    KV("attention.key_length", N(2)), KV("feed_forward_length", N(2)),
    KV("ssm.conv_kernel", N(2)), KV("ssm.state_size", N(2)), KV("ssm.group_count", N(1)),
    KV("ssm.time_step_rank", N(1)), KV("ssm.inner_size", N(2)),
    KV("attention.recurrent_layers",
       A("u32", <<N(1), [type |-> "bool", v |-> FALSE], N(0), N(0)>>))>>

LlamaKVs(experts) ==
  <<KV("general.architecture", S("llama")),
    KV("tokenizer.ggml.model", S("llama")), TokenList(2),
    KV("embedding_length", N(32)), KV("block_count", N(2)), KV("feed_forward_length", N(64)),
    KV("attention.head_count", N(2)), KV("attention.head_count_kv", N(1)),
    KV("expert_count", N(experts)), KV("expert_used_count", N(1))>>

-----------------------------------------------------------------------------
(* Files: tensors one after the other, each aligned to 32 bytes.           *)

T(name, type, rows, cols) ==
  [name |-> name, bytes |-> 8, type |-> type, dims |-> <<cols, rows>>, finite |-> TRUE]
V(name, n) == [name |-> name, bytes |-> 8, type |-> "F32", dims |-> <<n>>, finite |-> TRUE]

QwenBlock(l, types) ==
  <<V(<<l, "attn_norm">>, 256), V(<<l, "post_attention_norm">>, 256),
    T(<<l, "ffn_gate">>, types[1], 2, 256), T(<<l, "ffn_up">>, types[2], 2, 256),
    T(<<l, "ffn_down">>, "F16", 256, 2)>>
    \o IF l = 0
       THEN <<T(<<l, "attn_qkv">>, types[3], 6, 256), T(<<l, "attn_gate">>, types[1], 2, 256),
              V(<<l, "ssm_conv1d">>, 12), T(<<l, "ssm_beta">>, "F32", 1, 256),
              T(<<l, "ssm_alpha">>, "F32", 1, 256), V(<<l, "ssm_dt">>, 1), V(<<l, "ssm_a">>, 1),
              V(<<l, "ssm_norm">>, 2), T(<<l, "ssm_out">>, "F16", 256, 2)>>
       ELSE <<T(<<l, "attn_q">>, types[3], 4, 256), T(<<l, "attn_k">>, types[2], 2, 256),
              T(<<l, "attn_v">>, types[1], 2, 256), T(<<l, "attn_output">>, "F16", 256, 2),
              V(<<l, "attn_q_norm">>, 2), V(<<l, "attn_k_norm">>, 2)>>

\* Block 1 lies before block 0, and a block past the stack predicts ahead.
QwenTensors ==
  <<T(<<"token_embd">>, "Q2_K", 2, 256), V(<<"output_norm">>, 256),
    T(<<"output">>, "Q6_K", 2, 256)>>
    \o QwenBlock(1, <<"Q4_K", "Q3_K", "Q2_K">>) \o QwenBlock(0, <<"Q5_K", "Q8_0", "Q4_0">>)
    \o QwenBlock(2, <<"Q6_K", "Q4_K", "Q3_K">>) \o <<T(<<3, "ffn_gate">>, "Q4_K", 2, 256)>>

LlamaFfn(l, kind) ==
  CASE kind = "dense" ->
         <<T(<<l, "ffn_gate">>, "Q8_0", 64, 32), T(<<l, "ffn_up">>, "Q4_0", 64, 32),
           T(<<l, "ffn_down">>, "Q8_0", 32, 64)>>
    [] kind = "stacked" ->
         <<T(<<l, "ffn_gate_inp">>, "F32", 2, 32), T(<<l, "ffn_gate_exps">>, "Q8_0", 128, 32),
           T(<<l, "ffn_up_exps">>, "Q4_0", 128, 32), T(<<l, "ffn_down_exps">>, "Q8_0", 64, 64)>>
    [] kind = "split" ->
         <<T(<<l, "ffn_gate_inp">>, "F32", 2, 32)>>
           \o FlattenSeq([e \in 1..2 |->
                <<T(<<l, "ffn_gate", e - 1>>, "Q8_0", 64, 32),
                  T(<<l, "ffn_up", e - 1>>, "Q4_0", 64, 32),
                  T(<<l, "ffn_down", e - 1>>, "Q8_0", 32, 64)>>])

\* The head is tied to the embeddings where there is no output tensor.
LlamaTensors(kind) ==
  <<T(<<"token_embd">>, "Q8_0", 2, 32), V(<<"output_norm">>, 32)>>
    \o (IF kind = "dense" THEN <<>> ELSE <<T(<<"output">>, "F16", 2, 32)>>)
    \o FlattenSeq([i \in 1..2 |->
         <<V(<<i - 1, "attn_norm">>, 32), V(<<i - 1, "ffn_norm">>, 32),
           T(<<i - 1, "attn_q">>, "Q8_0", 32, 32), T(<<i - 1, "attn_k">>, "Q4_0", 16, 32),
           T(<<i - 1, "attn_v">>, "F16", 16, 32), T(<<i - 1, "attn_output">>, "Q8_0", 32, 32)>>
           \o LlamaFfn(i - 1, kind)])

SizeOf(t) == IF Sized(t.type, NElements(t)) THEN ByteSize(t.type, NElements(t)) ELSE 32

File(kvs, tensors) ==
  LET Put(have, t) ==
        [end |-> 32 * ((have.end + SizeOf(t) + 31) \div 32),
         ts |-> Append(have.ts, [name |-> t.name, bytes |-> t.bytes, type |-> t.type,
                                 dims |-> t.dims, finite |-> t.finite, offset |-> have.end])]
      laid == FoldLeft(Put, [end |-> 0, ts |-> <<>>], tensors)
      f == [magic |-> TRUE, version |-> 3, length |-> 1000000, kvs |-> kvs, tensors |-> laid.ts,
            claims |-> [tensors |-> Len(tensors), kvs |-> Len(kvs)]]
  IN [f EXCEPT !.length = Parse(f).data + laid.end]

-----------------------------------------------------------------------------
(* What is wrong with a file, in one place.                                *)

\* One tensor is missing, short, of too many dimensions, of an unknown type,
\* or not finite.
TensorFaults == <<"missing", "short", "spread", "unknown", "infinite">>

SpoilTensors(ts, fault, i) ==
  CASE fault = "missing" -> RemoveAt(ts, i)
    [] fault = "short" -> [ts EXCEPT ![i].dims = Append(Tail(@), @[1] \div 2)]
    [] fault = "spread" -> [ts EXCEPT ![i].dims = Append(@, 2)]
    [] fault = "unknown" -> [ts EXCEPT ![i].type = "Q4_1"]
    [] fault = "infinite" -> [ts EXCEPT ![i].finite = FALSE]
    [] OTHER -> ts

\* One key is missing, zero, or a text; a word more than there are rows.
KeyFaults == <<"undeclared", "zero", "text">>

SpoilKVs(kvs, fault, i) ==
  CASE fault = "undeclared" -> RemoveAt(kvs, i)
    [] fault = "zero" -> [kvs EXCEPT ![i].value = N(0)]
    [] fault = "text" -> [kvs EXCEPT ![i].value = S("x")]
    [] fault = "wordy" -> [kvs EXCEPT ![i] = TokenList(3)]
    [] OTHER -> kvs

\* The header itself, and files that end early.
Broken(f) ==
  <<[f EXCEPT !.magic = FALSE], [f EXCEPT !.version = 1],
    [f EXCEPT !.claims.tensors = 1000], [f EXCEPT !.claims.kvs = 1000],
    [f EXCEPT !.length = 20], [f EXCEPT !.length = 60], [f EXCEPT !.length = 700],
    [f EXCEPT !.length = @ - 65], [f EXCEPT !.length = @ - 1],
    [f EXCEPT !.tensors[1].dims = <<2, 2, 2, 2, 2>>],
    [f EXCEPT !.tensors[2].offset = 1000000]>>

SpoilFile(f, fault, i) == IF fault = "broken" THEN Broken(f)[i] ELSE f

KVsOf(model) ==
  IF model = "qwen" THEN QwenKVs ELSE LlamaKVs(IF model = "dense" THEN 0 ELSE 2)
TensorsOf(model) == IF model = "qwen" THEN QwenTensors ELSE LlamaTensors(model)

FileOf(d) ==
  IF d.model = "none" THEN File(<<>>, <<>>)
  ELSE SpoilFile(File(SpoilKVs(KVsOf(d.model), d.fault, d.at),
                      SpoilTensors(TensorsOf(d.model), d.fault, d.at)), d.fault, d.at)

-----------------------------------------------------------------------------
(* The files there are.                                                    *)

Spoilt(model, fault, i) == [model |-> model, fault |-> fault, at |-> i]
Good(model) == Spoilt(model, "none", 0)

\* Each of the faults at each of the places.
Each(model, faults, places) ==
  FlattenSeq([k \in DOMAIN faults |->
                [i \in DOMAIN places |-> Spoilt(model, faults[k], places[i])]])

Places(n) == [i \in 1..n |-> i]
Headers(model, keys) == Each(model, <<"broken">>, Places(11)) \o Each(model, KeyFaults, Places(keys))

-----------------------------------------------------------------------------
(* What is started.                                                        *)

Plain ==
  [gpu |-> FALSE, gguf |-> TRUE, draft |-> FALSE, mmap |-> TRUE, draftMmap |-> TRUE,
   prefetch |-> TRUE, predictor |-> TRUE, routerKnown |-> TRUE, topK |-> 1, experts |-> 2,
   samplingValid |-> TRUE, badSizes |-> {}, context |-> 4, window |-> 0, zeros |-> {},
   emptyKey |-> FALSE, budget |-> 0, spill |-> FALSE]

With(configs, files) ==
  FlattenSeq([i \in DOMAIN configs |->
    [j \in DOMAIN files |-> [config |-> configs[i], file |-> files[j], draft |-> Good("none")]]])

Synthetic == [Plain EXCEPT !.gguf = FALSE]

Configs ==
  <<[Plain EXCEPT !.gpu = TRUE], [Plain EXCEPT !.samplingValid = FALSE],
    [Plain EXCEPT !.badSizes = {"expert_cache"}], [Plain EXCEPT !.badSizes = {"weight_cache"}],
    [Plain EXCEPT !.context = 0], [Plain EXCEPT !.window = 5], [Plain EXCEPT !.zeros = {"timeout"}],
    [Plain EXCEPT !.emptyKey = TRUE], [Plain EXCEPT !.spill = TRUE], [Plain EXCEPT !.prefetch = FALSE],
    Synthetic, [Synthetic EXCEPT !.draft = TRUE], [Synthetic EXCEPT !.topK = 3],
    [Synthetic EXCEPT !.routerKnown = FALSE], [Synthetic EXCEPT !.predictor = FALSE]>>

\* Nothing pinned; the head and block 1; the head; no more; everything.
Budgets == <<0, 6000, 500, 5500, 100000>>
Pinning == [i \in DOMAIN Budgets |-> [Plain EXCEPT !.budget = Budgets[i]]]
InMemory == [Plain EXCEPT !.mmap = FALSE]

\* A tensor of every kind: the head's, a block of each mixer's, the experts'.
QwenKinds == <<1, 2, 3, 4, 6, 8, 9, 13, 18, 20, 22, 26, 28>>
LlamaKinds == <<1, 2, 3, 4, 6, 9, 10, 11, 13>>

Drafted(config, file, draft) ==
  [config |-> [config EXCEPT !.draft = TRUE], file |-> file, draft |-> draft]

Started ==
  With(Pinning \o Configs, <<Good("qwen")>>)
    \o With(<<Plain, InMemory>>, <<Good("dense"), Good("stacked"), Good("split")>>)
    \o With(<<Plain, Pinning[5], InMemory>>, Each("qwen", TensorFaults, QwenKinds))
    \o With(<<Plain, InMemory>>, Each("stacked", TensorFaults, LlamaKinds)
                                   \o Each("split", TensorFaults, LlamaKinds))
    \o With(<<Plain>>, Headers("qwen", Len(QwenKVs)) \o Headers("split", Len(LlamaKVs(2))))
    \o <<Drafted(Plain, Good("qwen"), Good("qwen")), Drafted(Plain, Good("dense"), Good("split")),
         Drafted(Plain, Good("qwen"), Good("stacked")),
         Drafted([Plain EXCEPT !.draftMmap = FALSE], Good("qwen"), Good("qwen")),
         Drafted(Plain, Good("qwen"), Spoilt("dense", "wordy", 3)),
         Drafted(Plain, Good("dense"), Spoilt("qwen", "broken", 1))>>

FilesOf(cases) ==
  [i \in DOMAIN cases |->
     [config |-> cases[i].config, file |-> FileOf(cases[i].file), draft |-> FileOf(cases[i].draft)]]

MCCases == FilesOf(Started)
=============================================================================
