------------------------------- MODULE Backends -------------------------------
(***************************************************************************)
(* What a checkpoint becomes: the tokenizer (BpeTokenizer::from_gguf,      *)
(* SpmTokenizer::from_gguf), the architecture's shape (LlamaConfig,        *)
(* Qwen35Config), and the backend with its weights (LlamaBackend,          *)
(* Qwen35Backend), part of them pinned.  A key stands for itself under the *)
(* checkpoint's architecture; <<l, name>> is the tensor blk.l.name.        *)
(***************************************************************************)
EXTENDS Checkpoint

-----------------------------------------------------------------------------
(* Tokenizers.                                                             *)

TokenType(g, i) ==
  LET types == Arr(g, "tokenizer.ggml.token_type")
  IN IF i \in DOMAIN types /\ IsInt(types[i]) THEN types[i].v ELSE 1

Control == 3
UserDefined == 4
Unused == 5

(* A merge is two texts, whatever the list's other entries are.            *)
IsMerge(v) == v.type = "pair"

(* Every byte must be reachable by merging ordinary text.                  *)
BpeLoads(g) ==
  LET ordinary == {i \in DOMAIN Tokens(g) : TokenType(g, i) \notin {Control, UserDefined, Unused}}
      lookup == {Tokens(g)[i].v : i \in {j \in ordinary : Tokens(g)[j].type = "string"}}
  IN /\ Str(g, "tokenizer.ggml.model") = "gpt2"
     /\ Tokens(g) # <<>>
     /\ \E v \in ToSet(Arr(g, "tokenizer.ggml.merges")) : IsMerge(v)
     /\ Alphabet \subseteq lookup

SpmLoads(g) ==
  /\ Str(g, "tokenizer.ggml.model") = "llama"
  /\ IsA(g, "tokenizer.ggml.tokens", "array")
  /\ \A v \in ToSet(Tokens(g)) : v.type = "string"

-----------------------------------------------------------------------------
(* LlamaConfig and LlamaBackend.                                           *)

LlamaShape(g) ==
  LET heads == U64(g, "attention.head_count", 0)
      kv == U64(g, "attention.head_count_kv", heads)
      d == U64(g, "embedding_length", 0)
  IN [d |-> d, f |-> U64(g, "feed_forward_length", 0), layers |-> U64(g, "block_count", 0),
      heads |-> heads, kvHeads |-> kv, headDim |-> d \div heads, kvDim |-> kv * (d \div heads),
      vocab |-> Len(Tokens(g)), context |-> U64(g, "context_length", 2048),
      experts |-> U64(g, "expert_count", 0), used |-> U64(g, "expert_used_count", 0)]

LlamaConfigures(g) ==
  LET heads == U64(g, "attention.head_count", 0)
      kv == U64(g, "attention.head_count_kv", heads)
  IN /\ Architecture(g) = "llama"
     /\ \A key \in {"embedding_length", "attention.head_count", "block_count",
                    "feed_forward_length"} : HasInt(g, key)
     /\ heads # 0 /\ kv # 0
     /\ U64(g, "embedding_length", 0) % heads = 0 /\ heads % kv = 0
     /\ IsA(g, "tokenizer.ggml.tokens", "array")

\* output.weight, where the head is not tied to the embeddings
HeadNeeds(g, c) ==
  IF HasTensor(g, <<"output">>) THEN {Weight(<<"output">>, c.vocab, c.d)} ELSE {}

(* The network of block l: experts stacked in one tensor, experts split    *)
(* over a tensor each, or one dense network.                               *)
FfnNeeds(g, c, l) ==
  LET router == Weight(<<l, "ffn_gate_inp">>, c.experts, c.d)
      Split(name, rows, cols) == {Weight(<<l, name, e>>, rows, cols) : e \in 0..(c.experts - 1)}
  IN IF c.experts > 0 /\ HasTensor(g, <<l, "ffn_gate_exps">>)
     THEN {router, Weight(<<l, "ffn_gate_exps">>, c.experts * c.f, c.d),
           Weight(<<l, "ffn_up_exps">>, c.experts * c.f, c.d),
           Weight(<<l, "ffn_down_exps">>, c.experts * c.d, c.f)}
     ELSE IF c.experts > 0 /\ HasTensor(g, <<l, "ffn_gate", 0>>)
     THEN {router} \cup Split("ffn_gate", c.f, c.d) \cup Split("ffn_up", c.f, c.d)
            \cup Split("ffn_down", c.d, c.f)
     ELSE {Weight(<<l, "ffn_gate">>, c.f, c.d), Weight(<<l, "ffn_up">>, c.f, c.d),
           Weight(<<l, "ffn_down">>, c.d, c.f)}

LlamaNeeds(g, c) ==
  {Weight(<<"token_embd">>, c.vocab, c.d), Norm(<<"output_norm">>, c.d)} \cup HeadNeeds(g, c)
    \cup UNION {{Norm(<<l, "attn_norm">>, c.d), Norm(<<l, "ffn_norm">>, c.d),
                 Weight(<<l, "attn_q">>, c.d, c.d), Weight(<<l, "attn_k">>, c.kvDim, c.d),
                 Weight(<<l, "attn_v">>, c.kvDim, c.d), Weight(<<l, "attn_output">>, c.d, c.d)}
                  \cup FfnNeeds(g, c, l) : l \in 0..(c.layers - 1)}

\* Norms are expanded whatever the rest is.
SourceOf(g, mmap, need) == IF mmap /\ ~need.norm THEN Mapped(g) ELSE InRam(g)

Backend(weights, spans, pinnedBytes) ==
  [weights |-> weights, spans |-> spans, pinnedBytes |-> pinnedBytes]

LlamaLoads(g, mmap) ==
  /\ LlamaConfigures(g)
  /\ \A need \in LlamaNeeds(g, LlamaShape(g)) : Loads(g, SourceOf(g, mmap, need), need)

LlamaBackend(g, mmap) ==
  Backend({WeightAt(g, SourceOf(g, mmap, need), need) : need \in LlamaNeeds(g, LlamaShape(g))},
          <<>>, 0)

(* The range begins where the expert's rows would if each were one block.  *)
BugExpertRange(w, e, block) ==
  [start |-> w.start + e * ByteSize(w.type, w.cols),
   len |-> block * ByteSize(w.type, w.cols)]

(* byte_range, of a stacked matrix: where the rows of expert e are.        *)
ExpertRange(w, e, block) ==
  [start |-> w.start + e * block * ByteSize(w.type, w.cols),
   len |-> block * ByteSize(w.type, w.cols)]

(* byte_range, of an expert's own matrix: all of it.                       *)
OwnRange(w, block) == [start |-> w.start, len |-> ByteSize(w.type, block * w.cols)]

(* expert_page_ranges: what to warm for expert e of block l.  A stacked    *)
(* matrix whose rows are not whole blocks of its type has no ranges.       *)
ExpertPageRanges(b, c, l, e) ==
  LET packed == {w \in b.weights : w.src.kind = "mapped"}
      Rows(name) == IF name = "ffn_down" THEN c.d ELSE c.f
      Stacked(name, exps) ==
        {ExpertRange(w, e, Rows(name)) :
           w \in {v \in packed : v.name = <<l, exps>> /\ Sized(v.type, v.cols)}}
      Split(name) ==
        {OwnRange(w, Rows(name)) :
           w \in {v \in packed : v.name = <<l, name, e>> /\ Sized(v.type, Rows(name) * v.cols)}}
  IN Stacked("ffn_gate", "ffn_gate_exps") \cup Stacked("ffn_up", "ffn_up_exps")
       \cup Stacked("ffn_down", "ffn_down_exps")
       \cup UNION {Split(name) : name \in {"ffn_gate", "ffn_up", "ffn_down"}}

-----------------------------------------------------------------------------
(* Qwen35Config and Qwen35Backend.                                         *)

Qwen35Configures(g) ==
  LET headDim == U64(g, "attention.key_length", 0)
      heads == U64(g, "attention.head_count", 0)
      kv == U64(g, "attention.head_count_kv", 0)
      keys == U64(g, "ssm.group_count", 0)
      values == U64(g, "ssm.time_step_rank", 0)
      inner == U64(g, "ssm.inner_size", 0)
  IN /\ Architecture(g) = "qwen35"
     /\ \A key \in {"embedding_length", "block_count", "attention.head_count",
                    "attention.head_count_kv", "attention.key_length", "feed_forward_length",
                    "ssm.conv_kernel", "ssm.state_size", "ssm.group_count",
                    "ssm.time_step_rank", "ssm.inner_size"} : HasInt(g, key)
     /\ U64(g, "nextn_predict_layers", 0) < U64(g, "block_count", 0)
     /\ heads # 0 /\ kv # 0 /\ heads % kv = 0
     /\ U64(g, "attention.value_length", headDim) = headDim
     /\ keys # 0 /\ values # 0 /\ values % keys = 0
     /\ U64(g, "ssm.conv_kernel", 0) >= 2
     /\ inner % values = 0 /\ inner \div values = U64(g, "ssm.state_size", 0)
     /\ U64(g, "full_attention_interval", 4) # 0
     /\ IsA(g, "tokenizer.ggml.tokens", "array")

(* The blocks with a recurrence: those the file lists, if it lists enough  *)
(* of them, or else all but the last of each group.                        *)
RecurrentBlocks(g, layers) ==
  LET list == Arr(g, "attention.recurrent_layers")
  IN {l \in 0..(layers - 1) :
        IF Len(list) >= layers THEN Flag(list[l + 1])
        ELSE (l + 1) % U64(g, "full_attention_interval", 4) # 0}

Qwen35Shape(g) ==
  LET layers == U64(g, "block_count", 0) - U64(g, "nextn_predict_layers", 0)
      headDim == U64(g, "attention.key_length", 0)
      keyDim == U64(g, "ssm.group_count", 0) * U64(g, "ssm.state_size", 0)
      valueDim == U64(g, "ssm.inner_size", 0)
  IN [d |-> U64(g, "embedding_length", 0), f |-> U64(g, "feed_forward_length", 0),
      layers |-> layers, recurrent |-> RecurrentBlocks(g, layers), headDim |-> headDim,
      attnDim |-> U64(g, "attention.head_count", 0) * headDim,
      kvDim |-> U64(g, "attention.head_count_kv", 0) * headDim,
      kernel |-> U64(g, "ssm.conv_kernel", 0), values |-> U64(g, "ssm.time_step_rank", 0),
      valueHead |-> U64(g, "ssm.state_size", 0), valueDim |-> valueDim,
      convDim |-> 2 * keyDim + valueDim,
      vocab |-> Len(Tokens(g)), context |-> U64(g, "context_length", 4096)]

MixerNeeds(c, l) ==
  IF l \in c.recurrent
  THEN {Weight(<<l, "attn_qkv">>, c.convDim, c.d), Weight(<<l, "attn_gate">>, c.valueDim, c.d),
        Norm(<<l, "ssm_conv1d">>, c.convDim * c.kernel),
        Weight(<<l, "ssm_beta">>, c.values, c.d), Weight(<<l, "ssm_alpha">>, c.values, c.d),
        Norm(<<l, "ssm_dt">>, c.values), Norm(<<l, "ssm_a">>, c.values),
        Norm(<<l, "ssm_norm">>, c.valueHead), Weight(<<l, "ssm_out">>, c.d, c.valueDim)}
  ELSE {Weight(<<l, "attn_q">>, 2 * c.attnDim, c.d), Weight(<<l, "attn_k">>, c.kvDim, c.d),
        Weight(<<l, "attn_v">>, c.kvDim, c.d), Weight(<<l, "attn_output">>, c.d, c.attnDim),
        Norm(<<l, "attn_q_norm">>, c.headDim), Norm(<<l, "attn_k_norm">>, c.headDim)}

BlockNeeds(c, l) ==
  MixerNeeds(c, l) \cup
    {Norm(<<l, "attn_norm">>, c.d), Norm(<<l, "post_attention_norm">>, c.d),
     Weight(<<l, "ffn_gate">>, c.f, c.d), Weight(<<l, "ffn_up">>, c.f, c.d),
     Weight(<<l, "ffn_down">>, c.d, c.f)}

Qwen35Needs(g, c) ==
  {Weight(<<"token_embd">>, c.vocab, c.d), Norm(<<"output_norm">>, c.d)} \cup HeadNeeds(g, c)
    \cup UNION {BlockNeeds(c, l) : l \in 0..(c.layers - 1)}

NoSpan == [start |-> 0, len |-> 0]

(* block_spans: from the first byte of a block's tensors to their last; a  *)
(* tensor of an unknown type counts as a place.                            *)
BlockSpan(g, l) ==
  LET ts == {t \in ToSet(g.tensors) : Len(t.name) > 1 /\ t.name[1] = l}
      Bytes(t) == IF Sized(t.type, NElements(t)) THEN ByteSize(t.type, NElements(t)) ELSE 0
      first == Min({StartOf(g, t) : t \in ts})
  IN IF ts = {} THEN NoSpan
     ELSE [start |-> first, len |-> Max({StartOf(g, t) + Bytes(t) : t \in ts}) - first]

(* The bytes of the head, as if it had the shape it should have.           *)
HeadSpan(g, c) ==
  IF ~HasTensor(g, <<"output">>) \/ ~Sized(TensorOf(g, <<"output">>).type, c.vocab * c.d)
  THEN {}
  ELSE LET t == TensorOf(g, <<"output">>)
       IN {[start |-> StartOf(g, t), len |-> ByteSize(t.type, c.vocab * c.d)]}

(* A block is pinned while any of the budget is left.                      *)
BugPins(g, c, budget) ==
  LET Block(have, l) ==
        LET len == BlockSpan(g, l).len
        IN IF len > 0 /\ have.bytes < budget
           THEN [bytes |-> have.bytes + len, blocks |-> have.blocks \cup {l}] ELSE have
      held == FoldLeft(Block, [bytes |-> 0, blocks |-> {}], [i \in 1..c.layers |-> i - 1])
  IN [head |-> {}, blocks |-> held.blocks, bytes |-> held.bytes]

(* from_gguf_pinned spends its budget on the head, then on whole blocks.   *)
Pins(g, c, budget) ==
  LET head == {span \in HeadSpan(g, c) : span.len <= budget}
      taken == IF head = {} THEN 0 ELSE (CHOOSE span \in head : TRUE).len
      Block(have, l) ==
        LET len == BlockSpan(g, l).len
        IN IF len > 0 /\ have.bytes + len <= budget
           THEN [bytes |-> have.bytes + len, blocks |-> have.blocks \cup {l}] ELSE have
      held == FoldLeft(Block, [bytes |-> taken, blocks |-> {}], [i \in 1..c.layers |-> i - 1])
  IN [head |-> head, blocks |-> held.blocks, bytes |-> held.bytes]

(* The memory a weight of the checkpoint is read from.                     *)
PlaceOf(g, mmap, pins, need) ==
  IF need.norm THEN InRam(g)
  ELSE IF need.name = <<"output">> /\ pins.head # {}
  THEN Owned(CHOOSE span \in pins.head : TRUE)
  ELSE IF Len(need.name) > 1 /\ need.name[1] \in pins.blocks
  THEN Owned(BlockSpan(g, need.name[1]))
  ELSE SourceOf(g, mmap, need)

\* Without a map everything is in RAM already.
Budget(mmap, budget) == IF mmap THEN budget ELSE 0

\* The backend of shape c with pins held: whether it loads, and what it is.
PinsLoad(g, mmap, c, pins) ==
  /\ \A span \in pins.head \cup {BlockSpan(g, l) : l \in pins.blocks} :
       span.start + span.len <= g.length
  /\ \A need \in Qwen35Needs(g, c) : Loads(g, PlaceOf(g, mmap, pins, need), need)

Pinned(g, mmap, c, pins) ==
  Backend({WeightAt(g, PlaceOf(g, mmap, pins, need), need) : need \in Qwen35Needs(g, c)},
          [l \in 0..(c.layers - 1) |-> IF l \in pins.blocks THEN NoSpan ELSE BlockSpan(g, l)],
          pins.bytes)

Qwen35Loads(g, mmap, budget) ==
  /\ Qwen35Configures(g)
  /\ PinsLoad(g, mmap, Qwen35Shape(g), Pins(g, Qwen35Shape(g), Budget(mmap, budget)))

Qwen35Backend(g, mmap, budget) ==
  Pinned(g, mmap, Qwen35Shape(g), Pins(g, Qwen35Shape(g), Budget(mmap, budget)))
=============================================================================
