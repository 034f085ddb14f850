------------------------------ MODULE Checkpoint ------------------------------
(***************************************************************************)
(* Loading a checkpoint: the GGUF header (gguf::Gguf::parse), the shape it *)
(* declares (LlamaConfig, Qwen35Config), the tokenizer it needs, and the   *)
(* weights, each expanded in RAM, packed in the mapped file, or packed in  *)
(* a buffer that holds a part of the file (llama::Weight).  A file is a    *)
(* record of what its header says and of how many bytes it has; a loader   *)
(* is the condition on which it succeeds and the value it then returns.    *)
(***************************************************************************)
EXTENDS Quant

CONSTANT Alphabet    \* the 256 byte characters, as few as matter

-----------------------------------------------------------------------------
(* The header.                                                             *)

SumOf(sizes) == FoldFunction(+, 0, sizes)

(* Cursor::string, of n bytes.                                             *)
StringBytes(n) == 8 + n

Width == [u8 |-> 1, bool |-> 1, i32 |-> 4, u32 |-> 4, f32 |-> 4, u64 |-> 8]

Items(value) == IF value.type = "array" THEN value.v ELSE <<>>

\* The deepest that a value is read.
Deepest == 8

\* The items of the arrays among some values.  An item is named by the name of
\* its array and its place there.
Inside(outer) ==
  [name \in UNION {{of} \X DOMAIN Items(outer[of]) : of \in DOMAIN outer} |->
     outer[name[1]].v[name[2]]]

(* Cursor::value: what there is at each depth of a value.                  *)
ByDepth(value) ==
  LET part[d \in 0..(Deepest + 1)] ==
        IF d = 0 THEN [name \in {<<>>} |-> value] ELSE Inside(part[d - 1])
  IN part

TooDeep(value) == DOMAIN ByDepth(value)[Deepest + 1] # {}

\* Without what is in it.  A "pair" is a string with a space in it.
OwnSize(value) ==
  CASE value.type \in {"string", "pair"} -> StringBytes(Len(value.v))
    [] value.type = "array" -> 12
    [] OTHER -> Width[value.type]

ValueBytes(value) ==
  LET SizeAt(part) == SumOf([name \in DOMAIN part |-> OwnSize(part[name])])
  IN SumOf([d \in 0..Deepest |-> SizeAt(ByDepth(value)[d])])

EntryBytes(kv) == StringBytes(kv.bytes) + 4 + ValueBytes(kv.value)

DescriptorBytes(t) == StringBytes(t.bytes) + 4 + 8 * Len(t.dims) + 12

PowersOfTwo == {2 ^ k : k \in 0..16}

IsInt(v) == v.type \in {"u8", "u32", "u64"} \/ (v.type = "i32" /\ v.v >= 0)

(* Gguf::parse, up to where the tensor data begins: what the file claims   *)
(* to hold could fit, and what it does hold is taken from within it.       *)
Parse(f) ==
  LET header == 24 + SumOf([i \in DOMAIN f.kvs |-> EntryBytes(f.kvs[i])])
                   + SumOf([i \in DOMAIN f.tensors |-> DescriptorBytes(f.tensors[i])])
      metadata == [key \in {kv.key : kv \in ToSet(f.kvs)} |->
                     f.kvs[Max({i \in DOMAIN f.kvs : f.kvs[i].key = key})].value]
      declared == IF "general.alignment" \in DOMAIN metadata
                  THEN metadata["general.alignment"] ELSE [type |-> "u32", v |-> 32]
      alignment == IF IsInt(declared) THEN declared.v ELSE 32
      ok == /\ f.magic /\ f.version \in 2..3
            /\ f.length >= header
            /\ f.claims.tensors <= (f.length - 24) \div 24
            /\ f.claims.kvs <= (f.length - 24) \div 13
            /\ \A kv \in ToSet(f.kvs) : ~TooDeep(kv.value)
            /\ \A t \in ToSet(f.tensors) : Len(t.dims) <= 4
            /\ alignment # 0 /\ alignment \in PowersOfTwo
  IN [ok |-> ok, metadata |-> metadata, tensors |-> f.tensors, length |-> f.length,
      data |-> IF ok THEN alignment * ((header + alignment - 1) \div alignment) ELSE 0]

Has(g, key) == key \in DOMAIN g.metadata
HasInt(g, key) == Has(g, key) /\ IsInt(g.metadata[key])
U64(g, key, default) == IF HasInt(g, key) THEN g.metadata[key].v ELSE default

IsA(g, key, type) == Has(g, key) /\ g.metadata[key].type = type
Str(g, key) == IF IsA(g, key, "string") THEN g.metadata[key].v ELSE ""
Arr(g, key) == IF IsA(g, key, "array") THEN g.metadata[key].v ELSE <<>>

(* as_bool: a flag may be a number.                                        *)
Flag(v) == IF v.type = "bool" THEN v.v ELSE IsInt(v) /\ v.v # 0

Architecture(g) == Str(g, "general.architecture")
Tokens(g) == Arr(g, "tokenizer.ggml.tokens")

-----------------------------------------------------------------------------
(* Tensors.                                                                *)

HasTensor(g, name) == \E t \in ToSet(g.tensors) : t.name = name

\* the first of that name
TensorOf(g, name) == g.tensors[SelectInSeq(g.tensors, LAMBDA t : t.name = name)]

NElements(t) == FoldSeq(LAMBDA d, n : d * n, 1, t.dims)
StartOf(g, t) == g.data + t.offset

\* Where bytes are read from: memory that holds the file's from base on.
Mapped(g) == [kind |-> "mapped", base |-> 0, len |-> g.length]
InRam(g) == [kind |-> "ram", base |-> 0, len |-> g.length]
Owned(span) == [kind |-> "owned", base |-> span.start, len |-> span.len]

(* The elements are not counted.                                           *)
BugLoads(g, src, need) ==
  /\ HasTensor(g, need.name)
  /\ LET t == TensorOf(g, need.name)
     IN /\ Sized(t.type, NElements(t))
        /\ StartOf(g, t) - src.base + ByteSize(t.type, NElements(t)) <= src.len

(* pinned_weight, load_weight and load_norm: the tensor is there, has the  *)
(* shape asked for, lies in the memory, and if it is expanded is finite.   *)
Loads(g, src, need) ==
  /\ HasTensor(g, need.name)
  /\ LET t == TensorOf(g, need.name)
     IN /\ NElements(t) = need.rows * need.cols
        /\ Sized(t.type, NElements(t))
        /\ StartOf(g, t) >= src.base
        /\ StartOf(g, t) - src.base + ByteSize(t.type, NElements(t)) <= src.len
        /\ src.kind = "ram" => t.finite

(* A packed weight: its rows, and where in its memory they begin.          *)
WeightAt(g, src, need) ==
  LET t == TensorOf(g, need.name)
  IN [name |-> need.name, src |-> src, type |-> t.type,
      rows |-> need.rows, cols |-> need.cols, start |-> StartOf(g, t) - src.base]

(* located and matvec_rows_in: the file's byte that row r is read from,    *)
(* given the streamed block that is handed along, and whether the row lies *)
(* within what it is read from.                                            *)
RowAt(w, r, blocks) ==
  LET streamed == {b \in blocks : w.start >= b.base}
      src == IF streamed = {} THEN w.src ELSE CHOOSE b \in streamed : TRUE
      at == IF streamed = {} THEN w.start ELSE w.start - src.base
      off == at + r * ByteSize(w.type, w.cols)
  IN [byte |-> src.base + off,
      within |-> off >= 0 /\ off + ByteSize(w.type, w.cols) <= src.len]

-----------------------------------------------------------------------------
(* What a file may say: values of their types, and nothing more.           *)

ValueOK(value) ==
  /\ value.type \in {"string", "pair", "array"} \cup DOMAIN Width
  /\ value.type \in {"string", "pair"} => Len(value.v) \in Nat
  /\ value.type = "array" => value.v \in Seq(Range(value.v))
  /\ value.type \in {"u8", "u32", "u64"} => value.v \in Nat
  /\ value.type = "i32" => value.v \in Int

FileOK(f) ==
  /\ f.length \in Nat
  /\ f.kvs \in Seq(Range(f.kvs)) /\ f.tensors \in Seq(Range(f.tensors))
  /\ \A kv \in Range(f.kvs) :
       /\ kv.bytes \in Nat
       /\ \A d \in 0..Deepest : \A value \in Range(ByDepth(kv.value)[d]) : ValueOK(value)
  /\ \A t \in Range(f.tensors) : t.bytes \in Nat /\ t.dims \in Seq(Nat) /\ t.offset \in Nat

-----------------------------------------------------------------------------
\* A weight is packed or expanded as the checkpoint is; a norm is expanded.
Weight(name, rows, cols) == [name |-> name, rows |-> rows, cols |-> cols, norm |-> FALSE]
Norm(name, n) == [name |-> name, rows |-> 1, cols |-> n, norm |-> TRUE]
=============================================================================
