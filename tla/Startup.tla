------------------------------- MODULE Startup -------------------------------
(***************************************************************************)
(* Starting the server (server::Engine::build): the configuration is       *)
(* checked, the checkpoint opened, parsed and loaded, whatever brings its  *)
(* weights nearer is set up, and a draft checkpoint is loaded beside it.   *)
(* A start ends serving or refused; every step that reads a file or makes  *)
(* a directory may fail.  What a start is given does not change, so it is  *)
(* one of Cases and its parts are worked out from there.                   *)
(***************************************************************************)
EXTENDS Backends

CONSTANTS
  Cases    \* what a server may be started with: [config, file, draft] each

ASSUME CasesAssumption ==
  \A i \in DOMAIN Cases :
    FileOK(Cases[i].file) /\ FileOK(Cases[i].draft) /\ Cases[i].config.budget \in Nat

VARIABLES
  boot     \* [case, phase, ahead]: what is started, how far, and what reads ahead

-----------------------------------------------------------------------------
(* AppConfig::validate.  A size is parsed, or is no size at all; the cache *)
(* for weights is parsed by the one loader that has a use for it.          *)
Valid(c) ==
  /\ ~c.gpu
  /\ ~c.gguf => c.routerKnown /\ c.topK \in 1..c.experts
  /\ c.samplingValid
  /\ {"expert_cache", "prompt_cache"} \cap c.badSizes = {}
  /\ c.context # 0 /\ c.window <= c.context
  /\ c.zeros = {}    \* max_concurrent, queue_capacity, max_concurrent_per_user, timeout
  /\ c.draft => c.gguf
  /\ ~c.emptyKey

IsQwen35(g) == Architecture(g) = "qwen35"

(* Engine::build_gguf and build_qwen35: each architecture has its own      *)
(* tokenizer and loader, and each refuses what it does not implement.      *)
TargetLoads(c, g) ==
  IF IsQwen35(g)
  THEN BpeLoads(g) /\ "weight_cache" \notin c.badSizes /\ Qwen35Loads(g, c.mmap, c.budget)
  ELSE SpmLoads(g) /\ LlamaLoads(g, c.mmap)

TargetOf(c, g) ==
  IF IsQwen35(g) THEN Qwen35Backend(g, c.mmap, c.budget) ELSE LlamaBackend(g, c.mmap)

VocabOf(g) == Len(Tokens(g))

(* load_draft: a draft pins nothing, and has as many words as its target.  *)
DraftLoads(c, g, target) ==
  /\ IF IsQwen35(g) THEN Qwen35Loads(g, c.draftMmap, 0) ELSE LlamaLoads(g, c.draftMmap)
  /\ VocabOf(g) = VocabOf(target)

DraftOf(c, g) ==
  IF IsQwen35(g) THEN Qwen35Backend(g, c.draftMmap, 0) ELSE LlamaBackend(g, c.draftMmap)

(* What a case comes to: both headers, and what is loaded from each.       *)
Outcome(c, g, draft) ==
  [config |-> c, header |-> g, draftHeader |-> draft,
   target |-> IF g.ok /\ TargetLoads(c, g) THEN {TargetOf(c, g)} ELSE {},
   draft |-> IF c.draft /\ draft.ok /\ DraftLoads(c, draft, g) THEN {DraftOf(c, draft)} ELSE {}]

Outcomes(cases) ==
  [i \in DOMAIN cases |-> Outcome(cases[i].config, Parse(cases[i].file), Parse(cases[i].draft))]

\* Worked out once for each case.
Prepared == Outcomes(Cases)

Now == Prepared[boot.case]

-----------------------------------------------------------------------------
Go(phase) == boot' = [boot EXCEPT !.phase = phase]

Validate(c) ==
  /\ boot.phase = "new"
  /\ Go(IF ~Valid(c) THEN "refused" ELSE IF c.gguf THEN "open" ELSE "wire")

(* The file is mapped, or read whole.                                      *)
OpenCheckpoint ==
  /\ boot.phase = "open"
  /\ \E phase \in {"parse", "refused"} : Go(phase)

ParseCheckpoint(g) ==
  /\ boot.phase = "parse"
  /\ Go(IF g.ok THEN "load" ELSE "refused")

LoadTarget(target) ==
  /\ boot.phase = "load"
  /\ Go(IF target = {} THEN "refused" ELSE "wire")

(* A streamer for the blocks of a mapped Qwen3.5 checkpoint, or a page     *)
(* prefetcher where the file does not open a second time; the experts'     *)
(* pages for a mapped mixture; the expert engine for synthetic weights.    *)
AheadChoices(c, g) ==
  IF ~c.prefetch THEN {"nothing"}
  ELSE IF ~c.gguf THEN {IF c.predictor THEN "experts" ELSE "nothing"}
  ELSE IF ~c.mmap THEN {"nothing"}
  ELSE IF IsQwen35(g) THEN {"streamer", "layers"}
  ELSE IF c.predictor /\ LlamaShape(g).experts > 0 THEN {"pages"} ELSE {"nothing"}

(* The spill, L2 and L3 directories are made on the way.                   *)
Wire(c, g) ==
  /\ boot.phase = "wire"
  /\ \/ \E ahead \in AheadChoices(c, g) :
          boot' = [boot EXCEPT !.ahead = ahead, !.phase = IF c.draft THEN "draft" ELSE "serving"]
     \/ (c.spill \/ ~c.gguf) /\ Go("refused")

LoadDraft(draft) ==
  /\ boot.phase = "draft"
  /\ \/ Go(IF draft = {} THEN "refused" ELSE "serving")
     \/ Go("refused")

StartInit == boot \in {[case |-> i, phase |-> "new", ahead |-> "nothing"] : i \in DOMAIN Cases}

\* The next step of a start that comes to o.
Step(o) ==
  \/ Validate(o.config)
  \/ OpenCheckpoint
  \/ ParseCheckpoint(o.header)
  \/ LoadTarget(o.target)
  \/ Wire(o.config, o.header)
  \/ LoadDraft(o.draft)

StartNext == Step(Now)

-----------------------------------------------------------------------------
\* What serves when a start has come to o; a synthetic model has no file.
ServingFrom(o) ==
  IF boot.phase # "serving" \/ ~o.config.gguf THEN {}
  ELSE {[g |-> o.header, b |-> b, ahead |-> boot.ahead, budget |-> o.config.budget] : b \in o.target}
         \cup {[g |-> o.draftHeader, b |-> b, ahead |-> "nothing", budget |-> 0] : b \in o.draft}

Serving == ServingFrom(Now)

(* The block handed along with a weight, where its block is streamed.      *)
Handed(s, w) ==
  IF s.ahead = "streamer" /\ Len(w.name) > 1 /\ s.b.spans[w.name[1]].len > 0
  THEN {[base |-> s.b.spans[w.name[1]].start, len |-> s.b.spans[w.name[1]].len]} ELSE {}

Packed(s) == {w \in s.b.weights : w.src.kind # "ram"}

(* "A checkpoint never half-loads": once the server serves, every row of   *)
(* every weight is read from exactly the file's bytes for it, whether they *)
(* are mapped, pinned or streamed, and within the tensor and the file; and *)
(* what is expanded was finite.                                            *)
ReadsTheFile ==
  \A s \in Serving : \A w \in s.b.weights :
    LET t == TensorOf(s.g, w.name)
        begin == StartOf(s.g, t)
        end == begin + ByteSize(t.type, NElements(t))
    IN IF w.src.kind = "ram" THEN t.finite
       ELSE /\ end <= s.g.length
            /\ \A r \in 0..(w.rows - 1) :
                 LET row == RowAt(w, r, Handed(s, w))
                 IN /\ row.within
                    /\ row.byte = begin + r * ByteSize(t.type, w.cols)
                    /\ row.byte + ByteSize(t.type, w.cols) <= end

InBlock(w) == IF Len(w.name) > 1 THEN {w.name[1]} ELSE {}
HasBytes(w) == ByteSize(w.type, w.rows * w.cols) > 0

(* Pinning spends no more than its budget and counts what it holds; each   *)
(* block is held whole or read ahead whole, and never both.                *)
PinsKept ==
  \A s \in Serving :
    LET held == {<<InBlock(w), w.src>> : w \in {v \in Packed(s) : v.src.kind = "owned"}}
    IN /\ s.b.pinnedBytes = SumOf([place \in held |-> place[2].len])
       /\ s.b.pinnedBytes <= s.budget
       /\ \A w \in Packed(s) : \A l \in InBlock(w) \cap DOMAIN s.b.spans :
            /\ w.src.kind = "owned" => s.b.spans[l].len = 0
            /\ w.src.kind = "mapped" /\ HasBytes(w) => s.b.spans[l].len > 0

\* The bytes each row of expert e of block l begins at, a stacked matrix
\* holding the experts' rows one after the other.
ExpertRows(s, c, l, e) ==
  LET stacked == {<<l, "ffn_gate_exps">>, <<l, "ffn_up_exps">>, <<l, "ffn_down_exps">>}
      split == {<<l, "ffn_gate", e>>, <<l, "ffn_up", e>>, <<l, "ffn_down", e>>}
      Rows(w) == IF w.name \in split THEN 0..(w.rows - 1)
                 ELSE {r \in 0..(w.rows - 1) : r \div (w.rows \div c.experts) = e}
  IN UNION {{RowAt(w, r, {}).byte : r \in Rows(w)} :
              w \in {v \in Packed(s) : v.name \in stacked \cup split}}

(* The pages warmed for an expert are the bytes its rows are read from, in *)
(* a stacked checkpoint and in a split one, and no other expert's.         *)
WarmsItsExpert ==
  \A s \in {s \in Serving : s.ahead = "pages"} :
    LET c == LlamaShape(s.g)
        experts == 0..(c.experts - 1)
        Within(byte, l, e) ==
          \E p \in ExpertPageRanges(s.b, c, l, e) : byte \in p.start..(p.start + p.len - 1)
    IN \A l \in 0..(c.layers - 1), e \in experts :
         /\ {p.start : p \in ExpertPageRanges(s.b, c, l, e)} \subseteq ExpertRows(s, c, l, e)
         /\ \A other \in experts : \A byte \in ExpertRows(s, c, l, other) :
              Within(byte, l, e) <=> other = e

(* Whatever type a weight is packed in, its kernel multiplies by the       *)
(* numbers the decoder gives, and a batch is its vectors one by one.       *)
KernelsAgree == \A s \in Serving : {w.type : w \in Packed(s)} \subseteq ExactTypes
=============================================================================
