------------------------------- MODULE Prompts -------------------------------
(***************************************************************************)
(* From text to tokens: the chat templates (chat::encode_chat), the byte   *)
(* tokenizer, byte-level BPE with its pre-tokenizer (tokenizer::bpe) and   *)
(* SentencePiece with its heap of candidate merges (tokenizer::spm), and   *)
(* beside them what they are meant to compute.  A text is a sequence of    *)
(* characters, where a word of the markup stands for one, as does [INST];  *)
(* and a token is named by the text of its entry.                          *)
(***************************************************************************)
EXTENDS Integers, Sequences, SequencesExt, FiniteSets, FiniteSetsExt, Functions

CONSTANTS
  Letters, Marks, Digits, Breaks,   \* classes of characters; \p{M}, \r and \n
  Blanks,      \* white space that is neither a space nor a line break
  ByteChars,   \* the byte-level characters of each character's UTF-8
  Ranks,       \* BPE: the rank of each pair of symbols in the merge list
  Entries,     \* BPE: the vocabulary entries text can reach
  Scores,      \* SentencePiece: the score of each entry of lookup, markers too
  Markers,     \* the template's markers that each vocabulary holds
  AddBos       \* tokenizer.ggml.add_bos_token

White == {" "} \cup Breaks \cup Blanks
Word == Letters \cup Marks

BOS == <<"<", "s", ">">>
EOS == <<"<", "/", "s", ">">>

(* <|name|>: as markup, and as anyone may type it.                         *)
Tag(name) == <<"<", "|", name, "|", ">">>
Think == <<"<", "think", ">">>
ThinkEnd == <<"<", "/", "think", ">">>

-----------------------------------------------------------------------------
(* bpe::split, the pre-tokenizer.                                          *)

(* The first position at or after i that holds no character of S.          *)
RunEnd(text, i, S) ==
  Min({j \in i..(Len(text) + 1) : j = Len(text) + 1 \/ text[j] \notin S})

Contraction(text, i) ==
  LET follows(s) == IsPrefix(<<"'">> \o s, SubSeq(text, i, Len(text)))
  IN CASE \E ch \in {"s", "t", "m", "d"} : follows(<<ch>>) -> i + 2
       [] \E s \in {<<"r", "e">>, <<"v", "e">>, <<"l", "l">>} : follows(s) -> i + 3
       [] OTHER -> i

(* A word may take one character before it, a symbol only a space.         *)
WordEnd(text, i) ==
  LET led == RunEnd(text, i + 1, Word)
  IN IF text[i] \notin Breaks \cup Letters \cup Digits /\ led > i + 1 THEN led
     ELSE RunEnd(text, i, Word)

SymbolEnd(text, i) ==
  LET symbols == Range(text) \ (White \cup Word \cup Digits)
      led == RunEnd(text, i + 1, symbols)
      run == IF text[i] = " " /\ led > i + 1 THEN led ELSE RunEnd(text, i, symbols)
  IN IF run = i THEN i ELSE RunEnd(text, run, Breaks)

(* White space ends after its last line break; without one, its last       *)
(* character is left for the word that follows.                            *)
WhiteEnd(text, i) ==
  LET end == RunEnd(text, i, White)
      breaks == {k \in i..(end - 1) : text[k] \in Breaks}
  IN CASE breaks # {} -> Max(breaks) + 1
       [] breaks = {} /\ end # Len(text) + 1 /\ end - 1 > i -> end - 1
       [] OTHER -> end

(* The first alternative that takes anything.                              *)
PieceEnd(text, i) ==
  LET ends == <<Contraction(text, i), WordEnd(text, i),
                IF text[i] \in Digits THEN i + 1 ELSE i,
                SymbolEnd(text, i), WhiteEnd(text, i)>>
  IN ends[SelectInSeq(ends, LAMBDA e : e > i)]

Split(text) ==
  LET from[i \in 1..(Len(text) + 1)] ==
        IF i > Len(text) THEN <<>>
        ELSE <<SubSeq(text, i, PieceEnd(text, i) - 1)>> \o from[PieceEnd(text, i)]
  IN from[1]

(* The pattern the pre-tokenizer writes out by hand: whether alternative k *)
(* matches a piece that the character next (or nothing) comes after.       *)
Matches(k, p, next) ==
  LET all(from, to, S) == \A j \in from..to : p[j] \in S
      none(from, to, S) == \A j \in from..to : p[j] \notin S
  IN CASE k = 1 -> p \in {<<"'", "s">>, <<"'", "t">>, <<"'", "m">>, <<"'", "d">>,
                          <<"'", "r", "e">>, <<"'", "v", "e">>, <<"'", "l", "l">>}
       [] k = 2 -> \E o \in {0, 1} : /\ Len(p) > o
                                     /\ none(1, o, Breaks \cup Letters \cup Digits)
                                     /\ all(o + 1, Len(p), Word)
       [] k = 3 -> Len(p) = 1 /\ p[1] \in Digits
       [] k = 4 -> \E o \in {0, 1}, m \in DOMAIN p :
                      /\ m > o /\ all(1, o, {" "})
                      /\ none(o + 1, m, White \cup Word \cup Digits)
                      /\ all(m + 1, Len(p), Breaks)
       [] k = 5 -> all(1, Len(p), White) /\ Last(p) \in Breaks
       [] k = 6 -> all(1, Len(p), White) /\ next \in White \cup {"end"}
       [] k = 7 -> all(1, Len(p), White)

(* A backtracking engine's answer: at each place the first alternative     *)
(* that matches anything, and the longest it matches.                      *)
PatternSplit(text) ==
  LET next(e) == IF e > Len(text) THEN "end" ELSE text[e]
      ends(i, k) == {e \in (i + 1)..(Len(text) + 1) :
                       Matches(k, SubSeq(text, i, e - 1), next(e))}
      end(i) == Max(ends(i, Min({k \in 1..7 : ends(i, k) # {}})))
      from[i \in 1..(Len(text) + 1)] ==
        IF i > Len(text) THEN <<>>
        ELSE <<SubSeq(text, i, end(i) - 1)>> \o from[end(i)]
  IN from[1]

-----------------------------------------------------------------------------
(* BpeTokenizer: rewrite, merge and encode.                                *)

Spelling(text) == FlattenSeq([i \in DOMAIN text |-> ByteChars[text[i]]])

Pairs(symbols) == {i \in 1..(Len(symbols) - 1) : <<symbols[i], symbols[i + 1]>> \in DOMAIN Ranks}

Joined(symbols, i) ==
  SubSeq(symbols, 1, i - 1) \o <<symbols[i] \o symbols[i + 1]>>
    \o SubSeq(symbols, i + 2, Len(symbols))

(* The pair of the lowest rank, the leftmost of them, until none is left:  *)
(* every merge leaves one symbol less.                                     *)
MergeOnce(symbols) ==
  LET rank(i) == Ranks[<<symbols[i], symbols[i + 1]>>]
      lowest == Min({rank(i) : i \in Pairs(symbols)})
  IN IF Pairs(symbols) = {} THEN symbols
     ELSE Joined(symbols, Min({i \in Pairs(symbols) : rank(i) = lowest}))

Merged(symbols) == FoldLeft(LAMBDA left, s : MergeOnce(left), symbols, symbols)

Characters(text) == [i \in DOMAIN text |-> <<text[i]>>]

(* A merge the vocabulary does not name falls back to its characters.      *)
Bpe(text) ==
  LET of(piece) ==
        LET symbols == Merged(Characters(Spelling(piece)))
        IN FlattenSeq([i \in DOMAIN symbols |->
             IF symbols[i] \in Entries THEN <<symbols[i]>> ELSE Characters(symbols[i])])
      pieces == Split(text)
  IN FlattenSeq([i \in DOMAIN pieces |-> of(pieces[i])])

-----------------------------------------------------------------------------
(* SpmTokenizer::encode_spm.  A symbol is a slice of the text threaded to  *)
(* its neighbours; one that was merged away is empty.                      *)

SpaceMark == "_"
Normalized(text, lead) ==
  (IF lead THEN <<SpaceMark>> ELSE <<>>)
    \o [i \in DOMAIN text |-> IF text[i] = " " THEN SpaceMark ELSE text[i]]

Slice(text, l, r) == SubSeq(text, l.from, r.to)
Gone(sym) == sym.to < sym.from

TryBigram(text, syms, l, r) ==
  IF /\ l # 0 /\ r # 0 /\ ~Gone(syms[l]) /\ ~Gone(syms[r])
     /\ Slice(text, syms[l], syms[r]) \in DOMAIN Scores
  THEN {[left |-> l, right |-> r, score |-> Scores[Slice(text, syms[l], syms[r])],
         size |-> Len(Spelling(Slice(text, syms[l], syms[r])))]}
  ELSE {}

(* The highest score first, and the leftmost of equals.                    *)
Ahead(b, c) == b.score > c.score \/ (b.score = c.score /\ b.left <= c.left)

(* Pop a candidate; drop it if it is stale, else merge and queue the pairs *)
(* the merge has made.                                                     *)
PopOne(text, syms, heap) ==
  LET top == CHOOSE b \in heap : \A c \in heap : Ahead(b, c)
      l == syms[top.left]
      r == syms[top.right]
      bytes(sym) == Len(Spelling(Slice(text, sym, sym)))
      stale == Gone(l) \/ Gone(r) \/ bytes(l) + bytes(r) # top.size
      joined == [i \in DOMAIN syms |->
        CASE i = top.left  -> [l EXCEPT !.to = r.to, !.next = r.next]
          [] i = top.right -> [r EXCEPT !.to = r.from - 1]
          [] i = r.next    -> [syms[i] EXCEPT !.prev = top.left]
          [] OTHER         -> syms[i]]
  IN CASE heap = {} -> [syms |-> syms, heap |-> heap]
       [] heap # {} /\ stale -> [syms |-> syms, heap |-> heap \ {top}]
       [] OTHER -> [syms |-> joined,
                    heap |-> (heap \ {top}) \cup TryBigram(text, joined, l.prev, top.left)
                                            \cup TryBigram(text, joined, top.left, r.next)]

(* Each of n symbols is merged away once at most, and queues two pairs.    *)
Drained(text, syms, heap) ==
  FoldLeft(LAMBDA have, i : PopOne(text, have.syms, have.heap),
           [syms |-> syms, heap |-> heap], [i \in 1..(3 * Len(text)) |-> i]).syms

Symbols(text) ==
  LET n == Len(text)
      syms == [i \in 1..n |-> [from |-> i, to |-> i, prev |-> i - 1, next |-> (i + 1) % (n + 1)]]
      end == Drained(text, syms, UNION {TryBigram(text, syms, i - 1, i) : i \in 2..n})
      left == SelectSeq([i \in 1..n |-> end[i]], LAMBDA sym : ~Gone(sym))
  IN [i \in DOMAIN left |-> Slice(text, left[i], left[i])]

(* What resegmentation means: merge the best adjacent pair until none is   *)
(* an entry.                                                               *)
JoinBest(symbols) ==
  LET pairs == {i \in 1..(Len(symbols) - 1) : symbols[i] \o symbols[i + 1] \in DOMAIN Scores}
      score(i) == Scores[symbols[i] \o symbols[i + 1]]
      best == Max({score(i) : i \in pairs})
  IN IF pairs = {} THEN symbols
     ELSE Joined(symbols, Min({i \in pairs : score(i) = best}))

Resegmented(symbols) == FoldLeft(LAMBDA left, s : JoinBest(left), symbols, symbols)

(* An entry, or the bytes of what is none; the lead has a BOS before it.   *)
Spm(text, lead) ==
  LET symbols == Symbols(Normalized(text, lead))
  IN (IF lead /\ AddBos THEN <<BOS>> ELSE <<>>)
       \o FlattenSeq([i \in DOMAIN symbols |->
            IF symbols[i] \in DOMAIN Scores THEN <<symbols[i]>>
            ELSE Characters(Spelling(symbols[i]))])

-----------------------------------------------------------------------------
(* Tokenize, and the prompt of a conversation.                             *)

Encode(tk, text) ==
  CASE tk = "byte" -> Characters(Spelling(text))
    [] tk = "bpe"  -> Bpe(text)
    [] tk = "spm"  -> Spm(text, TRUE)

(* Every fragment of a prompt is encoded as if it began one.               *)
BugFragment(tk, text) == Encode(tk, text)

(* encode_fragment: only SentencePiece tells the two apart.                *)
Fragment(tk, text) == IF tk = "spm" THEN Spm(text, FALSE) ELSE Encode(tk, text)

Text(text) == [marker |-> FALSE, text |-> text]
Marker(m) == [marker |-> TRUE, text |-> m]

(* The marker that ends a turn, or the checkpoint's end-of-sequence.       *)
TurnEnd(tk, fmt) ==
  LET m == CASE fmt \in {"chatml", "qwen35", "qwen35thinking"} -> Tag("im_end")
             [] fmt = "llama3" -> Tag("eot_id")
             [] OTHER -> EOS
  IN IF m \in Markers[tk] THEN m ELSE EOS

(* prefix_pieces, separator and generation_pieces of each family.          *)
Opening(fmt, role) ==
  CASE fmt = "zephyr" -> <<Marker(Tag(role)), Text(<<"\n">>)>>
    [] fmt = "llama3" -> <<Marker(Tag("start_header_id")), Text(<<role>>),
                           Marker(Tag("end_header_id")), Text(<<"\n", "\n">>)>>
    [] OTHER -> <<Marker(Tag("im_start")), Text(<<role, "\n">>)>>

Separator(fmt) == IF fmt = "llama3" THEN <<>> ELSE <<"\n">>

Cue(fmt) ==
  Opening(fmt, "assistant") \o
    CASE fmt = "qwen35" -> <<Marker(Think), Text(<<"\n", "\n">>),
                             Marker(ThinkEnd), Text(<<"\n", "\n">>)>>
      [] fmt = "qwen35thinking" -> <<Marker(Think), Text(<<"\n">>)>>
      [] OTHER -> <<>>

(* resolve: a marker the vocabulary lacks is the text it is written with.  *)
Resolve(tk, piece) ==
  [control |-> piece.marker /\ piece.text \in Markers[tk], text |-> piece.text]

EndSegment(tk, fmt) == [control |-> TRUE, text |-> TurnEnd(tk, fmt)]
TextSegment(text) == [control |-> FALSE, text |-> text]

(* mistral_segments: system text waits for the next turn of the user.      *)
Inst(text) == TextSegment(<<"[INST]", " ">> \o text \o <<" ", "[/INST]">>)

MistralTurn(tk, s, turn) ==
  LET before == IF s.system = <<>> THEN <<>> ELSE s.system \o <<"\n", "\n">>
  IN CASE turn.role = "system" -> [s EXCEPT !.system = before \o turn.text]
       [] turn.role = "assistant" ->
            [s EXCEPT !.segs = @ \o <<TextSegment(turn.text), EndSegment(tk, "mistral")>>]
       [] OTHER -> [segs |-> Append(s.segs, Inst(before \o turn.text)), system |-> <<>>]

MistralSegments(tk, turns) ==
  LET s == FoldLeft(LAMBDA acc, turn : MistralTurn(tk, acc, turn),
                    [segs |-> <<>>, system |-> <<>>], turns)
  IN s.segs \o (IF s.system = <<>> THEN <<>> ELSE <<Inst(s.system)>>)

Segments(tk, fmt, turns) ==
  LET resolved(pieces) == [i \in DOMAIN pieces |-> Resolve(tk, pieces[i])]
      of(turn) == resolved(Opening(fmt, turn.role))
                    \o <<TextSegment(turn.text), EndSegment(tk, fmt),
                         TextSegment(Separator(fmt))>>
  IN IF fmt = "mistral" THEN MistralSegments(tk, turns)
     ELSE FlattenSeq([i \in DOMAIN turns |-> of(turns[i])]) \o resolved(Cue(fmt))

(* One begin-of-sequence at the front, whatever the prompt opens with.     *)
Placed(tk, out, seg) ==
  LET lead == IF out.first THEN Encode(tk, <<>>) ELSE <<>>
  IN CASE seg.control -> [toks |-> out.toks \o lead \o <<seg.text>>, first |-> FALSE]
       [] ~seg.control /\ seg.text = <<>> -> out
       [] OTHER -> [toks |-> out.toks \o (IF out.first THEN Encode(tk, seg.text)
                                          ELSE Fragment(tk, seg.text)),
                    first |-> FALSE]

RenderPlain(turns) ==
  FlattenSeq([i \in DOMAIN turns |-> <<turns[i].role, ":", " ">> \o turns[i].text \o <<"\n">>])
    \o <<"assistant", ":", " ">>

EncodeChat(tk, fmt, turns) ==
  IF fmt = "plain" THEN Encode(tk, RenderPlain(turns))
  ELSE FoldLeft(LAMBDA out, seg : Placed(tk, out, seg),
                [toks |-> <<>>, first |-> TRUE], Segments(tk, fmt, turns)).toks

-----------------------------------------------------------------------------
(* What a conversation reads as, by the documented formats (ChatFormat):   *)
(* written out in full, each turn closed by the text of end.               *)
Block(fmt, turn, end) ==
  CASE fmt = "zephyr" -> Tag(turn.role) \o <<"\n">> \o turn.text \o end \o <<"\n">>
    [] fmt = "llama3" -> Tag("start_header_id") \o <<turn.role>> \o Tag("end_header_id")
                           \o <<"\n", "\n">> \o turn.text \o end
    [] OTHER -> Tag("im_start") \o <<turn.role, "\n">> \o turn.text \o end \o <<"\n">>

Floor(fmt) ==
  CASE fmt = "zephyr" -> Tag("assistant") \o <<"\n">>
    [] fmt = "llama3" -> Tag("start_header_id") \o <<"assistant">> \o Tag("end_header_id")
                           \o <<"\n", "\n">>
    [] fmt = "chatml" -> Tag("im_start") \o <<"assistant", "\n">>
    [] fmt = "qwen35" -> Tag("im_start") \o <<"assistant", "\n">> \o Think \o <<"\n", "\n">>
                           \o ThinkEnd \o <<"\n", "\n">>
    [] fmt = "qwen35thinking" -> Tag("im_start") \o <<"assistant", "\n">> \o Think \o <<"\n">>

(* Mistral's turn of the user has the system texts since the one before it *)
(* (from the first that says anything), and what still waits at the end is *)
(* asked by itself.                                                        *)
MistralBlock(turns, i, end) ==
  LET users == {j \in DOMAIN turns : turns[j].role \notin {"system", "assistant"}}
      since == Max({j \in users : j < i} \cup {0})
      said == {j \in (since + 1)..(i - 1) : turns[j].role = "system" /\ turns[j].text # <<>>}
      waiting == SelectSeq(SubSeq(turns, Min(said \cup {i}), i - 1),
                           LAMBDA t : t.role = "system")
      before == FlattenSeq([k \in DOMAIN waiting |-> waiting[k].text \o <<"\n", "\n">>])
      inst(text) == <<"[INST]", " ">> \o text \o <<" ", "[/INST]">>
  IN CASE i = Len(turns) + 1 ->
            IF before = <<>> THEN <<>> ELSE inst(SubSeq(before, 1, Len(before) - 2))
       [] i \in users -> inst(before \o turns[i].text)
       [] OTHER -> IF turns[i].role = "system" THEN <<>> ELSE turns[i].text \o end

Transcript(fmt, turns, end) ==
  CASE fmt = "plain" -> RenderPlain(turns)
    [] fmt = "mistral" ->
         FlattenSeq([i \in 1..(Len(turns) + 1) |-> MistralBlock(turns, i, end)])
    [] OTHER -> FlattenSeq([i \in DOMAIN turns |-> Block(fmt, turns[i], end)]) \o Floor(fmt)
=============================================================================
