------------------------------ MODULE TextStream ------------------------------
(***************************************************************************)
(* From tokens back to text: the whole reply at once (Tokenize::decode)    *)
(* and a token at a time (StreamDecode), for the three tokenizers.  A byte *)
(* is named by the part it plays in UTF-8, and a text is the sequence of   *)
(* its bytes, with "?" where it holds U+FFFD.                              *)
(***************************************************************************)
EXTENDS Integers, Sequences, SequencesExt, FiniteSets, FiniteSetsExt

CONSTANTS
  TokenBytes   \* the bytes of each token under each tokenizer, <<>> if special

Tokenizers == {"byte", "bpe", "spm"}

Ascii == {"a", " "}
Leads == {"lead2", "lead3"}   \* the first byte of a longer character
Bytes == Ascii \cup Leads \cup {"rest", "never"}

ASSUME TokenBytesAssumption ==
  /\ DOMAIN TokenBytes = Tokenizers
  /\ \A tk \in Tokenizers : \A t \in DOMAIN TokenBytes[tk] : TokenBytes[tk][t] \in Seq(Bytes)

Size(lead) == IF lead = "lead2" THEN 2 ELSE 3

(* A byte that continues the character before it, as from_utf8 reads one.  *)
Continues(bytes, i) ==
  \E k \in {1, 2} :
    /\ i - k >= 1
    /\ bytes[i - k] \in Leads /\ k < Size(bytes[i - k])
    /\ \A j \in (i - k + 1)..i : bytes[j] = "rest"

(* A byte of a character that is all there.                                *)
Complete(bytes, i) ==
  \/ bytes[i] \in Ascii
  \/ \E k \in (i - 2)..i :
       /\ k >= 1 /\ bytes[k] \in Leads
       /\ k + Size(bytes[k]) - 1 \in i..Len(bytes)
       /\ \A j \in (k + 1)..(k + Size(bytes[k]) - 1) : bytes[j] = "rest"

(* from_utf8_lossy: one U+FFFD for a character cut short.                  *)
Decoded(bytes, i) ==
  IF Complete(bytes, i) THEN <<bytes[i]>> ELSE IF Continues(bytes, i) THEN <<>> ELSE <<"?">>

Lossy(bytes) ==
  LET upTo[i \in 0..Len(bytes)] == IF i = 0 THEN <<>> ELSE upTo[i - 1] \o Decoded(bytes, i)
  IN upTo[Len(bytes)]

(* valid_up_to                                                             *)
ValidUpTo(bytes) == Min({i \in DOMAIN bytes : ~Complete(bytes, i)} \cup {Len(bytes) + 1}) - 1

(* error_len: a byte that cannot be there, not a character that only lacks *)
(* its end.                                                                *)
Short(bytes) ==
  LET i == ValidUpTo(bytes) + 1
  IN i <= Len(bytes) /\ bytes[i] \in Leads /\ \A j \in (i + 1)..Len(bytes) : Continues(bytes, j)
Broken(bytes) == ValidUpTo(bytes) < Len(bytes) /\ ~Short(bytes)

Unspaced(text) == IF text # <<>> /\ Head(text) = " " THEN Tail(text) ELSE text

-----------------------------------------------------------------------------
(* decode: SentencePiece alone takes one leading space away.               *)
BytesOf(tk, tokens) == FlattenSeq([i \in DOMAIN tokens |-> TokenBytes[tk][tokens[i]]])
Decode(tk, tokens) ==
  LET text == Lossy(BytesOf(tk, tokens))
  IN IF tk = "spm" THEN Unspaced(text) ELSE text

(* A stream decoder: the bytes it holds back, whether it has given nothing *)
(* out yet, and what it gave out last.                                     *)
FreshDecoder == [pending |-> <<>>, atStart |-> TRUE, text |-> <<>>]

(* The bytes held back are given out as they come.                         *)
BugFlushed(d, bytes) == [d EXCEPT !.pending = <<>>, !.text = Lossy(d.pending \o bytes)]

(* Whole characters at once; nothing while the first one is short; one     *)
(* replacement for all the bytes held when the first one is broken.        *)
Flushed(d, bytes) ==
  LET all == d.pending \o bytes
      valid == ValidUpTo(all)
  IN IF valid = 0 /\ Broken(all) THEN [d EXCEPT !.pending = <<>>, !.text = <<"?">>]
     ELSE [d EXCEPT !.pending = SubSeq(all, valid + 1, Len(all)), !.text = SubSeq(all, 1, valid)]

(* StreamDecoder::push passes special tokens over.                         *)
PushByte(d, bytes) == IF bytes = <<>> THEN [d EXCEPT !.text = <<>>] ELSE Flushed(d, bytes)

(* SpmStreamDecoder::push: the first text, but not a replacement, loses    *)
(* its space.                                                              *)
PushSpm(d, bytes) ==
  LET e == Flushed(d, bytes)
  IN IF ~d.atStart \/ e.text \in {<<>>, <<"?">>} THEN e
     ELSE [e EXCEPT !.text = Unspaced(@), !.atStart = FALSE]

(* BpeStreamDecoder::push: a broken character holds everything after it    *)
(* back until the end.                                                     *)
PushBpe(d, bytes) ==
  LET all == d.pending \o bytes
      valid == ValidUpTo(all)
  IN [d EXCEPT !.pending = SubSeq(all, valid + 1, Len(all)), !.text = SubSeq(all, 1, valid)]

Push(tk, d, token) ==
  LET bytes == TokenBytes[tk][token]
  IN CASE tk = "byte" -> PushByte(d, bytes)
       [] tk = "spm" -> PushSpm(d, bytes)
       [] tk = "bpe" -> PushBpe(d, bytes)

(* finish: whatever never became a character.                              *)
Finish(d) == Lossy(d.pending)
=============================================================================
