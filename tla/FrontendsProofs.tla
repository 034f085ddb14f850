---------------------------- MODULE FrontendsProofs ----------------------------
(***************************************************************************)
(* What the front ends tell their clients is what the scheduler said, for  *)
(* any connections, scenarios and tokens; and the permits of the           *)
(* embeddings route.                                                       *)
(***************************************************************************)
EXTENDS Frontends, TextStreamProofs, FiniteSetTheorems

-----------------------------------------------------------------------------
(* Frames.                                                                 *)

OpeningKinds == {"text", "message_start", "content_block_start"}
Kinds == Endings \cup OpeningKinds \cup {"content_block_stop", "message_delta", "finish"}
Reasons == Natural \cup {"none", "length", "max_tokens", "stopped_limit", "cancelled"}
FrameType == [kind : Kinds, text : Seq(TextBytes), reason : Reasons, n : Nat]

\* The text of a frame, as SentText reads it.
TextIn(f) == IF f.kind = "text" THEN f.text ELSE <<>>
TextsIn(fs) == [i \in DOMAIN fs |-> TextIn(fs[i])]

LEMMA TextsInType ==
  ASSUME NEW fs \in Seq(FrameType)
  PROVE  /\ TextsIn(fs) \in Seq(Seq(TextBytes)) /\ Len(TextsIn(fs)) = Len(fs)
         /\ \A i \in 1..Len(fs) : TextsIn(fs)[i] = TextIn(fs[i])
         /\ SentText(fs) = FlattenSeq(TextsIn(fs))
<1>1. DOMAIN fs = 1..Len(fs) /\ Len(fs) \in Nat
  OBVIOUS
<1>2. \A i \in 1..Len(fs) : TextIn(fs[i]) \in Seq(TextBytes)
  <2> TAKE i \in 1..Len(fs)
  <2>1. fs[i] \in FrameType
    BY ElementOfSeq
  <2>2. fs[i].text \in Seq(TextBytes) /\ <<>> \in Seq(TextBytes)
    BY <2>1, EmptySeq DEF FrameType
  <2> QED
    BY <2>2 DEF TextIn
<1>3. TextsIn(fs) = [i \in 1..Len(fs) |-> TextIn(fs[i])]
  BY <1>1 DEF TextsIn
<1> DEFINE E(i) == TextIn(fs[i])
<1>4. \A i \in 1..Len(fs) : E(i) \in Seq(TextBytes)
  BY <1>2
<1>5. TextsIn(fs) = [i \in 1..Len(fs) |-> E(i)]
  BY <1>3
<1> HIDE DEF E
<1>6. TextsIn(fs) \in [1..Len(fs) -> Seq(TextBytes)]
  BY <1>4, <1>5
<1>7. TextsIn(fs) \in Seq(Seq(TextBytes)) /\ Len(TextsIn(fs)) = Len(fs)
  BY <1>1, <1>6
<1>8. \A i \in 1..Len(fs) : TextsIn(fs)[i] = E(i)
  BY <1>5
<1>9. SentText(fs) = FlattenSeq(TextsIn(fs))
  BY DEF SentText, TextsIn, TextIn
<1> QED
  BY <1>7, <1>8, <1>9 DEF E

LEMMA SentType ==
  ASSUME NEW fs \in Seq(FrameType)
  PROVE  SentText(fs) \in Seq(TextBytes)
BY TextsInType, FlattenType

LEMMA SentConcat ==
  ASSUME NEW fs \in Seq(FrameType), NEW gs \in Seq(FrameType)
  PROVE  SentText(fs \o gs) = SentText(fs) \o SentText(gs)
<1> DEFINE a == TextsIn(fs)
           b == TextsIn(gs)
           c == TextsIn(fs \o gs)
<1>1. /\ fs \o gs \in Seq(FrameType) /\ Len(fs \o gs) = Len(fs) + Len(gs)
      /\ Len(fs) \in Nat /\ Len(gs) \in Nat
      /\ \A i \in 1..Len(fs) : (fs \o gs)[i] = fs[i]
      /\ \A i \in 1..Len(gs) : (fs \o gs)[Len(fs) + i] = gs[i]
  BY ConcatAt
<1>2. /\ a \in Seq(Seq(TextBytes)) /\ Len(a) = Len(fs) /\ \A i \in 1..Len(fs) : a[i] = TextIn(fs[i])
      /\ b \in Seq(Seq(TextBytes)) /\ Len(b) = Len(gs) /\ \A i \in 1..Len(gs) : b[i] = TextIn(gs[i])
      /\ c \in Seq(Seq(TextBytes)) /\ Len(c) = Len(fs \o gs)
      /\ \A i \in 1..Len(fs \o gs) : c[i] = TextIn((fs \o gs)[i])
  BY <1>1, TextsInType
<1>3. /\ a \o b \in Seq(Seq(TextBytes)) /\ Len(a \o b) = Len(a) + Len(b)
      /\ \A i \in 1..Len(a) : (a \o b)[i] = a[i]
      /\ \A i \in 1..Len(b) : (a \o b)[Len(a) + i] = b[i]
  <2>1. a \in Seq(Seq(TextBytes)) /\ b \in Seq(Seq(TextBytes))
    BY <1>2
  <2> HIDE DEF a, b
  <2> QED
    BY ONLY <2>1, ConcatAt
<1>4. SentText(fs) = FlattenSeq(a) /\ SentText(gs) = FlattenSeq(b) /\ SentText(fs \o gs) = FlattenSeq(c)
  BY <1>1, TextsInType
<1> DEFINE ab == a \o b
           fg == fs \o gs
<1> HIDE DEF a, b, c
<1>a. /\ Len(fg) = Len(fs) + Len(gs) /\ Len(fs) \in Nat /\ Len(gs) \in Nat
      /\ \A i \in 1..Len(fs) : fg[i] = fs[i]
      /\ \A i \in 1..Len(gs) : fg[Len(fs) + i] = gs[i]
  BY <1>1
<1>b. \A i \in 1..Len(fg) : c[i] = TextIn(fg[i])
  BY <1>2
<1>c. /\ \A i \in 1..Len(fs) : ab[i] = a[i] /\ a[i] = TextIn(fs[i])
      /\ \A i \in 1..Len(gs) : ab[Len(fs) + i] = b[i] /\ b[i] = TextIn(gs[i])
  BY <1>2, <1>3
<1>d. ab \in Seq(Seq(TextBytes)) /\ c \in Seq(Seq(TextBytes)) /\ Len(c) = Len(ab) /\ Len(c) = Len(fg)
  BY <1>1, <1>2, <1>3
<1> HIDE DEF ab, fg
<1>5. \A i \in 1..Len(fg) : c[i] = ab[i]
  <2> TAKE i \in 1..Len(fg)
  <2>1. CASE i <= Len(fs)
    <3>1. i \in 1..Len(fs)
      BY <1>a, <2>1
    <3> QED
      BY <1>a, <1>b, <1>c, <3>1
  <2>2. CASE i > Len(fs)
    <3> DEFINE j == i - Len(fs)
    <3>1. j \in 1..Len(gs) /\ Len(fs) + j = i
      BY <1>a, <2>2
    <3> HIDE DEF j
    <3>2. ab[Len(fs) + j] = TextIn(gs[j]) /\ fg[Len(fs) + j] = gs[j]
      BY <1>a, <1>c, <3>1
    <3>3. c[i] = TextIn(fg[i])
      BY <1>b
    <3> QED
      BY <3>1, <3>2, <3>3
  <2> QED
    BY <1>a, <2>1, <2>2
<1>6. c = ab
  BY <1>5, <1>d, SeqEqual
<1>7. FlattenSeq(a \o b) = FlattenSeq(a) \o FlattenSeq(b)
  BY <1>2, FlattenConcat
<1> QED
  BY <1>4, <1>6, <1>7 DEF ab

LEMMA SentNothing ==
  ASSUME NEW fs \in Seq(FrameType), \A i \in 1..Len(fs) : fs[i].kind # "text"
  PROVE  SentText(fs) = <<>>
<1>1. /\ TextsIn(fs) \in Seq(Seq(TextBytes)) /\ Len(TextsIn(fs)) = Len(fs)
      /\ \A i \in 1..Len(fs) : TextsIn(fs)[i] = TextIn(fs[i])
      /\ SentText(fs) = FlattenSeq(TextsIn(fs)) /\ Len(fs) \in Nat
  BY TextsInType
<1>2. \A i \in 1..Len(fs) : TextsIn(fs)[i] = <<>>
  BY <1>1 DEF TextIn
<1> DEFINE s == TextsIn(fs)
<1>3. FlattenSeq(s) = Join(Len(s), s)
  BY <1>1, FlattenJoins
<1>4. Join(Len(s), s) = <<>>
  <2> HIDE DEF s
  <2>1. Len(s) \in Nat /\ \A i \in 1..Len(s) : s[i] = <<>>
    BY <1>1, <1>2 DEF s
  <2> QED
    BY <2>1, JoinNothing
<1> QED
  BY <1>1, <1>3, <1>4

LEMMA SentOne ==
  ASSUME NEW x \in Seq(TextBytes)
  PROVE  /\ TextFrames(x) \in Seq(FrameType)
         /\ \A i \in 1..Len(TextFrames(x)) :
              /\ TextFrames(x)[i].kind = "text" /\ TextFrames(x)[i].reason = "none"
              /\ TextFrames(x)[i].n = 0
         /\ SentText(TextFrames(x)) = x
<1> DEFINE f == [Frame("text") EXCEPT !.text = x]
<1>1. f \in FrameType /\ f.kind = "text" /\ f.reason = "none" /\ f.n = 0 /\ f.text = x
  <2>1. <<>> \in Seq(TextBytes) /\ Frame("text") = [kind |-> "text", text |-> <<>>, reason |-> "none", n |-> 0]
    BY EmptySeq DEF Frame
  <2>2. f = [kind |-> "text", text |-> x, reason |-> "none", n |-> 0]
    BY <2>1
  <2>3. [kind |-> "text", text |-> x, reason |-> "none", n |-> 0] \in FrameType
    BY DEF FrameType, Kinds, OpeningKinds, Reasons
  <2> QED
    BY <2>2, <2>3
<1> HIDE DEF f
<1>2. CASE x = <<>>
  <2>1. TextFrames(x) = <<>>
    BY <1>2 DEF TextFrames
  <2>2. <<>> \in Seq(FrameType) /\ Len(<<>>) = 0
    BY EmptySeq
  <2>3. SentText(<<>>) = <<>>
    <3> DEFINE none == <<>>
    <3>1. none \in Seq(FrameType) /\ \A i \in 1..Len(none) : none[i].kind # "text"
      BY <2>2
    <3> HIDE DEF none
    <3>2. SentText(none) = <<>>
      BY <3>1, SentNothing
    <3> QED
      BY <3>2 DEF none
  <2>4. \A i \in 1..Len(TextFrames(x)) : FALSE
    BY <2>1, <2>2
  <2> QED
    BY <1>2, <2>1, <2>2, <2>3, <2>4
<1>3. CASE x # <<>>
  <2>1. TextFrames(x) = <<f>>
    BY <1>3 DEF TextFrames, f
  <2>2. <<f>> \in Seq(FrameType) /\ Len(<<f>>) = 1 /\ <<f>>[1] = f
    BY <1>1
  <2>3. SentText(<<f>>) = x
    <3>1. TextsIn(<<f>>) = Append(<<>>, x)
      <4>1. /\ TextsIn(<<f>>) \in Seq(Seq(TextBytes)) /\ Len(TextsIn(<<f>>)) = 1
            /\ TextsIn(<<f>>)[1] = TextIn(f)
        <5> DEFINE s == <<f>>
        <5>1. s \in Seq(FrameType) /\ Len(s) = 1 /\ s[1] = f /\ 1 \in 1..Len(s)
          BY <2>2
        <5> HIDE DEF s
        <5>2. /\ TextsIn(s) \in Seq(Seq(TextBytes)) /\ Len(TextsIn(s)) = Len(s)
              /\ TextsIn(s)[1] = TextIn(s[1])
          BY <5>1, TextsInType
        <5> QED
          BY <5>1, <5>2 DEF s
      <4>2. TextIn(f) = x
        BY <1>1 DEF TextIn
      <4> QED
        BY <4>1, <4>2
    <3>2. FlattenSeq(Append(<<>>, x)) = FlattenSeq(<<>>) \o x
      <4>1. <<>> \in Seq(Seq(TextBytes))
        BY EmptySeq
      <4> QED
        BY <4>1, FlattenAppend
    <3>3. <<>> \o x = x
      BY ConcatEmptySeq
    <3> QED
      BY <2>2, <3>1, <3>2, <3>3, FlattenEmpty, TextsInType
  <2> QED
    BY <1>1, <2>1, <2>2, <2>3
<1> QED
  BY <1>2, <1>3

-----------------------------------------------------------------------------
(* The frames that end a stream.                                           *)

Protos == {"openai", "anthropic", "ollama", "llamacpp", "tgi", "ws"}
Ends == {"Eos", "Length", "ContextFull"}

Of(kind, reason, n, text) == [kind |-> kind, text |-> text, reason |-> reason, n |-> n]

LEMMA FramesOf ==
  ASSUME NEW kind \in Kinds, NEW reason \in Reasons, NEW n \in Nat, NEW text \in Seq(TextBytes)
  PROVE  /\ Frame(kind) = Of(kind, "none", 0, <<>>)
         /\ [Frame(kind) EXCEPT !.reason = reason] = Of(kind, reason, 0, <<>>)
         /\ Counted(kind, reason, n) = Of(kind, reason, n, <<>>)
         /\ [Counted(kind, reason, n) EXCEPT !.text = text] = Of(kind, reason, n, text)
         /\ Of(kind, "none", 0, <<>>) \in FrameType
         /\ Of(kind, reason, n, text) \in FrameType
         /\ Of(kind, reason, n, <<>>) \in FrameType
         /\ Of(kind, reason, 0, <<>>) \in FrameType
<1>1. <<>> \in Seq(TextBytes) /\ "none" \in Reasons
  BY EmptySeq DEF Reasons
<1>2. Frame(kind) = [kind |-> kind, text |-> <<>>, reason |-> "none", n |-> 0]
  BY DEF Frame
<1>3. [Frame(kind) EXCEPT !.reason = reason] = [kind |-> kind, text |-> <<>>, reason |-> reason, n |-> 0]
  BY <1>2
<1>4. Counted(kind, reason, n) = [kind |-> kind, text |-> <<>>, reason |-> reason, n |-> n]
  <2> DEFINE f == [kind |-> kind, text |-> <<>>, reason |-> "none", n |-> 0]
             g == [f EXCEPT !.reason = reason, !.n = n]
  <2>1. g \in [kind : {kind}, text : {<<>>}, reason : {reason}, n : {n}]
    OBVIOUS
  <2>2. Counted(kind, reason, n) = g
    BY <1>2 DEF Counted
  <2> HIDE DEF g
  <2>3. g = [kind |-> kind, text |-> <<>>, reason |-> reason, n |-> n]
    BY <2>1
  <2> QED
    BY <2>2, <2>3
<1>5. [Counted(kind, reason, n) EXCEPT !.text = text] = [kind |-> kind, text |-> text, reason |-> reason, n |-> n]
  BY <1>4
<1>6. ASSUME NEW r \in Reasons, NEW m \in Nat, NEW x \in Seq(TextBytes)
      PROVE  Of(kind, r, m, x) \in FrameType
  BY DEF Of, FrameType
<1> QED
  BY <1>1, <1>2, <1>3, <1>4, <1>5, <1>6 DEF Of

\* How a stream that ends is told: its last frame is an ending, and no other;
\* one reason; the count, or none; the text if it is sent again.
EndsWell(es, proto, reason, n, full) ==
  /\ es \in Seq(FrameType)
  /\ \A i \in 1..Len(es) :
       /\ es[i].kind # "text" /\ es[i].n \in {0, n}
       /\ es[i].kind \in Endings => i = Len(es)
  /\ reason # "None" =>
       /\ Len(es) # 0 /\ es[Len(es)].kind \in Endings \ {"error", "reply"}
       /\ es[Len(es)].kind = "generated" => es[Len(es)].text = full
       /\ \A i \in 1..Len(es) : es[i].reason \in {"none", Reason(proto, reason)}
       /\ \E i \in 1..Len(es) : es[i].reason = Reason(proto, reason)

LEMMA ReasonFacts ==
  ASSUME NEW proto \in Protos, NEW reason \in Ends
  PROVE  /\ Reason(proto, reason) \in Reasons \ {"none"}
         /\ Reason(proto, reason) \in Natural <=> reason = "Eos"
BY DEF Protos, Ends, Reason, AsOpenAi, AnthropicReason, OllamaReason, TgiReason,
       LlamaCppReason, Reasons, Natural

LEMMA EndFramesFacts ==
  ASSUME NEW proto \in Protos, NEW reason \in Ends \cup {"None"}, NEW n \in Nat, NEW full \in Seq(TextBytes)
  PROVE  EndsWell(EndFrames(proto, reason, n, full), proto, reason, n, full)
<1> DEFINE r == Reason(proto, reason)
           es == EndFrames(proto, reason, n, full)
<1>0. <<>> \in Seq(FrameType) /\ Len(<<>>) = 0 /\ <<>> \in Seq(TextBytes)
  BY EmptySeq
<1>1. reason # "None" => r \in Reasons \ {"none"}
  BY ReasonFacts
<1>2. CASE proto = "openai"
  <2>1. es = OpenAiEnd(reason)
    BY <1>2 DEF EndFrames
  <2>2. CASE reason = "None"
    <3> DEFINE a == Of("[DONE]", "none", 0, <<>>)
    <3>1. Frame("[DONE]") = a /\ a \in FrameType
      BY <1>0, FramesOf DEF Kinds, Endings, Reasons
    <3>2. <<>> \o <<a>> = <<a>>
      <4>1. <<a>> \in Seq(FrameType)
        BY <3>1
      <4> QED
        BY <4>1, ConcatEmptySeq
    <3>3. es = <<a>>
      BY <2>1, <2>2, <3>1, <3>2 DEF OpenAiEnd
    <3>4. a.kind = "[DONE]" /\ a.n = 0
      BY DEF Of
    <3> HIDE DEF a, es
    <3>5. es \in Seq(FrameType) /\ Len(es) = 1 /\ es[1] = a
      BY <3>1, <3>3
    <3>6. EndsWell(es, proto, reason, n, full)
      BY <2>2, <3>4, <3>5 DEF EndsWell
    <3> QED
      BY <3>6 DEF es
  <2>3. CASE reason # "None"
    <3> DEFINE a == Of("finish", r, 0, <<>>)
               b == Of("[DONE]", "none", 0, <<>>)
    <3>1. [Frame("finish") EXCEPT !.reason = r] = a /\ a \in FrameType
      BY <1>0, <1>1, <2>3, FramesOf DEF Kinds
    <3>2. Frame("[DONE]") = b /\ b \in FrameType
      BY <1>0, FramesOf DEF Kinds, Endings, Reasons
    <3>3. es = <<a>> \o <<b>>
      <4>1. r = AsOpenAi(reason)
        BY <1>2 DEF Reason
      <4> QED
        BY <2>1, <2>3, <3>1, <3>2, <4>1 DEF OpenAiEnd
    <3>4. a.kind = "finish" /\ a.n = 0 /\ a.reason = r /\ b.kind = "[DONE]" /\ b.n = 0 /\ b.reason = "none"
      BY DEF Of
    <3> HIDE DEF a, b, es, r
    <3>5. es \in Seq(FrameType) /\ Len(es) = 2 /\ es[1] = a /\ es[2] = b
      BY <3>1, <3>2, <3>3
    <3> QED
      BY <3>4, <3>5 DEF EndsWell, es, r, Endings
  <2> QED
    BY <2>2, <2>3
<1>3. CASE proto = "anthropic"
  <2> DEFINE q == AnthropicReason(reason)
             a == Of("content_block_stop", "none", 0, <<>>)
             b == Of("message_delta", q, n, <<>>)
             c == Of("message_stop", "none", 0, <<>>)
  <2>1. es = AnthropicEnd(reason, n) /\ r = q /\ q \in Reasons
    BY <1>3 DEF EndFrames, Reason, AnthropicReason, Reasons, Natural
  <2>2. /\ Frame("content_block_stop") = a /\ a \in FrameType
        /\ Frame("message_stop") = c /\ c \in FrameType
    BY <1>0, FramesOf DEF Kinds, Endings, Reasons
  <2>3. Counted("message_delta", q, n) = b /\ b \in FrameType
    BY <1>0, <2>1, FramesOf DEF Kinds
  <2>4. es = <<a, b, c>>
    BY <2>1, <2>2, <2>3 DEF AnthropicEnd
  <2>5. /\ a.kind = "content_block_stop" /\ a.n = 0 /\ a.reason = "none"
        /\ b.kind = "message_delta" /\ b.n = n /\ b.reason = q
        /\ c.kind = "message_stop" /\ c.n = 0 /\ c.reason = "none"
    BY DEF Of
  <2> HIDE DEF a, b, c, es, r, q
  <2>6. es \in Seq(FrameType) /\ Len(es) = 3 /\ es[1] = a /\ es[2] = b /\ es[3] = c
    BY <2>2, <2>3, <2>4
  <2> QED
    BY <2>1, <2>5, <2>6 DEF EndsWell, es, r, Endings
<1>4. ASSUME NEW kind \in {"done_line", "stop", "generated"}, NEW text \in Seq(TextBytes),
             kind = "generated" => text = full, reason # "None", es = <<Of(kind, r, n, text)>>
      PROVE  EndsWell(es, proto, reason, n, full)
  <2> DEFINE a == Of(kind, r, n, text)
  <2>1. a \in FrameType
    BY <1>1, <1>4, FramesOf DEF Kinds, Endings
  <2>2. a.kind = kind /\ a.n = n /\ a.reason = r /\ a.text = text
    BY DEF Of
  <2> HIDE DEF a
  <2>3. es \in Seq(FrameType) /\ Len(es) = 1 /\ es[1] = a
    BY <1>4, <2>1 DEF a
  <2> HIDE DEF es, r
  <2> QED
    BY <1>4, <2>2, <2>3 DEF EndsWell, r, Endings
<1>5. ASSUME reason = "None", es = <<>>
      PROVE  EndsWell(es, proto, reason, n, full)
  <2>1. es \in Seq(FrameType) /\ Len(es) = 0
    BY <1>0, <1>5
  <2> HIDE DEF es
  <2> QED
    BY <1>5, <2>1 DEF EndsWell
<1>6. CASE proto = "ollama"
  <2>1. es = OllamaEnd(reason, n) /\ r = OllamaReason(reason)
    BY <1>6 DEF EndFrames, Reason
  <2>2. CASE reason = "None"
    BY <1>5, <2>1, <2>2 DEF OllamaEnd
  <2>3. CASE reason # "None"
    <3>1. Counted("done_line", r, n) = Of("done_line", r, n, <<>>)
      BY <1>0, <1>1, <2>3, FramesOf DEF Kinds, Endings
    <3>2. es = <<Of("done_line", r, n, <<>>)>>
      BY <2>1, <2>3, <3>1 DEF OllamaEnd
    <3> HIDE DEF es, r
    <3> QED
      BY <1>0, <1>4, <2>3, <3>2 DEF es, r
  <2> QED
    BY <2>2, <2>3
<1>7. CASE proto = "llamacpp"
  <2>1. es = LlamaCppEnd(reason, n) /\ r = LlamaCppReason(reason)
    BY <1>7 DEF EndFrames, Reason
  <2>2. CASE reason = "None"
    BY <1>5, <2>1, <2>2 DEF LlamaCppEnd
  <2>3. CASE reason # "None"
    <3>1. Counted("stop", r, n) = Of("stop", r, n, <<>>)
      BY <1>0, <1>1, <2>3, FramesOf DEF Kinds, Endings
    <3>2. es = <<Of("stop", r, n, <<>>)>>
      BY <2>1, <2>3, <3>1 DEF LlamaCppEnd
    <3> HIDE DEF es, r
    <3> QED
      BY <1>0, <1>4, <2>3, <3>2 DEF es, r
  <2> QED
    BY <2>2, <2>3
<1>8. CASE proto = "tgi"
  <2>1. es = TgiEnd(reason, n, full) /\ r = TgiReason(reason)
    BY <1>8 DEF EndFrames, Reason
  <2>2. CASE reason = "None"
    BY <1>5, <2>1, <2>2 DEF TgiEnd
  <2>3. CASE reason # "None"
    <3>1. [Counted("generated", r, n) EXCEPT !.text = full] = Of("generated", r, n, full)
      <4> HIDE DEF r, es
      <4>1. "generated" \in Kinds /\ r \in Reasons
        BY <1>1, <2>3 DEF Kinds, Endings
      <4> QED
        BY <4>1, FramesOf
    <3>2. es = <<Of("generated", r, n, full)>>
      BY <2>1, <2>3, <3>1 DEF TgiEnd
    <3> HIDE DEF es, r
    <3> QED
      BY <1>0, <1>4, <2>3, <3>2 DEF es, r
  <2> QED
    BY <2>2, <2>3
<1>9. CASE proto = "ws"
  <2> DEFINE q == IF reason = "None" THEN "stop" ELSE AsOpenAi(reason)
             a == Of("done", q, 0, <<>>)
  <2>1. es = WsEnd(reason) /\ (reason # "None" => r = q) /\ q \in Reasons
    BY <1>9 DEF EndFrames, Reason, AsOpenAi, Reasons, Natural
  <2>2. [Frame("done") EXCEPT !.reason = q] = a /\ a \in FrameType
    BY <1>0, <2>1, FramesOf DEF Kinds, Endings
  <2>3. es = <<a>>
    BY <2>1, <2>2 DEF WsEnd
  <2>4. a.kind = "done" /\ a.n = 0 /\ a.reason = q
    BY DEF Of
  <2> HIDE DEF a, es, r, q
  <2>5. es \in Seq(FrameType) /\ Len(es) = 1 /\ es[1] = a
    BY <2>2, <2>3
  <2> QED
    BY <2>1, <2>4, <2>5 DEF EndsWell, es, r, Endings
<1> QED
  BY <1>2, <1>3, <1>6, <1>7, <1>8, <1>9 DEF Protos

-----------------------------------------------------------------------------
(* What holds of one connection in every state, of the values that are its *)
(* own: tk is the server's tokenizer, path the route, the others the       *)
(* connection's variables.                                                 *)

Event(tk) ==
  [kind : {"token"}, token : DOMAIN TokenBytes[tk]] \cup [kind : {"done"}, reason : Ends]
    \cup [kind : {"error"}, error : {"Timeout", "Inference"}] \cup [kind : {"silence"}]
Jobs(tk, j) ==
  [prompt : {j.prompt}, limit : {j.limit}, refusal : {"none", "RateLimit", "Busy", "Scheduler"},
   said : Seq(Event(tk)), taken : Nat, decoder : Decoders]
Tasks == [left : Nat, end : {"none", "ok", "Timeout", "Inference"}]

\* The tokens read; whether there is nothing left to read; whether tokens are
\* all that was read.
Toks(j) == TokensOf(SubSeq(j.said, 1, j.taken))
HeardAll(j) == j.said # <<>> /\ Last(j.said).kind # "token" /\ j.taken = Len(j.said)
TokensOnly(j) == \A i \in 1..j.taken : j.said[i].kind = "token"
Legible(tk, toks) == tk = "bpe" \/ ~Broken(BytesOf(tk, toks))

ConnType(tk, ph, st, fs, j, h, t) ==
  /\ ph \in Listening \cup {"over"} /\ st \in Codes /\ fs \in Seq(FrameType)
  /\ j \in Jobs(tk, j) /\ j.taken <= Len(j.said)
  /\ h \in BOOLEAN /\ t \in Tasks

\* What a handler's place in its course says of the rest.
Courses(path, ph, st, fs, j, h, g, t) ==
  /\ ph \in {"streaming", "collecting"} => path \in Generation
  /\ ph \in {"reading", "running"} => path = "/v1/ws" /\ st = 0
  /\ ph = "streaming" => st = 200
  /\ ph = "arrived" => st = 0
  /\ ph \in {"arrived", "collecting", "embedding"} => fs = <<>>
  /\ ph \in {"arrived", "embedding"} => j.said = <<>>
  /\ ph \in {"streaming", "running", "collecting"} => TokensOnly(j)
  /\ h => ph \in {"streaming", "collecting", "running"}
  /\ t.left > 0 /\ t.end = "none" => ph = "embedding" \/ g

Refused(path, ph, st, j) ==
  path \in Generation /\ j.refusal # "none" =>
    /\ ph = "over"
    /\ j.refusal = "RateLimit" <=> st = 429
    /\ j.refusal = "Busy" <=> st = 503

\* A stream that goes on: no frame ends it, and the text sent is what the
\* decoder gave out of the bytes it read.
Flowing(tk, fs, j) ==
  /\ \A i \in 1..Len(fs) : fs[i].kind \in OpeningKinds /\ fs[i].reason = "none" /\ fs[i].n = 0
  /\ Legible(tk, Toks(j)) => ToldSoFar(tk, BytesOf(tk, Toks(j)), j.decoder, SentText(fs))

EndsLast(fs) == \A i \in 1..Len(fs) : fs[i].kind \in Endings => i = Len(fs)

TextTold(tk, fs, j) ==
  Legible(tk, Toks(j)) =>
    /\ IsPrefix(SentText(fs), Decode(tk, Toks(j)))
    /\ HeardAll(j) /\ Last(j.said).kind = "done" =>
         IF Last(fs).kind = "reply" THEN Last(fs).text = Decode(tk, Toks(j))
         ELSE /\ SentText(fs) = Decode(tk, Toks(j))
              /\ Last(fs).kind = "generated" => Last(fs).text = Decode(tk, Toks(j))

ReasonsIn(fs) == {fs[i].reason : i \in DOMAIN fs} \ {"none"}

EndTold(st, fs, j) ==
  HeardAll(j) =>
    /\ Last(j.said).kind = "done" =>
         /\ fs # <<>> /\ Last(fs).kind \in Endings \ {"error"}
         /\ \E r \in Reasons : ReasonsIn(fs) = {r} /\ (Last(j.said).reason = "Eos" <=> r \in Natural)
         /\ \A i \in DOMAIN fs : fs[i].n \in {0, Len(TokensOf(j.said))}
    /\ Last(j.said).kind = "error" =>
         /\ ReasonsIn(fs) = {}
         /\ IF st \in {0, 200} THEN Last(fs).kind = "error" ELSE st >= 400

ConnOK(tk, path, ph, st, fs, j, h, g, t) ==
  /\ ConnType(tk, ph, st, fs, j, h, t)
  /\ Courses(path, ph, st, fs, j, h, g, t)
  /\ Refused(path, ph, st, j)
  /\ ph \in {"streaming", "running"} => Flowing(tk, fs, j)
  /\ EndsLast(fs) /\ TextTold(tk, fs, j) /\ EndTold(st, fs, j)

OK(c) ==
  ConnOK(server.tk, ask[c].path, phase[c], status[c], frames[c], job[c], held[c], gone[c], task[c])

Embedders == {c \in Conns : phase[c] = "embedding"}

IInv ==
  /\ \E s \in Scenarios : server = s.server /\ ask = s.ask
  /\ DOMAIN phase = Conns /\ DOMAIN status = Conns /\ DOMAIN frames = Conns /\ DOMAIN job = Conns
  /\ DOMAIN held = Conns /\ DOMAIN gone = Conns /\ DOMAIN task = Conns
  /\ permits \in Nat /\ permits + Cardinality(Embedders) = EmbeddingSlots
  /\ \A c \in Conns : OK(c)

-----------------------------------------------------------------------------
(* The tokens read and their bytes.                                        *)

LEMMA EventCases ==
  ASSUME NEW tk, NEW e \in Event(tk)
  PROVE  /\ e.kind \in {"token", "done", "error", "silence"}
         /\ e.kind = "token" => e.token \in DOMAIN TokenBytes[tk]
         /\ e.kind = "done" => e.reason \in Ends
         /\ e.kind = "error" => e.error \in {"Timeout", "Inference"}
BY DEF Event

\* What an event adds to the tokens.
TokenIn(e) == IF e.kind = "token" THEN <<e.token>> ELSE <<>>
TokensIn(said) == [i \in DOMAIN said |-> TokenIn(said[i])]

LEMMA TokensInType ==
  ASSUME NEW tk, NEW said \in Seq(Event(tk))
  PROVE  /\ TokensIn(said) \in Seq(Seq(DOMAIN TokenBytes[tk])) /\ Len(TokensIn(said)) = Len(said)
         /\ \A i \in 1..Len(said) : TokensIn(said)[i] = TokenIn(said[i])
         /\ TokensOf(said) = FlattenSeq(TokensIn(said))
<1> DEFINE D == DOMAIN TokenBytes[tk]
           E(i) == TokenIn(said[i])
<1>1. DOMAIN said = 1..Len(said) /\ Len(said) \in Nat
  OBVIOUS
<1>2. \A i \in 1..Len(said) : E(i) \in Seq(D)
  <2> TAKE i \in 1..Len(said)
  <2>1. said[i] \in Event(tk)
    BY ElementOfSeq
  <2>2. said[i].kind = "token" => said[i].token \in D
    BY <2>1, EventCases
  <2> DEFINE e == said[i]
  <2> HIDE DEF e, D
  <2>3. CASE e.kind = "token"
    <3>1. e.token \in D
      BY <2>2, <2>3 DEF e
    <3>2. <<e.token>> \in Seq(D)
      BY <3>1
    <3> QED
      BY <2>3, <3>2 DEF TokenIn, e
  <2>4. CASE e.kind # "token"
    BY <2>4, EmptySeq DEF TokenIn, e
  <2> QED
    BY <2>3, <2>4
<1>3. TokensIn(said) = [i \in 1..Len(said) |-> E(i)]
  BY <1>1 DEF TokensIn
<1> HIDE DEF E, D
<1>4. TokensIn(said) \in [1..Len(said) -> Seq(D)]
  BY <1>2, <1>3
<1>5. TokensIn(said) \in Seq(Seq(D)) /\ Len(TokensIn(said)) = Len(said)
  BY <1>1, <1>4
<1>6. \A i \in 1..Len(said) : TokensIn(said)[i] = E(i)
  BY <1>3
<1>7. TokensOf(said) = FlattenSeq(TokensIn(said))
  BY DEF TokensOf, TokensIn, TokenIn
<1> QED
  BY <1>5, <1>6, <1>7 DEF E, D

LEMMA TokensType ==
  ASSUME NEW tk, NEW said \in Seq(Event(tk))
  PROVE  TokensOf(said) \in Seq(DOMAIN TokenBytes[tk])
BY TokensInType, FlattenType

LEMMA TokensAppend ==
  ASSUME NEW tk, NEW said \in Seq(Event(tk)), NEW e \in Event(tk)
  PROVE  TokensOf(Append(said, e)) = TokensOf(said) \o TokenIn(e)
<1> DEFINE D == DOMAIN TokenBytes[tk]
           more == Append(said, e)
           a == TokensIn(said)
           b == TokensIn(more)
<1>1. more \in Seq(Event(tk)) /\ Len(more) = Len(said) + 1 /\ Len(said) \in Nat
  OBVIOUS
<1>2. more[Len(said) + 1] = e /\ \A i \in 1..Len(said) : more[i] = said[i]
  OBVIOUS
<1>3. /\ a \in Seq(Seq(D)) /\ Len(a) = Len(said) /\ \A i \in 1..Len(said) : a[i] = TokenIn(said[i])
      /\ TokensOf(said) = FlattenSeq(a)
  BY TokensInType
<1> HIDE DEF D, more
<1>4. /\ b \in Seq(Seq(D)) /\ Len(b) = Len(more) /\ \A i \in 1..Len(more) : b[i] = TokenIn(more[i])
      /\ TokensOf(more) = FlattenSeq(b)
  BY <1>1, TokensInType DEF D
<1> HIDE DEF a, b
<1>5. TokenIn(e) \in Seq(D)
  <2>1. TokenIn(e) = b[Len(more)] /\ Len(more) \in 1..Len(more)
    BY <1>1, <1>2, <1>4
  <2> QED
    BY <1>1, <1>4, <2>1, ElementOfSeq
<1>6. b = Append(a, TokenIn(e))
  <2> DEFINE c == Append(a, TokenIn(e))
  <2>1. c \in Seq(Seq(D)) /\ Len(c) = Len(a) + 1 /\ c[Len(a) + 1] = TokenIn(e)
    BY <1>3, <1>5
  <2>2. \A i \in 1..Len(a) : c[i] = a[i]
    BY <1>3, <1>5
  <2> HIDE DEF c
  <2>3. \A i \in 1..Len(b) : b[i] = c[i]
    <3> TAKE i \in 1..Len(b)
    <3>1. Len(b) = Len(said) + 1 /\ Len(a) = Len(said) /\ b[i] = TokenIn(more[i])
      BY <1>1, <1>3, <1>4
    <3>2. CASE i = Len(said) + 1
      BY <1>2, <2>1, <3>1, <3>2
    <3>3. CASE i # Len(said) + 1
      <4>1. i \in 1..Len(said) /\ i \in 1..Len(a)
        BY <1>1, <3>1, <3>3
      <4> QED
        BY <1>2, <1>3, <2>2, <3>1, <4>1
    <3> QED
      BY <3>2, <3>3
  <2>4. Len(b) = Len(c)
    BY <1>1, <1>3, <1>4, <2>1
  <2>5. b = c
    BY <1>4, <2>1, <2>3, <2>4, SeqEqual
  <2> QED
    BY <2>5 DEF c
<1>7. FlattenSeq(Append(a, TokenIn(e))) = FlattenSeq(a) \o TokenIn(e)
  BY <1>3, <1>5, FlattenAppend
<1> QED
  BY <1>3, <1>4, <1>6, <1>7 DEF more

\* Reading one event more.
LEMMA ReadNext ==
  ASSUME NEW T, NEW s \in Seq(T), NEW n \in Nat, n + 1 <= Len(s)
  PROVE  /\ SubSeq(s, 1, n) \in Seq(T) /\ s[n + 1] \in T
         /\ SubSeq(s, 1, n + 1) = Append(SubSeq(s, 1, n), s[n + 1])
<1>1. n + 1 \in 1..Len(s) /\ Len(s) \in Nat
  OBVIOUS
<1>2. s[n + 1] \in T
  BY <1>1, ElementOfSeq
<1> DEFINE x == s[n + 1]
           a == SubSeq(s, 1, n)
           b == SubSeq(s, 1, n + 1)
           c == Append(a, x)
<1>3. a \in Seq(T) /\ Len(a) = n /\ \A i \in 1..n : a[i] = s[i]
  OBVIOUS
<1>4. b \in Seq(T) /\ Len(b) = n + 1 /\ \A i \in 1..(n + 1) : b[i] = s[i]
  OBVIOUS
<1> HIDE DEF x, a, b
<1>5. c \in Seq(T) /\ Len(c) = n + 1 /\ c[n + 1] = x /\ \A i \in 1..n : c[i] = a[i]
  BY <1>2, <1>3 DEF x
<1> HIDE DEF c
<1>6. \A i \in 1..(n + 1) : b[i] = c[i]
  BY <1>3, <1>4, <1>5 DEF x
<1>7. b = c
  BY <1>4, <1>5, <1>6, SeqEqual
<1> QED
  BY <1>2, <1>3, <1>7 DEF a, b, c, x

LEMMA ReadsTokens ==
  ASSUME NEW tk, NEW said \in Seq(Event(tk)), NEW n \in Nat, n + 1 <= Len(said)
  PROVE  /\ said[n + 1] \in Event(tk)
         /\ TokensOf(SubSeq(said, 1, n)) \in Seq(DOMAIN TokenBytes[tk])
         /\ TokensOf(SubSeq(said, 1, n + 1)) = TokensOf(SubSeq(said, 1, n)) \o TokenIn(said[n + 1])
<1>1. /\ SubSeq(said, 1, n) \in Seq(Event(tk)) /\ said[n + 1] \in Event(tk)
      /\ SubSeq(said, 1, n + 1) = Append(SubSeq(said, 1, n), said[n + 1])
  BY ReadNext
<1> QED
  BY <1>1, TokensAppend, TokensType

LEMMA TokensOfNone == TokensOf(<<>>) = <<>>
<1>1. DOMAIN <<>> = {}
  OBVIOUS
<1>2. [i \in {} |-> TokenIn(<<>>[i])] = <<>>
  OBVIOUS
<1>3. TokensOf(<<>>) = FlattenSeq(TokensIn(<<>>))
  BY DEF TokensOf, TokensIn, TokenIn
<1> QED
  BY <1>1, <1>2, <1>3, FlattenEmpty DEF TokensIn

LEMMA BytesType ==
  ASSUME NEW tk \in Tokenizers, NEW toks \in Seq(DOMAIN TokenBytes[tk])
  PROVE  BytesOf(tk, toks) \in Seq(Bytes)
<1> DEFINE B == TokenBytes[tk]
           p == [i \in DOMAIN toks |-> B[toks[i]]]
<1>1. \A t \in DOMAIN B : B[t] \in Seq(Bytes)
  BY TokenBytesAssumption
<1>2. BytesOf(tk, toks) = FlattenSeq(p)
  BY DEF BytesOf
<1>3. toks \in Seq(DOMAIN B)
  OBVIOUS
<1> HIDE DEF B
<1>4. p \in Seq(Seq(Bytes))
  <2>1. DOMAIN toks = 1..Len(toks) /\ Len(toks) \in Nat /\ \A i \in 1..Len(toks) : toks[i] \in DOMAIN B
    BY <1>3
  <2>2. p \in [1..Len(toks) -> Seq(Bytes)]
    BY <1>1, <2>1
  <2> QED
    BY <2>1, <2>2
<1> QED
  BY <1>2, <1>4, FlattenType

LEMMA BytesAppend ==
  ASSUME NEW tk \in Tokenizers, NEW toks \in Seq(DOMAIN TokenBytes[tk]), NEW t \in DOMAIN TokenBytes[tk]
  PROVE  BytesOf(tk, toks \o <<t>>) = BytesOf(tk, toks) \o TokenBytes[tk][t]
<1> DEFINE B == TokenBytes[tk]
           D == DOMAIN B
           more == toks \o <<t>>
           p == [i \in DOMAIN toks |-> B[toks[i]]]
           q == [i \in DOMAIN more |-> B[more[i]]]
<1>1. \A x \in D : B[x] \in Seq(Bytes)
  BY TokenBytesAssumption
<1>2. BytesOf(tk, toks) = FlattenSeq(p) /\ BytesOf(tk, more) = FlattenSeq(q)
  BY DEF BytesOf
<1>3. toks \in Seq(D) /\ t \in D
  OBVIOUS
<1> HIDE DEF B, D
<1>4. /\ more \in Seq(D) /\ Len(more) = Len(toks) + 1 /\ more[Len(toks) + 1] = t
      /\ Len(toks) \in Nat /\ DOMAIN toks = 1..Len(toks) /\ DOMAIN more = 1..Len(more)
      /\ \A i \in 1..Len(toks) : more[i] = toks[i] /\ toks[i] \in D
  BY <1>3
<1> HIDE DEF more
<1>5. p \in Seq(Seq(Bytes)) /\ Len(p) = Len(toks) /\ \A i \in 1..Len(toks) : p[i] = B[toks[i]]
  <2>1. p \in [1..Len(toks) -> Seq(Bytes)]
    BY <1>1, <1>4
  <2> QED
    BY <1>4, <2>1
<1>6. q \in Seq(Seq(Bytes)) /\ Len(q) = Len(toks) + 1 /\ \A i \in 1..Len(more) : q[i] = B[more[i]]
  <2>1. \A i \in 1..Len(more) : more[i] \in D
    BY <1>4
  <2>2. q \in [1..Len(more) -> Seq(Bytes)]
    BY <1>1, <1>4, <2>1
  <2> QED
    BY <1>4, <2>2
<1> DEFINE r == Append(p, B[t])
<1> HIDE DEF p, q
<1>7. r \in Seq(Seq(Bytes)) /\ Len(r) = Len(toks) + 1 /\ r[Len(toks) + 1] = B[t] /\ \A i \in 1..Len(toks) : r[i] = p[i]
  BY <1>1, <1>3, <1>4, <1>5
<1> HIDE DEF r
<1>8. \A i \in 1..Len(q) : q[i] = r[i]
  <2> TAKE i \in 1..Len(q)
  <2>1. CASE i = Len(toks) + 1
    BY <1>4, <1>6, <1>7, <2>1
  <2>2. CASE i # Len(toks) + 1
    <3>1. i \in 1..Len(toks) /\ i \in 1..Len(more)
      BY <1>4, <1>6, <2>2
    <3>2. q[i] = B[more[i]] /\ more[i] = toks[i]
      BY <1>4, <1>6, <3>1
    <3>3. r[i] = p[i] /\ p[i] = B[toks[i]]
      BY <1>5, <1>7, <3>1
    <3> QED
      BY <3>2, <3>3
  <2> QED
    BY <2>1, <2>2
<1>9. q = r
  BY <1>6, <1>7, <1>8, SeqEqual
<1>10. FlattenSeq(Append(p, B[t])) = FlattenSeq(p) \o B[t]
  BY <1>1, <1>3, <1>5, FlattenAppend
<1> QED
  BY <1>2, <1>9, <1>10 DEF r, more, B

LEMMA BytesOfNone ==
  ASSUME NEW tk
  PROVE  BytesOf(tk, <<>>) = <<>>
<1>1. DOMAIN <<>> = {}
  OBVIOUS
<1> DEFINE E(i) == TokenBytes[tk][<<>>[i]]
<1>2. BytesOf(tk, <<>>) = FlattenSeq([i \in DOMAIN <<>> |-> E(i)])
  BY DEF BytesOf
<1> HIDE DEF E
<1>3. [i \in {} |-> E(i)] = <<>>
  OBVIOUS
<1> QED
  BY <1>1, <1>2, <1>3, FlattenEmpty

LEMMA DecodeType ==
  ASSUME NEW tk \in Tokenizers, NEW toks \in Seq(DOMAIN TokenBytes[tk])
  PROVE  /\ Decode(tk, toks) \in Seq(TextBytes)
         /\ Decode(tk, toks) = IF tk = "spm" THEN Unspaced(Lossy(BytesOf(tk, toks)))
                               ELSE Lossy(BytesOf(tk, toks))
<1>1. Lossy(BytesOf(tk, toks)) \in Seq(TextBytes)
  BY BytesType, LossyJoins
<1> QED
  BY <1>1, UnspacedType DEF Decode

LEMMA BeginsJoined ==
  ASSUME NEW T, NEW a \in Seq(T), NEW t \in Seq(T)
  PROVE  IsPrefix(a, a \o t)
BY DEF IsPrefix

\* What a decoder lets out and then finishes with is the whole reply.
LEMMA ToldIsPrefix ==
  ASSUME NEW tk \in Tokenizers, NEW toks \in Seq(DOMAIN TokenBytes[tk]), NEW d \in Decoders, NEW sent,
         ToldSoFar(tk, BytesOf(tk, toks), d, sent)
  PROVE  /\ sent \o Finish(d) = Decode(tk, toks) /\ IsPrefix(sent, Decode(tk, toks))
         /\ sent \in Seq(TextBytes) /\ Finish(d) \in Seq(TextBytes)
<1> DEFINE bytes == BytesOf(tk, toks)
           whole == Decode(tk, toks)
           rest == Finish(d)
<1>1. /\ sent \in Seq(TextBytes) /\ rest \in Seq(TextBytes)
      /\ sent \o rest = IF tk = "spm" THEN Unspaced(Lossy(bytes)) ELSE Lossy(bytes)
  BY FinishTells
<1>2. sent \o rest = whole
  BY <1>1, DecodeType
<1> HIDE DEF bytes, whole, rest
<1>3. IsPrefix(sent, sent \o rest)
  BY <1>1, BeginsJoined
<1> QED
  BY <1>1, <1>2, <1>3 DEF rest, whole

LEMMA NothingIsPrefix ==
  ASSUME NEW T, NEW a \in Seq(T)
  PROVE  IsPrefix(<<>>, a)
BY DEF IsPrefix

-----------------------------------------------------------------------------
(* What a step does to the request.                                        *)

LEMMA JobType ==
  ASSUME NEW tk, NEW j, j \in Jobs(tk, j)
  PROVE  /\ j.refusal \in {"none", "RateLimit", "Busy", "Scheduler"} /\ j.said \in Seq(Event(tk))
         /\ j.taken \in Nat /\ j.decoder \in Decoders /\ Len(j.said) \in Nat
BY DEF Jobs

LEMMA JobSaid ==
  ASSUME NEW tk, NEW j, j \in Jobs(tk, j), NEW s \in Seq(Event(tk)), NEW k, k = [j EXCEPT !.said = s]
  PROVE  /\ k \in Jobs(tk, k) /\ k.said = s /\ k.taken = j.taken
         /\ k.refusal = j.refusal /\ k.decoder = j.decoder
<1>1. j \in [prompt : {j.prompt}, limit : {j.limit}, refusal : {"none", "RateLimit", "Busy", "Scheduler"},
             said : Seq(Event(tk)), taken : Nat, decoder : Decoders]
  BY DEF Jobs
<1> DEFINE E == Event(tk)
<1> HIDE DEF E
<1>2. /\ k \in [prompt : {j.prompt}, limit : {j.limit}, refusal : {"none", "RateLimit", "Busy", "Scheduler"},
             said : Seq(E), taken : Nat, decoder : Decoders]
      /\ k.said = s /\ k.taken = j.taken /\ k.refusal = j.refusal /\ k.decoder = j.decoder
  BY <1>1 DEF E
<1>3. k.prompt = j.prompt /\ k.limit = j.limit
  BY <1>2
<1> QED
  BY <1>2, <1>3 DEF Jobs, E

LEMMA JobTaken ==
  ASSUME NEW tk, NEW j, j \in Jobs(tk, j), NEW n \in Nat, NEW k, k = [j EXCEPT !.taken = n]
  PROVE  /\ k \in Jobs(tk, k) /\ k.said = j.said /\ k.taken = n
         /\ k.refusal = j.refusal /\ k.decoder = j.decoder
<1>1. j \in [prompt : {j.prompt}, limit : {j.limit}, refusal : {"none", "RateLimit", "Busy", "Scheduler"},
             said : Seq(Event(tk)), taken : Nat, decoder : Decoders]
  BY DEF Jobs
<1> DEFINE E == Event(tk)
<1> HIDE DEF E
<1>2. /\ k \in [prompt : {j.prompt}, limit : {j.limit}, refusal : {"none", "RateLimit", "Busy", "Scheduler"},
             said : Seq(E), taken : Nat, decoder : Decoders]
      /\ k.said = j.said /\ k.taken = n /\ k.refusal = j.refusal /\ k.decoder = j.decoder
  BY <1>1 DEF E
<1>3. k.prompt = j.prompt /\ k.limit = j.limit
  BY <1>2
<1> QED
  BY <1>2, <1>3 DEF Jobs, E

LEMMA JobDecoder ==
  ASSUME NEW tk, NEW j, j \in Jobs(tk, j), NEW d \in Decoders, NEW k, k = [j EXCEPT !.decoder = d]
  PROVE  /\ k \in Jobs(tk, k) /\ k.said = j.said /\ k.taken = j.taken
         /\ k.refusal = j.refusal /\ k.decoder = d
<1>1. j \in [prompt : {j.prompt}, limit : {j.limit}, refusal : {"none", "RateLimit", "Busy", "Scheduler"},
             said : Seq(Event(tk)), taken : Nat, decoder : Decoders]
  BY DEF Jobs
<1> DEFINE E == Event(tk)
<1> HIDE DEF E
<1>2. /\ k \in [prompt : {j.prompt}, limit : {j.limit}, refusal : {"none", "RateLimit", "Busy", "Scheduler"},
             said : Seq(E), taken : Nat, decoder : Decoders]
      /\ k.said = j.said /\ k.taken = j.taken /\ k.refusal = j.refusal /\ k.decoder = d
  BY <1>1 DEF E
<1>3. k.prompt = j.prompt /\ k.limit = j.limit
  BY <1>2
<1> QED
  BY <1>2, <1>3 DEF Jobs, E

LEMMA JobRefused ==
  ASSUME NEW tk, NEW j, j \in Jobs(tk, j), NEW e \in {"RateLimit", "Busy", "Scheduler"},
         NEW k, k = [j EXCEPT !.refusal = e]
  PROVE  /\ k \in Jobs(tk, k) /\ k.said = j.said /\ k.taken = j.taken
         /\ k.refusal = e /\ k.decoder = j.decoder
<1>1. j \in [prompt : {j.prompt}, limit : {j.limit}, refusal : {"none", "RateLimit", "Busy", "Scheduler"},
             said : Seq(Event(tk)), taken : Nat, decoder : Decoders]
  BY DEF Jobs
<1> DEFINE E == Event(tk)
<1> HIDE DEF E
<1>2. /\ k \in [prompt : {j.prompt}, limit : {j.limit}, refusal : {"none", "RateLimit", "Busy", "Scheduler"},
             said : Seq(E), taken : Nat, decoder : Decoders]
      /\ k.said = j.said /\ k.taken = j.taken /\ k.refusal = e /\ k.decoder = j.decoder
  BY <1>1 DEF E
<1>3. k.prompt = j.prompt /\ k.limit = j.limit
  BY <1>2
<1> QED
  BY <1>2, <1>3 DEF Jobs, E

\* A request that was not read from yet.
Fresh(tk, j) ==
  /\ j \in Jobs(tk, j) /\ j.said = <<>> /\ j.taken = 0 /\ j.decoder = FreshDecoder

LEMMA NoJobFresh ==
  ASSUME NEW tk
  PROVE  Fresh(tk, NoJob) /\ NoJob.refusal = "none"
<1>1. <<>> \in Seq(Event(tk)) /\ FreshDecoder \in Decoders
  BY EmptySeq, FreshTold
<1> DEFINE E == Event(tk)
<1> HIDE DEF E
<1>2. /\ NoJob \in [prompt : {<<>>}, limit : {0}, refusal : {"none", "RateLimit", "Busy", "Scheduler"},
             said : Seq(E), taken : Nat, decoder : Decoders]
      /\ NoJob.prompt = <<>> /\ NoJob.limit = 0 /\ NoJob.said = <<>> /\ NoJob.taken = 0
      /\ NoJob.decoder = FreshDecoder /\ NoJob.refusal = "none"
  BY <1>1 DEF NoJob, E
<1> QED
  BY <1>2 DEF Fresh, Jobs, E

LEMMA AskedFresh ==
  ASSUME NEW tk, NEW prompt, NEW limit
  PROVE  Fresh(tk, Asked(prompt, limit)) /\ Asked(prompt, limit).refusal = "none"
<1>1. <<>> \in Seq(Event(tk)) /\ FreshDecoder \in Decoders
  BY EmptySeq, FreshTold
<1> DEFINE E == Event(tk)
           k == Asked(prompt, limit)
           l == [NoJob EXCEPT !.prompt = prompt, !.limit = limit]
<1>2. l \in [prompt : {prompt}, limit : {limit}, refusal : {"none"},
             said : {<<>>}, taken : {0}, decoder : {FreshDecoder}]
  BY DEF NoJob
<1>3. k = l
  BY DEF Asked
<1> HIDE DEF E, k, l
<1>4. k = [prompt |-> prompt, limit |-> limit, refusal |-> "none", said |-> <<>>, taken |-> 0,
           decoder |-> FreshDecoder]
  BY <1>2, <1>3
<1>5. /\ k.said = <<>> /\ k.taken = 0 /\ k.decoder = FreshDecoder /\ k.refusal = "none"
      /\ k.prompt = prompt /\ k.limit = limit
  BY <1>4
<1>6. k \in [prompt : {prompt}, limit : {limit}, refusal : {"none", "RateLimit", "Busy", "Scheduler"},
             said : Seq(E), taken : Nat, decoder : Decoders]
  BY <1>1, <1>4 DEF E
<1> QED
  BY <1>5, <1>6 DEF Fresh, Jobs, E, k

LEMMA RefusedFresh ==
  ASSUME NEW tk, NEW j, Fresh(tk, j), NEW e \in {"RateLimit", "Busy", "Scheduler"},
         NEW k, k = [j EXCEPT !.refusal = e]
  PROVE  Fresh(tk, k) /\ k.refusal = e
<1>1. /\ k \in Jobs(tk, k) /\ k.said = j.said /\ k.taken = j.taken
      /\ k.refusal = e /\ k.decoder = j.decoder
  BY JobRefused DEF Fresh
<1> QED
  BY <1>1 DEF Fresh

LEMMA FreshTells ==
  ASSUME NEW tk \in Tokenizers, NEW j, Fresh(tk, j), NEW st, NEW fs \in Seq(FrameType), SentText(fs) = <<>>
  PROVE  /\ TextTold(tk, fs, j) /\ EndTold(st, fs, j) /\ TokensOnly(j) /\ j.taken <= Len(j.said)
         /\ ToldSoFar(tk, BytesOf(tk, Toks(j)), j.decoder, SentText(fs))
<1>1. j.said = <<>> /\ j.taken = 0 /\ Len(<<>>) = 0 /\ j.decoder = FreshDecoder
  BY DEF Fresh
<1>2. ~HeardAll(j) /\ TokensOnly(j)
  BY <1>1 DEF HeardAll, TokensOnly
<1>3. Toks(j) = <<>>
  <2>1. SubSeq(<<>>, 1, 0) = <<>>
    BY SubSeqEmpty, EmptySeq
  <2> QED
    BY <1>1, <2>1, TokensOfNone DEF Toks
<1>4. ToldSoFar(tk, BytesOf(tk, Toks(j)), j.decoder, SentText(fs))
  BY <1>1, <1>3, BytesOfNone, FreshTold
<1>5. IsPrefix(SentText(fs), Decode(tk, Toks(j)))
  <2>1. <<>> \in Seq(DOMAIN TokenBytes[tk])
    BY EmptySeq
  <2>2. Decode(tk, <<>>) \in Seq(TextBytes)
    BY <2>1, DecodeType
  <2> QED
    BY <1>3, <2>2, NothingIsPrefix
<1>6. TextTold(tk, fs, j) /\ EndTold(st, fs, j)
  BY <1>2, <1>5 DEF TextTold, EndTold
<1>7. j.taken <= Len(j.said)
  BY <1>1
<1> QED
  BY <1>2, <1>4, <1>6, <1>7

LEMMA MidStream ==
  ASSUME NEW tk, NEW j, j \in Jobs(tk, j), TokensOnly(j)
  PROVE  ~HeardAll(j)
<1>1. j.said \in Seq(Event(tk)) /\ j.taken \in Nat /\ Len(j.said) \in Nat
  BY JobType
<1>2. SUFFICES ASSUME HeardAll(j) PROVE FALSE
  OBVIOUS
<1>3. j.said # <<>> /\ Last(j.said).kind # "token" /\ j.taken = Len(j.said)
  BY <1>2 DEF HeardAll
<1>4. Len(j.said) >= 1
  <2> DEFINE s == j.said
  <2> HIDE DEF s
  <2>1. s \in Seq(Event(tk)) /\ s # <<>> => Len(s) >= 1
    BY EmptySeq
  <2> QED
    BY <1>1, <1>3, <2>1 DEF s
<1>5. j.said[Len(j.said)].kind = "token"
  BY <1>1, <1>3, <1>4 DEF TokensOnly
<1> QED
  BY <1>3, <1>5 DEF Last

LEMMA TokensTyped ==
  ASSUME NEW tk, NEW j, j \in Jobs(tk, j), j.taken <= Len(j.said)
  PROVE  Toks(j) \in Seq(DOMAIN TokenBytes[tk])
<1>1. j.said \in Seq(Event(tk)) /\ j.taken \in Nat /\ Len(j.said) \in Nat
  BY JobType
<1> DEFINE s == j.said
           n == j.taken
<1> HIDE DEF s, n
<1>2. SubSeq(s, 1, n) \in Seq(Event(tk))
  BY <1>1 DEF s, n
<1> QED
  BY <1>2, TokensType DEF Toks, s, n

LEMMA FlowTells ==
  ASSUME NEW tk \in Tokenizers, NEW j, j \in Jobs(tk, j), j.taken <= Len(j.said), TokensOnly(j),
         NEW st, NEW fs, Flowing(tk, fs, j)
  PROVE  TextTold(tk, fs, j) /\ EndTold(st, fs, j)
<1>1. ~HeardAll(j)
  BY MidStream
<1>2. Toks(j) \in Seq(DOMAIN TokenBytes[tk]) /\ j.decoder \in Decoders
  BY TokensTyped, JobType
<1>3. Legible(tk, Toks(j)) => IsPrefix(SentText(fs), Decode(tk, Toks(j)))
  BY <1>2, ToldIsPrefix DEF Flowing
<1> QED
  BY <1>1, <1>3 DEF TextTold, EndTold

LEMMA OpeningEnds ==
  ASSUME NEW tk, NEW j, NEW fs, Flowing(tk, fs, j)
  PROVE  EndsLast(fs)
BY DEF Flowing, EndsLast, OpeningKinds, Endings

Saying(j, e) == [j EXCEPT !.said = Append(j.said, e)]
Reading(j) == [j EXCEPT !.taken = j.taken + 1]

\* The scheduler says one event more of a request whose handle is held.
LEMMA SaidMore ==
  ASSUME NEW tk \in Tokenizers, NEW j, j \in Jobs(tk, j), j.taken <= Len(j.said), TokensOnly(j),
         NEW e \in Event(tk), NEW k, k = Saying(j, e)
  PROVE  /\ k \in Jobs(tk, k) /\ k.taken = j.taken /\ k.refusal = j.refusal /\ k.decoder = j.decoder
         /\ k.taken <= Len(k.said) /\ TokensOnly(k) /\ Toks(k) = Toks(j)
<1>1. j.said \in Seq(Event(tk)) /\ j.taken \in Nat /\ Len(j.said) \in Nat
  BY JobType
<1> DEFINE s == j.said
           n == j.taken
           r == Append(s, e)
<1>2. s \in Seq(Event(tk)) /\ n \in Nat /\ n <= Len(s) /\ Len(s) \in Nat
  BY <1>1
<1> HIDE DEF s, n
<1>3. r \in Seq(Event(tk)) /\ Len(r) = Len(s) + 1 /\ \A i \in 1..Len(s) : r[i] = s[i]
  BY <1>2
<1>4. SubSeq(r, 1, n) = SubSeq(s, 1, n)
  <2> DEFINE a == SubSeq(r, 1, n)
             b == SubSeq(s, 1, n)
  <2>1. a \in Seq(Event(tk)) /\ Len(a) = n /\ \A i \in 1..n : a[i] = r[i]
    <3> HIDE DEF r
    <3> QED
      BY <1>2, <1>3
  <2>2. b \in Seq(Event(tk)) /\ Len(b) = n /\ \A i \in 1..n : b[i] = s[i]
    BY <1>2
  <2> HIDE DEF a, b, r
  <2>3. \A i \in 1..n : a[i] = b[i]
    BY <1>2, <1>3, <2>1, <2>2
  <2>4. a = b
    BY <1>2, <2>1, <2>2, <2>3, SeqEqual
  <2> QED
    BY <2>4 DEF a, b
<1> HIDE DEF r
<1>5. k = [j EXCEPT !.said = r]
  BY DEF r, s, Saying
<1>6. k \in Jobs(tk, k) /\ k.said = r /\ k.taken = n /\ k.refusal = j.refusal /\ k.decoder = j.decoder
  <2>1. r \in Seq(Event(tk)) /\ j \in Jobs(tk, j)
    BY <1>3
  <2>2. k \in Jobs(tk, k) /\ k.said = r /\ k.taken = j.taken /\ k.refusal = j.refusal /\ k.decoder = j.decoder
    BY ONLY <2>1, <1>5, JobSaid
  <2> QED
    BY <2>2 DEF n
<1>7. Toks(k) = Toks(j)
  BY <1>4, <1>6 DEF Toks, n, s
<1>8. TokensOnly(k)
  <2>1. \A i \in 1..n : s[i].kind = "token"
    BY DEF TokensOnly, s, n
  <2>2. \A i \in 1..n : r[i].kind = "token"
    BY <1>2, <1>3, <2>1
  <2> QED
    BY <1>6, <2>2 DEF TokensOnly
<1>9. k.taken <= Len(k.said)
  BY <1>2, <1>3, <1>6
<1> QED
  BY <1>6, <1>7, <1>8, <1>9 DEF n

\* A handler reads the next event.
LEMMA ReadOne ==
  ASSUME NEW tk \in Tokenizers, NEW j, j \in Jobs(tk, j), j.taken < Len(j.said),
         NEW k, k = Reading(j)
  PROVE  /\ k \in Jobs(tk, k) /\ k.said = j.said /\ k.taken = j.taken + 1
         /\ k.refusal = j.refusal /\ k.decoder = j.decoder /\ k.taken <= Len(k.said)
         /\ j.said[j.taken + 1] \in Event(tk)
         /\ Toks(j) \in Seq(DOMAIN TokenBytes[tk])
         /\ Toks(k) = Toks(j) \o TokenIn(j.said[j.taken + 1])
         /\ TokensOnly(j) /\ j.said[j.taken + 1].kind = "token" => TokensOnly(k)
<1>1. j.said \in Seq(Event(tk)) /\ j.taken \in Nat /\ Len(j.said) \in Nat
  BY JobType
<1>2. j.taken + 1 \in Nat /\ j.taken + 1 <= Len(j.said)
  BY <1>1
<1>3. /\ k \in Jobs(tk, k) /\ k.said = j.said /\ k.taken = j.taken + 1
      /\ k.refusal = j.refusal /\ k.decoder = j.decoder
  BY <1>2, JobTaken DEF Reading
<1>4. /\ j.said[j.taken + 1] \in Event(tk)
      /\ TokensOf(SubSeq(j.said, 1, j.taken)) \in Seq(DOMAIN TokenBytes[tk])
      /\ TokensOf(SubSeq(j.said, 1, j.taken + 1))
           = TokensOf(SubSeq(j.said, 1, j.taken)) \o TokenIn(j.said[j.taken + 1])
  BY <1>1, <1>2, ReadsTokens
<1>5. ASSUME TokensOnly(j), j.said[j.taken + 1].kind = "token"
      PROVE  TokensOnly(k)
  <2> SUFFICES ASSUME NEW i \in 1..k.taken
               PROVE  k.said[i].kind = "token"
    BY DEF TokensOnly
  <2>1. CASE i = j.taken + 1
    BY <1>3, <1>5, <2>1
  <2>2. CASE i # j.taken + 1
    <3>1. i \in 1..j.taken
      BY <1>1, <1>3, <2>2
    <3> QED
      BY <1>3, <1>5, <3>1 DEF TokensOnly
  <2> QED
    BY <2>1, <2>2
<1> QED
  BY <1>2, <1>3, <1>4, <1>5 DEF Toks

-----------------------------------------------------------------------------
(* One connection, step by step.                                           *)

LEMMA NoFrames ==
  /\ <<>> \in Seq(FrameType) /\ Len(<<>>) = 0 /\ SentText(<<>>) = <<>> /\ EndsLast(<<>>)
<1> DEFINE none == <<>>
<1>1. none \in Seq(FrameType) /\ Len(none) = 0
  BY EmptySeq
<1> HIDE DEF none
<1>2. SentText(none) = <<>>
  <2>1. \A i \in 1..Len(none) : none[i].kind # "text"
    BY <1>1
  <2> QED
    BY <1>1, <2>1, SentNothing
<1>3. EndsLast(none)
  BY <1>1 DEF EndsLast
<1> QED
  BY <1>1, <1>2, <1>3 DEF none

\* A request that goes on: nothing but what was said of it changes.
LEMMA ConnSay ==
  ASSUME NEW tk \in Tokenizers, NEW path, NEW ph, NEW st, NEW fs, NEW j, NEW g, NEW t,
         ConnOK(tk, path, ph, st, fs, j, TRUE, g, t),
         NEW e \in Event(tk), NEW k, k = Saying(j, e)
  PROVE  ConnOK(tk, path, ph, st, fs, k, TRUE, g, t)
<1>1. ph \in {"streaming", "collecting", "running"} /\ TokensOnly(j)
  <2>1. Courses(path, ph, st, fs, j, TRUE, g, t)
    BY DEF ConnOK
  <2> QED
    BY <2>1 DEF Courses
<1>2. j \in Jobs(tk, j) /\ j.taken <= Len(j.said)
  BY DEF ConnOK, ConnType
<1>3. /\ k \in Jobs(tk, k) /\ k.taken = j.taken /\ k.refusal = j.refusal /\ k.decoder = j.decoder
      /\ k.taken <= Len(k.said) /\ TokensOnly(k) /\ Toks(k) = Toks(j)
  BY <1>1, <1>2, SaidMore
<1>4. ~HeardAll(k)
  BY <1>3, MidStream
<1>5. ConnType(tk, ph, st, fs, k, TRUE, t)
  BY <1>3 DEF ConnOK, ConnType
<1>6. Courses(path, ph, st, fs, k, TRUE, g, t)
  BY <1>1, <1>3 DEF ConnOK, Courses
<1>7. Refused(path, ph, st, k)
  BY <1>3 DEF ConnOK, Refused
<1>8. ph \in {"streaming", "running"} => Flowing(tk, fs, k)
  BY <1>3 DEF ConnOK, Flowing
<1>9. TextTold(tk, fs, k) /\ EndTold(st, fs, k) /\ EndsLast(fs)
  BY <1>3, <1>4 DEF ConnOK, TextTold, EndTold
<1> QED
  BY <1>5, <1>6, <1>7, <1>8, <1>9 DEF ConnOK

\* A request that is over, or whose client left it: its handler lets go of it.
LEMMA ConnCloses ==
  ASSUME NEW tk \in Tokenizers, NEW path, NEW ph, NEW st, NEW fs, NEW j, NEW h, NEW g, NEW t,
         ConnOK(tk, path, ph, st, fs, j, h, g, t),
         ph \in {"streaming", "running", "collecting"},
         NEW st1 \in Codes, ph = "running" => st1 = st, NEW fs1 \in Seq(FrameType),
         NEW k, k \in Jobs(tk, k), k.taken <= Len(k.said), k.refusal = j.refusal,
         EndsLast(fs1), TextTold(tk, fs1, k), EndTold(st1, fs1, k),
         NEW ph1, ph1 = IF ph = "running" THEN "reading" ELSE "over"
  PROVE  ConnOK(tk, path, ph1, st1, fs1, k, FALSE, g, t)
<1>1. path \in Generation => k.refusal = "none"
  BY DEF ConnOK, Refused
<1>2. ConnType(tk, ph1, st1, fs1, k, FALSE, t)
  BY DEF ConnOK, ConnType, Listening
<1>3. Courses(path, ph1, st1, fs1, k, FALSE, g, t)
  BY DEF ConnOK, Courses
<1>4. Refused(path, ph1, st1, k)
  BY <1>1 DEF Refused
<1> QED
  BY <1>2, <1>3, <1>4 DEF ConnOK

\* A request that is answered before it is submitted.
LEMMA ConnAnswers ==
  ASSUME NEW tk \in Tokenizers, NEW path, NEW st, NEW fs, NEW j, NEW h, NEW g, NEW t,
         ConnOK(tk, path, "arrived", st, fs, j, h, g, t), NEW st1, st1 \in Codes
  PROVE  fs = <<>> /\ ConnOK(tk, path, "over", st1, fs, j, h, g, t)
<1>1. fs = <<>> /\ j.said = <<>> /\ h = FALSE
  BY DEF ConnOK, ConnType, Courses
<1>2. path \in Generation => j.refusal = "none"
  BY DEF ConnOK, Refused
<1>3. ConnType(tk, "over", st1, fs, j, h, t)
  BY DEF ConnOK, ConnType
<1>4. Courses(path, "over", st1, fs, j, h, g, t)
  BY <1>1 DEF ConnOK, Courses
<1>5. Refused(path, "over", st1, j)
  BY <1>2 DEF Refused
<1>6. EndTold(st1, fs, j)
  BY <1>1 DEF EndTold, HeardAll
<1> QED
  BY <1>1, <1>3, <1>4, <1>5, <1>6 DEF ConnOK

\* What session::submit gives back: a request to read, or why there is none.
LEMMA ConnCollects ==
  ASSUME NEW tk \in Tokenizers, NEW path \in Generation, NEW st, NEW fs, NEW j, NEW h, NEW g, NEW t,
         ConnOK(tk, path, "arrived", st, fs, j, h, g, t), NEW k, Fresh(tk, k), k.refusal = "none"
  PROVE  ConnOK(tk, path, "collecting", st, fs, k, TRUE, g, t)
<1>1. fs = <<>> /\ h = FALSE /\ st = 0
  BY DEF ConnOK, ConnType, Courses
<1>2. k \in Jobs(tk, k) /\ k.said = <<>>
  BY DEF Fresh
<1>3. fs \in Seq(FrameType) /\ SentText(fs) = <<>> /\ EndsLast(fs)
  BY <1>1, NoFrames
<1>4. TextTold(tk, fs, k) /\ EndTold(st, fs, k) /\ TokensOnly(k) /\ k.taken <= Len(k.said)
  BY <1>3, FreshTells
<1>5. ConnType(tk, "collecting", st, fs, k, TRUE, t)
  BY <1>2, <1>4 DEF ConnOK, ConnType, Listening
<1>6. Courses(path, "collecting", st, fs, k, TRUE, g, t)
  BY <1>1, <1>4 DEF ConnOK, Courses
<1>7. Refused(path, "collecting", st, k)
  BY DEF Refused
<1> QED
  BY <1>3, <1>4, <1>5, <1>6, <1>7 DEF ConnOK

OkCode == 200

LEMMA ConnStreams ==
  ASSUME NEW tk \in Tokenizers, NEW path \in Generation, NEW st, NEW fs, NEW j, NEW h, NEW g, NEW t,
         ConnOK(tk, path, "arrived", st, fs, j, h, g, t), NEW k, Fresh(tk, k), k.refusal = "none",
         NEW first \in Seq(FrameType), NEW st1, st1 = OkCode,
         \A i \in 1..Len(first) :
           first[i].kind \in OpeningKinds \ {"text"} /\ first[i].reason = "none" /\ first[i].n = 0
  PROVE  ConnOK(tk, path, "streaming", st1, first, k, TRUE, g, t)
<1>2. k \in Jobs(tk, k) /\ t \in Tasks
  BY DEF Fresh, ConnOK, ConnType
<1>3. t.left > 0 /\ t.end = "none" => g
  BY DEF ConnOK, Courses
<1>4. SentText(first) = <<>>
  BY SentNothing
<1>5. /\ TextTold(tk, first, k) /\ EndTold(st1, first, k) /\ TokensOnly(k) /\ k.taken <= Len(k.said)
      /\ ToldSoFar(tk, BytesOf(tk, Toks(k)), k.decoder, SentText(first))
  BY <1>4, FreshTells
<1>6. Flowing(tk, first, k)
  BY <1>5 DEF Flowing
<1>7. ConnType(tk, "streaming", st1, first, k, TRUE, t)
  BY <1>2, <1>5 DEF ConnType, Listening, Codes, OkCode
<1>8. Courses(path, "streaming", st1, first, k, TRUE, g, t)
  BY <1>3, <1>5 DEF Courses, OkCode
<1>9. Refused(path, "streaming", st1, k)
  BY DEF Refused
<1> QED
  BY <1>5, <1>6, <1>7, <1>8, <1>9, OpeningEnds DEF ConnOK

LEMMA ConnRefused ==
  ASSUME NEW tk \in Tokenizers, NEW path \in Generation, NEW st, NEW fs, NEW j, NEW h, NEW g, NEW t,
         ConnOK(tk, path, "arrived", st, fs, j, h, g, t), NEW k, Fresh(tk, k),
         NEW st1, st1 \in Codes, k.refusal = "RateLimit" <=> st1 = 429, k.refusal = "Busy" <=> st1 = 503
  PROVE  ConnOK(tk, path, "over", st1, fs, k, h, g, t)
<1>1. fs = <<>> /\ h = FALSE /\ st = 0
  BY DEF ConnOK, ConnType, Courses
<1>2. k \in Jobs(tk, k) /\ k.said = <<>>
  BY DEF Fresh
<1>3. fs \in Seq(FrameType) /\ SentText(fs) = <<>> /\ EndsLast(fs)
  BY <1>1, NoFrames
<1>4. TextTold(tk, fs, k) /\ EndTold(st1, fs, k) /\ TokensOnly(k) /\ k.taken <= Len(k.said)
  BY <1>3, FreshTells
<1>5. ConnType(tk, "over", st1, fs, k, h, t)
  BY <1>2, <1>4 DEF ConnOK, ConnType
<1>6. Courses(path, "over", st1, fs, k, h, g, t)
  BY <1>1 DEF ConnOK, Courses
<1>7. Refused(path, "over", st1, k)
  BY DEF Refused
<1> QED
  BY <1>3, <1>4, <1>5, <1>6, <1>7 DEF ConnOK

-----------------------------------------------------------------------------
(* A stream read to its end.                                               *)

\* Frames that go on: none of them ends the stream.
Ongoing(fs) ==
  \A i \in 1..Len(fs) : fs[i].kind \in OpeningKinds /\ fs[i].reason = "none" /\ fs[i].n = 0

LEMMA OngoingJoined ==
  ASSUME NEW fs \in Seq(FrameType), Ongoing(fs), NEW x \in Seq(TextBytes)
  PROVE  /\ fs \o TextFrames(x) \in Seq(FrameType) /\ Ongoing(fs \o TextFrames(x))
         /\ SentText(fs \o TextFrames(x)) = SentText(fs) \o x
<1> DEFINE gs == TextFrames(x)
           hs == fs \o gs
<1>1. /\ gs \in Seq(FrameType) /\ SentText(gs) = x
      /\ \A i \in 1..Len(gs) : gs[i].kind = "text" /\ gs[i].reason = "none" /\ gs[i].n = 0
  BY SentOne
<1> HIDE DEF gs
<1>2. /\ hs \in Seq(FrameType) /\ Len(hs) = Len(fs) + Len(gs) /\ Len(fs) \in Nat /\ Len(gs) \in Nat
      /\ \A i \in 1..Len(fs) : hs[i] = fs[i]
      /\ \A i \in 1..Len(gs) : hs[Len(fs) + i] = gs[i]
  BY <1>1, ConcatAt
<1>3. SentText(hs) = SentText(fs) \o x
  BY <1>1, SentConcat
<1> HIDE DEF hs
<1>4. Ongoing(hs)
  <2> SUFFICES ASSUME NEW i \in 1..Len(hs)
               PROVE  hs[i].kind \in OpeningKinds /\ hs[i].reason = "none" /\ hs[i].n = 0
    BY DEF Ongoing
  <2>1. CASE i <= Len(fs)
    <3>1. i \in 1..Len(fs)
      BY <1>2, <2>1
    <3> QED
      BY <1>2, <3>1 DEF Ongoing
  <2>2. CASE i > Len(fs)
    <3> DEFINE m == i - Len(fs)
    <3>1. m \in 1..Len(gs) /\ Len(fs) + m = i
      BY <1>2, <2>2
    <3> HIDE DEF m
    <3>2. hs[i] = gs[m]
      BY <1>2, <3>1
    <3> QED
      BY <1>1, <3>1, <3>2 DEF OpeningKinds
  <2> QED
    BY <1>2, <2>1, <2>2
<1> QED
  BY <1>2, <1>3, <1>4 DEF hs, gs

\* The frames of a stream that ended.
Ended(hs, fs, proto, reason, n, full) ==
  /\ hs \in Seq(FrameType) /\ SentText(hs) = SentText(fs) /\ EndsLast(hs)
  /\ \A i \in DOMAIN hs : hs[i].n \in {0, n}
  /\ reason # "None" =>
       /\ hs # <<>> /\ Last(hs).kind \in Endings \ {"error", "reply"}
       /\ Last(hs).kind = "generated" => Last(hs).text = full
       /\ ReasonsIn(hs) = {Reason(proto, reason)}

\* A stream and the frames that end it.
LEMMA StreamEnds ==
  ASSUME NEW fs \in Seq(FrameType), Ongoing(fs), NEW proto \in Protos, NEW reason \in Ends \cup {"None"},
         NEW n \in Nat, NEW full, NEW es, EndsWell(es, proto, reason, n, full)
  PROVE  Ended(fs \o es, fs, proto, reason, n, full)
<1> DEFINE hs == fs \o es
           r == Reason(proto, reason)
<1>1. /\ es \in Seq(FrameType)
      /\ \A i \in 1..Len(es) :
           /\ es[i].kind # "text" /\ es[i].n \in {0, n}
           /\ es[i].kind \in Endings => i = Len(es)
  BY DEF EndsWell
<1>2. reason # "None" =>
       /\ Len(es) # 0 /\ es[Len(es)].kind \in Endings \ {"error", "reply"}
       /\ es[Len(es)].kind = "generated" => es[Len(es)].text = full
       /\ \A i \in 1..Len(es) : es[i].reason \in {"none", r}
       /\ \E i \in 1..Len(es) : es[i].reason = r
  BY DEF EndsWell
<1>3. /\ hs \in Seq(FrameType) /\ Len(hs) = Len(fs) + Len(es) /\ Len(fs) \in Nat /\ Len(es) \in Nat
      /\ \A i \in 1..Len(fs) : hs[i] = fs[i]
      /\ \A i \in 1..Len(es) : hs[Len(fs) + i] = es[i]
  BY <1>1, ConcatAt
<1>4. SentText(hs) = SentText(fs)
  <2>1. SentText(hs) = SentText(fs) \o SentText(es)
    BY <1>1, SentConcat
  <2>2. SentText(es) = <<>>
    BY <1>1, SentNothing
  <2>3. SentText(fs) \in Seq(TextBytes)
    BY SentType
  <2> QED
    BY <2>1, <2>2, <2>3, ConcatEmptySeq
<1>5. reason # "None" => r \in Reasons \ {"none"}
  BY ReasonFacts
<1>6. DOMAIN hs = 1..Len(hs)
  BY <1>3
<1> HIDE DEF hs, r
<1>7. ASSUME NEW i \in 1..Len(hs)
      PROVE  \/ /\ i \in 1..Len(fs) /\ hs[i].kind \in OpeningKinds /\ hs[i].reason = "none" /\ hs[i].n = 0
             \/ \E m \in 1..Len(es) : i = Len(fs) + m /\ hs[i] = es[m]
  <2>1. CASE i <= Len(fs)
    <3>1. i \in 1..Len(fs)
      BY <1>3, <2>1
    <3> QED
      BY <1>3, <3>1 DEF Ongoing
  <2>2. CASE i > Len(fs)
    <3> DEFINE m == i - Len(fs)
    <3>1. m \in 1..Len(es) /\ Len(fs) + m = i
      BY <1>3, <2>2
    <3> HIDE DEF m
    <3>2. hs[i] = es[m]
      BY <1>3, <3>1
    <3> QED
      BY <3>1, <3>2
  <2> QED
    BY <1>3, <2>1, <2>2
<1>8. EndsLast(hs)
  <2> SUFFICES ASSUME NEW i \in 1..Len(hs), hs[i].kind \in Endings
               PROVE  i = Len(hs)
    BY DEF EndsLast
  <2>1. hs[i].kind \notin OpeningKinds
    BY DEF Endings, OpeningKinds
  <2>2. PICK m \in 1..Len(es) : i = Len(fs) + m /\ hs[i] = es[m]
    BY <1>7, <2>1
  <2>3. m = Len(es)
    BY <1>1, <2>2
  <2> QED
    BY <1>3, <2>2, <2>3
<1>9. \A i \in DOMAIN hs : hs[i].n \in {0, n}
  BY <1>1, <1>6, <1>7
<1>10. ASSUME reason # "None"
       PROVE  /\ hs # <<>> /\ Last(hs) = es[Len(es)]
              /\ ReasonsIn(hs) = {r}
  <2>1. Len(es) \in 1..Len(es) /\ Len(hs) # 0
    BY <1>2, <1>3, <1>10
  <2>2. hs # <<>>
    BY <2>1
  <2>3. hs[Len(hs)] = es[Len(es)]
    BY <1>3, <2>1
  <2>4. PICK m \in 1..Len(es) : es[m].reason = r
    BY <1>2, <1>10
  <2>5. Len(fs) + m \in 1..Len(hs) /\ hs[Len(fs) + m].reason = r
    BY <1>3, <2>4
  <2>6. ASSUME NEW i \in 1..Len(hs)
        PROVE  hs[i].reason \in {"none", r}
    BY <1>2, <1>7, <1>10
  <2>7. ReasonsIn(hs) = {r}
    BY <1>5, <1>6, <1>10, <2>5, <2>6 DEF ReasonsIn
  <2> QED
    BY <2>2, <2>3, <2>7 DEF Last
<1> QED
  <2>1. Ended(hs, fs, proto, reason, n, full)
    BY <1>2, <1>3, <1>4, <1>8, <1>9, <1>10 DEF Ended, r
  <2> QED
    BY <2>1 DEF hs

\* The last event that a handler read.
LEMMA LastHeard ==
  ASSUME NEW tk \in Tokenizers, NEW j, j \in Jobs(tk, j), j.taken < Len(j.said), NEW k, k = Reading(j),
         HeardAll(k)
  PROVE  /\ Last(k.said) = j.said[j.taken + 1] /\ TokensOf(k.said) = Toks(k)
<1>1. /\ k.said = j.said /\ k.taken = j.taken + 1 /\ k.taken = Len(k.said)
  BY ReadOne DEF HeardAll
<1>2. k.said \in Seq(Event(tk))
  BY <1>1, JobType
<1> DEFINE s == k.said
<1>3. s \in Seq(Event(tk)) /\ k.taken = Len(s)
  BY <1>1, <1>2
<1> HIDE DEF s
<1>4. SubSeq(s, 1, Len(s)) = s
  BY <1>3, SubSeqFull
<1>5. TokensOf(k.said) = Toks(k)
  BY <1>3, <1>4 DEF Toks, s
<1> QED
  BY <1>1, <1>5 DEF Last

LEMMA TokensCounted ==
  ASSUME NEW tk, NEW j, j \in Jobs(tk, j), j.taken <= Len(j.said), TokensOnly(j)
  PROVE  Len(Toks(j)) = j.taken
<1> DEFINE D == DOMAIN TokenBytes[tk]
           n == j.taken
           s == SubSeq(j.said, 1, n)
           p == [i \in 1..n |-> s[i].token]
<1>1. j.said \in Seq(Event(tk)) /\ n \in Nat /\ Len(j.said) \in Nat /\ n <= Len(j.said)
  BY JobType
<1>2. s \in Seq(Event(tk)) /\ Len(s) = n /\ \A i \in 1..n : s[i] = j.said[i]
  <2> DEFINE w == j.said
  <2> HIDE DEF w
  <2>1. /\ SubSeq(w, 1, n) \in Seq(Event(tk)) /\ Len(SubSeq(w, 1, n)) = n
        /\ \A i \in 1..n : SubSeq(w, 1, n)[i] = w[i]
    <3> HIDE DEF n
    <3> QED
      BY <1>1 DEF w
  <2> QED
    BY <2>1 DEF w
<1>3. \A i \in 1..n : s[i].kind = "token"
  BY <1>2 DEF TokensOnly
<1> HIDE DEF s, D
<1>4. \A i \in 1..n : s[i].token \in D
  <2> TAKE i \in 1..n
  <2>1. s[i] \in Event(tk) /\ s[i].kind = "token"
    BY <1>1, <1>2, <1>3, ElementOfSeq
  <2> QED
    BY <2>1, EventCases DEF D
<1> HIDE DEF n
<1>5. p \in Seq(D) /\ Len(p) = n /\ DOMAIN p = 1..n
  <2>1. p \in [1..n -> D]
    BY <1>4
  <2> QED
    BY <1>1, <2>1
<1>6. TokensIn(s) = [i \in DOMAIN p |-> <<p[i]>>]
  <2>1. \A i \in 1..n : TokenIn(s[i]) = <<p[i]>>
    BY <1>3 DEF TokenIn
  <2>2. DOMAIN s = 1..n
    BY <1>1, <1>2
  <2> HIDE DEF p
  <2> QED
    BY <1>5, <2>1, <2>2 DEF TokensIn
<1> HIDE DEF p
<1>7. FlattenSeq([i \in DOMAIN p |-> <<p[i]>>]) = p
  BY <1>5, FlattenSingles
<1>8. TokensOf(s) = p
  BY <1>2, <1>6, <1>7, TokensInType
<1> QED
  BY <1>5, <1>8 DEF Toks, s, n

\* Bytes that are no text stay so, whatever follows them.
LEMMA LegibleBefore ==
  ASSUME NEW tk \in Tokenizers, NEW toks \in Seq(DOMAIN TokenBytes[tk]), NEW t \in DOMAIN TokenBytes[tk],
         Legible(tk, toks \o <<t>>)
  PROVE  /\ Legible(tk, toks) /\ BytesOf(tk, toks \o <<t>>) = BytesOf(tk, toks) \o TokenBytes[tk][t]
         /\ tk = "bpe" \/ ~Broken(BytesOf(tk, toks) \o TokenBytes[tk][t])
<1> DEFINE b == BytesOf(tk, toks)
           new == TokenBytes[tk][t]
<1>1. b \in Seq(Bytes) /\ new \in Seq(Bytes)
  BY BytesType, TokenBytesAssumption
<1>2. BytesOf(tk, toks \o <<t>>) = b \o new
  BY BytesAppend
<1>3. tk = "bpe" \/ ~Broken(b \o new)
  BY <1>2 DEF Legible
<1> HIDE DEF b, new
<1>4. tk = "bpe" \/ ~Broken(b)
  BY <1>1, <1>3, BrokenStays
<1> QED
  BY <1>2, <1>3, <1>4 DEF Legible, b, new

\* The request as pieces leaves it once it pushed a token.
Pushed(j, d) == [Reading(j) EXCEPT !.decoder = d]

LEMMA ConnToken ==
  ASSUME NEW tk \in Tokenizers, NEW path, NEW ph, NEW st, NEW fs, NEW j, NEW h, NEW g, NEW t,
         ConnOK(tk, path, ph, st, fs, j, h, g, t), ph \in {"streaming", "running"},
         j.taken < Len(j.said), j.said[j.taken + 1].kind = "token",
         NEW d, d = Push(tk, j.decoder, j.said[j.taken + 1].token), NEW k, k = Pushed(j, d)
  PROVE  ConnOK(tk, path, ph, st, fs \o TextFrames(d.text), k, h, g, t)
<1> DEFINE l == Reading(j)
           tok == j.said[j.taken + 1].token
           toks == Toks(j)
           fs1 == fs \o TextFrames(d.text)
<1>1. j \in Jobs(tk, j) /\ fs \in Seq(FrameType) /\ TokensOnly(j) /\ Flowing(tk, fs, j)
  BY DEF ConnOK, ConnType, Courses
<1>2. /\ l \in Jobs(tk, l) /\ l.said = j.said /\ l.taken = j.taken + 1
      /\ l.refusal = j.refusal /\ l.taken <= Len(l.said)
      /\ j.said[j.taken + 1] \in Event(tk)
      /\ toks \in Seq(DOMAIN TokenBytes[tk])
      /\ Toks(l) = toks \o TokenIn(j.said[j.taken + 1]) /\ TokensOnly(l)
  BY <1>1, ReadOne
<1>3. tok \in DOMAIN TokenBytes[tk] /\ TokenIn(j.said[j.taken + 1]) = <<tok>>
  BY <1>2, EventCases DEF TokenIn
<1>4. d \in Decoders /\ d.text \in Seq(TextBytes)
  <2>1. d \in Decoders
    BY <1>1, <1>3, PushType, JobType
  <2> QED
    BY <2>1 DEF Decoders
<1> HIDE DEF l
<1>5. k = [l EXCEPT !.decoder = d]
  BY DEF Pushed, l
<1>6. k \in Jobs(tk, k) /\ k.said = l.said /\ k.taken = l.taken /\ k.refusal = l.refusal /\ k.decoder = d
  BY <1>2, <1>4, <1>5, JobDecoder
<1>7. Toks(k) = toks \o <<tok>> /\ TokensOnly(k) /\ k.taken <= Len(k.said)
  BY <1>2, <1>3, <1>6 DEF Toks, TokensOnly
<1>8. fs1 \in Seq(FrameType) /\ Ongoing(fs1) /\ SentText(fs1) = SentText(fs) \o d.text
  BY <1>1, <1>4, OngoingJoined DEF Flowing, Ongoing
<1>9. ASSUME Legible(tk, Toks(k))
      PROVE  ToldSoFar(tk, BytesOf(tk, Toks(k)), k.decoder, SentText(fs1))
  <2>1. Legible(tk, toks \o <<tok>>)
    BY <1>7, <1>9
  <2> HIDE DEF toks, tok
  <2>2. /\ Legible(tk, toks) /\ BytesOf(tk, toks \o <<tok>>) = BytesOf(tk, toks) \o TokenBytes[tk][tok]
        /\ tk = "bpe" \/ ~Broken(BytesOf(tk, toks) \o TokenBytes[tk][tok])
    BY <1>2, <1>3, <2>1, LegibleBefore
  <2>3. ToldSoFar(tk, BytesOf(tk, toks), j.decoder, SentText(fs))
    BY <1>1, <2>2 DEF Flowing, toks
  <2>4. j.decoder \in Decoders
    BY <1>1, JobType
  <2>5. ToldSoFar(tk, BytesOf(tk, toks) \o TokenBytes[tk][tok], Push(tk, j.decoder, tok),
                  SentText(fs) \o Push(tk, j.decoder, tok).text)
    BY <1>3, <2>2, <2>3, <2>4, PushTells
  <2>6. Push(tk, j.decoder, tok) = d
    BY DEF tok
  <2>7. ToldSoFar(tk, BytesOf(tk, toks) \o TokenBytes[tk][tok], d, SentText(fs) \o d.text)
    BY <2>5, <2>6
  <2> QED
    BY <1>6, <1>7, <1>8, <2>2, <2>7 DEF toks, tok
<1> HIDE DEF fs1
<1>10. Flowing(tk, fs1, k)
  BY <1>8, <1>9 DEF Flowing, Ongoing
<1>11. TextTold(tk, fs1, k) /\ EndTold(st, fs1, k) /\ EndsLast(fs1)
  BY <1>6, <1>7, <1>10, FlowTells, OpeningEnds
<1>12. ConnType(tk, ph, st, fs1, k, h, t)
  BY <1>6, <1>7, <1>8 DEF ConnOK, ConnType
<1>13. Courses(path, ph, st, fs1, k, h, g, t)
  BY <1>7 DEF ConnOK, Courses
<1>14. Refused(path, ph, st, k)
  BY <1>2, <1>6 DEF ConnOK, Refused
<1> QED
  BY <1>10, <1>11, <1>12, <1>13, <1>14 DEF ConnOK, fs1

LEMMA ProtocolIs ==
  ASSUME NEW path
  PROVE  Protocol(path) \in Protos
BY DEF Protocol, Protos

\* What every way of ending a stream has in common.
LEMMA StreamAt ==
  ASSUME NEW tk \in Tokenizers, NEW path, NEW ph, NEW st, NEW fs, NEW j, NEW h, NEW g, NEW t,
         ConnOK(tk, path, ph, st, fs, j, h, g, t), ph \in {"streaming", "running"},
         j.taken < Len(j.said), j.said[j.taken + 1].kind # "token", NEW k, k = Reading(j)
  PROVE  /\ j \in Jobs(tk, j) /\ fs \in Seq(FrameType) /\ Ongoing(fs) /\ SentText(fs) \in Seq(TextBytes)
         /\ st \in Codes /\ st \in {0, 200} /\ (ph = "running" => st = 0)
         /\ k \in Jobs(tk, k) /\ k.refusal = j.refusal /\ k.taken <= Len(k.said)
         /\ Toks(k) = Toks(j) /\ Toks(j) \in Seq(DOMAIN TokenBytes[tk]) /\ Len(Toks(j)) = j.taken
         /\ j.taken \in Nat /\ j.said[j.taken + 1] \in Event(tk) /\ Finish(j.decoder) \in Seq(TextBytes)
         /\ Legible(tk, Toks(j)) =>
              /\ SentText(fs) \o Finish(j.decoder) = Decode(tk, Toks(j))
              /\ IsPrefix(SentText(fs), Decode(tk, Toks(j)))
         /\ Decode(tk, Toks(j)) \in Seq(TextBytes)
<1>1. j \in Jobs(tk, j) /\ fs \in Seq(FrameType) /\ TokensOnly(j) /\ Flowing(tk, fs, j) /\ j.taken <= Len(j.said)
  BY DEF ConnOK, ConnType, Courses
<1>2. st \in Codes /\ st \in {0, 200} /\ (ph = "running" => st = 0)
  BY DEF ConnOK, ConnType, Courses
<1>3. /\ k \in Jobs(tk, k) /\ k.refusal = j.refusal /\ k.taken <= Len(k.said)
      /\ j.said[j.taken + 1] \in Event(tk) /\ Toks(j) \in Seq(DOMAIN TokenBytes[tk])
      /\ Toks(k) = Toks(j) \o TokenIn(j.said[j.taken + 1])
  BY <1>1, ReadOne
<1>4. Toks(k) = Toks(j)
  <2>1. TokenIn(j.said[j.taken + 1]) = <<>>
    BY DEF TokenIn
  <2>2. Toks(j) \o <<>> = Toks(j)
    BY <1>3, ConcatEmptySeq
  <2> QED
    BY <1>3, <2>1, <2>2
<1>5. j.taken \in Nat /\ j.decoder \in Decoders
  BY <1>1, JobType
<1>6. Len(Toks(j)) = j.taken
  BY <1>1, TokensCounted
<1>7. Finish(j.decoder) \in Seq(TextBytes)
  <2>1. j.decoder.pending \in Seq(Bytes)
    BY <1>5 DEF Decoders
  <2> QED
    BY <2>1, LossyJoins DEF Finish
<1>8. Legible(tk, Toks(j)) =>
        /\ SentText(fs) \o Finish(j.decoder) = Decode(tk, Toks(j))
        /\ IsPrefix(SentText(fs), Decode(tk, Toks(j)))
  <2> SUFFICES ASSUME Legible(tk, Toks(j))
               PROVE  /\ SentText(fs) \o Finish(j.decoder) = Decode(tk, Toks(j))
                      /\ IsPrefix(SentText(fs), Decode(tk, Toks(j)))
    OBVIOUS
  <2>1. ToldSoFar(tk, BytesOf(tk, Toks(j)), j.decoder, SentText(fs))
    BY <1>1 DEF Flowing
  <2> QED
    BY <1>3, <1>5, <2>1, ToldIsPrefix
<1>9. SentText(fs) \in Seq(TextBytes) /\ Decode(tk, Toks(j)) \in Seq(TextBytes)
  BY <1>1, <1>3, SentType, DecodeType
<1>10. Ongoing(fs)
  BY <1>1 DEF Flowing, Ongoing
<1> HIDE DEF Finish
<1> QED
  BY <1>1, <1>2, <1>3, <1>4, <1>5, <1>6, <1>7, <1>8, <1>9, <1>10

\* What a stream that is done was sent.
SentAll(fs, j) == fs \o TextFrames(Finish(j.decoder))
DoneFrames(path, fs, j) ==
  SentAll(fs, j) \o EndFrames(Protocol(path), j.said[j.taken + 1].reason, j.taken, SentText(SentAll(fs, j)))

\* The request is done: the text held back is sent, and then how it ended.
LEMMA ConnDone ==
  ASSUME NEW tk \in Tokenizers, NEW path, NEW ph, NEW st, NEW fs, NEW j, NEW h, NEW g, NEW t,
         ConnOK(tk, path, ph, st, fs, j, h, g, t), ph \in {"streaming", "running"},
         j.taken < Len(j.said), j.said[j.taken + 1].kind = "done", NEW k, k = Reading(j),
         NEW fs1, fs1 = DoneFrames(path, fs, j),
         NEW ph1, ph1 = IF ph = "running" THEN "reading" ELSE "over"
  PROVE  ConnOK(tk, path, ph1, st, fs1, k, FALSE, g, t)
<1> DEFINE e == j.said[j.taken + 1]
           sent == SentAll(fs, j)
           proto == Protocol(path)
           full == SentText(sent)
           whole == Decode(tk, Toks(j))
           es == EndFrames(proto, e.reason, j.taken, full)
<1>1. /\ j \in Jobs(tk, j) /\ fs \in Seq(FrameType) /\ Ongoing(fs) /\ SentText(fs) \in Seq(TextBytes)
      /\ st \in Codes
      /\ k \in Jobs(tk, k) /\ k.refusal = j.refusal /\ k.taken <= Len(k.said)
      /\ Toks(k) = Toks(j) /\ Len(Toks(j)) = j.taken /\ whole \in Seq(TextBytes)
      /\ j.taken \in Nat /\ e \in Event(tk) /\ Finish(j.decoder) \in Seq(TextBytes)
      /\ Legible(tk, Toks(j)) => SentText(fs) \o Finish(j.decoder) = whole
  BY StreamAt
<1>2. /\ sent \in Seq(FrameType) /\ Ongoing(sent) /\ full = SentText(fs) \o Finish(j.decoder)
  BY <1>1, OngoingJoined DEF SentAll
<1>3. e.reason \in Ends /\ proto \in Protos /\ full \in Seq(TextBytes)
  BY <1>1, <1>2, EventCases, ProtocolIs, SentType
<1> DEFINE reason == e.reason
<1>4. EndsWell(es, proto, reason, j.taken, full)
  <2> HIDE DEF proto, full, reason
  <2>1. proto \in Protos /\ full \in Seq(TextBytes) /\ reason \in Ends \cup {"None"} /\ j.taken \in Nat
    BY <1>1, <1>3 DEF reason
  <2>2. EndsWell(EndFrames(proto, reason, j.taken, full), proto, reason, j.taken, full)
    BY <2>1, EndFramesFacts
  <2> QED
    BY <2>2 DEF reason
<1>5. fs1 = sent \o es /\ reason # "None"
  BY <1>3 DEF Ends, DoneFrames
<1> HIDE DEF es, full, proto, reason, whole, sent
<1>6. /\ fs1 \in Seq(FrameType) /\ SentText(fs1) = full /\ EndsLast(fs1)
      /\ \A i \in DOMAIN fs1 : fs1[i].n \in {0, j.taken}
      /\ fs1 # <<>> /\ Last(fs1).kind \in Endings \ {"error", "reply"}
      /\ Last(fs1).kind = "generated" => Last(fs1).text = full
      /\ ReasonsIn(fs1) = {Reason(proto, reason)}
  <2>1. proto \in Protos /\ reason \in Ends \cup {"None"} /\ j.taken \in Nat
    BY <1>1, <1>3 DEF reason
  <2>2. Ended(sent \o es, sent, proto, reason, j.taken, full)
    BY <1>2, <1>4, <2>1, StreamEnds
  <2>3. Ended(fs1, sent, proto, reason, j.taken, full)
    BY <1>5, <2>2
  <2> QED
    BY <1>5, <2>3 DEF Ended, full
<1>7. HeardAll(k) => Last(k.said) = e /\ TokensOf(k.said) = Toks(j)
  BY <1>1, LastHeard
<1>8. TextTold(tk, fs1, k)
  <2> SUFFICES ASSUME Legible(tk, Toks(j))
               PROVE  /\ IsPrefix(SentText(fs1), Decode(tk, Toks(j)))
                      /\ SentText(fs1) = Decode(tk, Toks(j))
                      /\ Last(fs1).kind # "reply"
                      /\ Last(fs1).kind = "generated" => Last(fs1).text = Decode(tk, Toks(j))
    BY <1>1 DEF TextTold
  <2>1. full = whole
    BY <1>1, <1>2
  <2>2. IsPrefix(whole, whole)
    <3>1. <<>> \in Seq(TextBytes) /\ whole \o <<>> = whole
      BY <1>1, EmptySeq, ConcatEmptySeq
    <3>2. IsPrefix(whole, whole \o <<>>)
      BY <1>1, <3>1, BeginsJoined
    <3> QED
      BY <3>1, <3>2
  <2> QED
    BY <1>6, <2>1, <2>2 DEF whole
<1>9. EndTold(st, fs1, k)
  <2>1. /\ Reason(proto, reason) \in Reasons
        /\ Reason(proto, reason) \in Natural <=> reason = "Eos"
    BY <1>3, ReasonFacts DEF reason
  <2>2. HeardAll(k) =>
          /\ Last(k.said).kind = "done" /\ Last(k.said).reason = reason
          /\ Len(TokensOf(k.said)) = j.taken
    BY <1>1, <1>7 DEF reason
  <2>3. \E r \in Reasons : ReasonsIn(fs1) = {r} /\ (reason = "Eos" <=> r \in Natural)
    BY <1>6, <2>1
  <2> HIDE DEF e
  <2> QED
    BY <1>6, <2>2, <2>3 DEF EndTold
<1>10. /\ tk \in Tokenizers /\ ConnOK(tk, path, ph, st, fs, j, h, g, t)
       /\ ph \in {"streaming", "running", "collecting"}
       /\ ph1 = IF ph = "running" THEN "reading" ELSE "over"
  OBVIOUS
<1>11. st \in Codes /\ k \in Jobs(tk, k) /\ k.refusal = j.refusal /\ k.taken <= Len(k.said)
  BY <1>1
<1>12. fs1 \in Seq(FrameType) /\ EndsLast(fs1)
  BY <1>6
<1> QED
  BY ONLY <1>8, <1>9, <1>10, <1>11, <1>12, ConnCloses

LEMMA OneMore ==
  ASSUME NEW fs \in Seq(FrameType), Ongoing(fs), NEW f \in FrameType, f.kind \in Endings,
         NEW hs, hs = Append(fs, f)
  PROVE  /\ hs \in Seq(FrameType) /\ SentText(hs) = SentText(fs) /\ EndsLast(hs)
         /\ Last(hs) = f /\ ReasonsIn(hs) = {f.reason} \ {"none"}
<1>1. /\ hs \in Seq(FrameType) /\ Len(hs) = Len(fs) + 1 /\ Len(fs) \in Nat /\ DOMAIN hs = 1..Len(hs)
      /\ hs[Len(fs) + 1] = f /\ \A i \in 1..Len(fs) : hs[i] = fs[i]
  OBVIOUS
<1>2. SentText(hs) = SentText(fs)
  <2> DEFINE gs == <<f>>
  <2>1. gs \in Seq(FrameType) /\ \A i \in 1..Len(gs) : gs[i].kind # "text"
    BY DEF Endings
  <2>2. hs = fs \o gs
    OBVIOUS
  <2> HIDE DEF gs
  <2>3. SentText(fs \o gs) = SentText(fs) \o SentText(gs)
    BY <2>1, SentConcat
  <2>4. SentText(gs) = <<>> /\ SentText(fs) \in Seq(TextBytes)
    BY <2>1, SentNothing, SentType
  <2> QED
    BY <2>2, <2>3, <2>4, ConcatEmptySeq
<1>3. EndsLast(hs)
  <2> SUFFICES ASSUME NEW i \in 1..Len(hs), hs[i].kind \in Endings
               PROVE  i = Len(hs)
    BY DEF EndsLast
  <2>1. CASE i \in 1..Len(fs)
    <3>1. fs[i].kind \in OpeningKinds /\ hs[i] = fs[i]
      BY <1>1, <2>1 DEF Ongoing
    <3> QED
      BY <3>1 DEF OpeningKinds, Endings
  <2> QED
    BY <1>1, <2>1
<1>4. Last(hs) = f
  BY <1>1 DEF Last
<1>5. ReasonsIn(hs) = {f.reason} \ {"none"}
  <2>1. \A i \in 1..Len(fs) : hs[i].reason = "none"
    BY <1>1 DEF Ongoing
  <2>2. \A i \in DOMAIN hs : hs[i].reason \in {"none", f.reason}
    BY <1>1, <2>1
  <2>3. Len(fs) + 1 \in DOMAIN hs /\ hs[Len(fs) + 1].reason = f.reason
    BY <1>1
  <2> QED
    BY <2>2, <2>3 DEF ReasonsIn
<1> QED
  BY <1>1, <1>2, <1>3, <1>4, <1>5

LEMMA ErrorFrame ==
  Frame("error") \in FrameType /\ Frame("error").kind = "error" /\ Frame("error").reason = "none"
<1>1. Frame("error") = Of("error", "none", 0, <<>>) /\ Of("error", "none", 0, <<>>) \in FrameType
  BY FramesOf, EmptySeq DEF Kinds, Endings, Reasons
<1> QED
  BY <1>1 DEF Of

\* The request failed: the error is told, whatever was sent before it.
LEMMA ConnError ==
  ASSUME NEW tk \in Tokenizers, NEW path, NEW ph, NEW st, NEW fs, NEW j, NEW h, NEW g, NEW t,
         ConnOK(tk, path, ph, st, fs, j, h, g, t), ph \in {"streaming", "running"},
         j.taken < Len(j.said), j.said[j.taken + 1].kind = "error", NEW k, k = Reading(j),
         NEW fs1, fs1 = Append(fs, Frame("error")),
         NEW ph1, ph1 = IF ph = "running" THEN "reading" ELSE "over"
  PROVE  ConnOK(tk, path, ph1, st, fs1, k, FALSE, g, t)
<1>1. /\ j \in Jobs(tk, j) /\ fs \in Seq(FrameType) /\ Ongoing(fs) /\ st \in Codes /\ st \in {0, 200}
      /\ k \in Jobs(tk, k) /\ k.refusal = j.refusal /\ k.taken <= Len(k.said) /\ Toks(k) = Toks(j)
      /\ Legible(tk, Toks(j)) => IsPrefix(SentText(fs), Decode(tk, Toks(j)))
  BY StreamAt
<1>2. /\ fs1 \in Seq(FrameType) /\ SentText(fs1) = SentText(fs) /\ EndsLast(fs1)
      /\ Last(fs1).kind = "error" /\ ReasonsIn(fs1) = {}
  <2> DEFINE f == Frame("error")
  <2>1. f \in FrameType /\ f.kind = "error" /\ f.kind \in Endings /\ f.reason = "none"
    BY ErrorFrame DEF Endings
  <2>2. fs1 = Append(fs, f) /\ fs \in Seq(FrameType) /\ Ongoing(fs)
    BY <1>1
  <2> HIDE DEF f
  <2>3. /\ fs1 \in Seq(FrameType) /\ SentText(fs1) = SentText(fs) /\ EndsLast(fs1)
        /\ Last(fs1) = f /\ ReasonsIn(fs1) = {f.reason} \ {"none"}
    BY ONLY <2>1, <2>2, OneMore
  <2> QED
    BY <2>1, <2>3
<1>3. HeardAll(k) => Last(k.said).kind = "error"
  BY <1>1, LastHeard
<1>4. TextTold(tk, fs1, k)
  BY <1>1, <1>2, <1>3 DEF TextTold
<1>5. EndTold(st, fs1, k)
  BY <1>1, <1>2, <1>3 DEF EndTold
<1>10. /\ tk \in Tokenizers /\ ConnOK(tk, path, ph, st, fs, j, h, g, t)
       /\ ph \in {"streaming", "running", "collecting"}
       /\ ph1 = IF ph = "running" THEN "reading" ELSE "over"
  OBVIOUS
<1>11. st \in Codes /\ k \in Jobs(tk, k) /\ k.refusal = j.refusal /\ k.taken <= Len(k.said)
  BY <1>1
<1>12. fs1 \in Seq(FrameType) /\ EndsLast(fs1)
  BY <1>2
<1> QED
  BY ONLY <1>4, <1>5, <1>10, <1>11, <1>12, ConnCloses

\* The worker fell silent: the format ends as it would have begun.
LEMMA ConnSilence ==
  ASSUME NEW tk \in Tokenizers, NEW path, NEW ph, NEW st, NEW fs, NEW j, NEW h, NEW g, NEW t,
         ConnOK(tk, path, ph, st, fs, j, h, g, t), ph \in {"streaming", "running"},
         j.taken < Len(j.said), j.said[j.taken + 1].kind = "silence", NEW k, k = Reading(j),
         NEW fs1, fs1 = fs \o EndFrames(Protocol(path), "None", 0, <<>>),
         NEW ph1, ph1 = IF ph = "running" THEN "reading" ELSE "over"
  PROVE  ConnOK(tk, path, ph1, st, fs1, k, FALSE, g, t)
<1> DEFINE proto == Protocol(path)
           es == EndFrames(proto, "None", 0, <<>>)
<1>1. /\ j \in Jobs(tk, j) /\ fs \in Seq(FrameType) /\ Ongoing(fs) /\ st \in Codes
      /\ k \in Jobs(tk, k) /\ k.refusal = j.refusal /\ k.taken <= Len(k.said) /\ Toks(k) = Toks(j)
      /\ Legible(tk, Toks(j)) => IsPrefix(SentText(fs), Decode(tk, Toks(j)))
  BY StreamAt
<1>2. proto \in Protos /\ <<>> \in Seq(TextBytes) /\ 0 \in Nat /\ "None" \in Ends \cup {"None"}
  BY ProtocolIs, EmptySeq
<1>3. EndsWell(es, proto, "None", 0, <<>>)
  <2> HIDE DEF proto
  <2> QED
    BY <1>2, EndFramesFacts
<1> HIDE DEF es, proto
<1>4. Ended(fs \o es, fs, proto, "None", 0, <<>>)
  BY <1>1, <1>2, <1>3, StreamEnds
<1>5. fs1 = fs \o es
  BY DEF es, proto
<1>6. fs1 \in Seq(FrameType) /\ SentText(fs1) = SentText(fs) /\ EndsLast(fs1)
  BY <1>4, <1>5 DEF Ended
<1>7. HeardAll(k) => Last(k.said).kind = "silence"
  BY <1>1, LastHeard
<1>8. TextTold(tk, fs1, k)
  BY <1>1, <1>6, <1>7 DEF TextTold
<1>9. EndTold(st, fs1, k)
  BY <1>7 DEF EndTold
<1>10. /\ tk \in Tokenizers /\ ConnOK(tk, path, ph, st, fs, j, h, g, t)
       /\ ph \in {"streaming", "running", "collecting"}
       /\ ph1 = IF ph = "running" THEN "reading" ELSE "over"
  OBVIOUS
<1>11. st \in Codes /\ k \in Jobs(tk, k) /\ k.refusal = j.refusal /\ k.taken <= Len(k.said)
  BY <1>1
<1>12. fs1 \in Seq(FrameType) /\ EndsLast(fs1)
  BY <1>6
<1> QED
  BY ONLY <1>8, <1>9, <1>10, <1>11, <1>12, ConnCloses

\* A cancel is told as what it is, and the socket reads on.
LEMMA ConnCancels ==
  ASSUME NEW tk \in Tokenizers, NEW path, NEW st, NEW fs, NEW j, NEW h, NEW g, NEW t,
         ConnOK(tk, path, "running", st, fs, j, h, g, t),
         NEW fs1, fs1 = Append(fs, [Frame("done") EXCEPT !.reason = "cancelled"])
  PROVE  ConnOK(tk, path, "reading", st, fs1, j, FALSE, g, t)
<1> DEFINE f == [Frame("done") EXCEPT !.reason = "cancelled"]
<1>1. /\ j \in Jobs(tk, j) /\ j.taken <= Len(j.said) /\ fs \in Seq(FrameType) /\ st \in Codes
      /\ TokensOnly(j) /\ Flowing(tk, fs, j)
  BY DEF ConnOK, ConnType, Courses
<1>2. f \in FrameType /\ f.kind = "done"
  <2>1. f = Of("done", "cancelled", 0, <<>>) /\ Of("done", "cancelled", 0, <<>>) \in FrameType
    <3>1. "done" \in Kinds /\ "cancelled" \in Reasons /\ 0 \in Nat /\ <<>> \in Seq(TextBytes)
      BY EmptySeq DEF Kinds, Endings, Reasons
    <3> QED
      BY <3>1, FramesOf
  <2> QED
    BY <2>1 DEF Of
<1>3. fs1 = Append(fs, f)
  OBVIOUS
<1> HIDE DEF f
<1>4. Ongoing(fs) /\ f.kind \in Endings
  BY <1>1, <1>2 DEF Flowing, Ongoing, Endings
<1>5. fs1 \in Seq(FrameType) /\ SentText(fs1) = SentText(fs) /\ EndsLast(fs1)
  BY <1>1, <1>2, <1>3, <1>4, OneMore
<1>6. ~HeardAll(j)
  BY <1>1, MidStream
<1>7. TextTold(tk, fs, j)
  BY DEF ConnOK
<1>8. TextTold(tk, fs1, j)
  BY <1>5, <1>6, <1>7 DEF TextTold
<1>9. EndTold(st, fs1, j)
  BY <1>6 DEF EndTold
<1> DEFINE ph == "running"
           ph1 == "reading"
<1>10. /\ tk \in Tokenizers /\ ConnOK(tk, path, ph, st, fs, j, h, g, t)
       /\ ph \in {"streaming", "running", "collecting"}
       /\ ph1 = IF ph = "running" THEN "reading" ELSE "over"
  OBVIOUS
<1>11. st \in Codes /\ j \in Jobs(tk, j) /\ j.refusal = j.refusal /\ j.taken <= Len(j.said)
  BY <1>1
<1>12. fs1 \in Seq(FrameType) /\ EndsLast(fs1)
  BY <1>5
<1> HIDE DEF ph, ph1
<1>13. ConnOK(tk, path, ph1, st, fs1, j, FALSE, g, t)
  BY ONLY <1>8, <1>9, <1>10, <1>11, <1>12, ConnCloses
<1> QED
  BY <1>13 DEF ph1

-----------------------------------------------------------------------------
(* A request collected, and answered at once.                              *)

LEMMA StatusFacts ==
  ASSUME NEW path \in Generation,
         NEW e \in {"Timeout", "Inference", "Scheduler", "RateLimit", "Busy", "Config"}
  PROVE  /\ Status(Protocol(path), e) \in Codes \ {0, 200} /\ Status(Protocol(path), e) >= 400
         /\ e = "RateLimit" <=> Status(Protocol(path), e) = 429
         /\ e = "Busy" <=> Status(Protocol(path), e) = 503
<1>1. Protocol(path) \in {"openai", "anthropic", "ollama", "llamacpp", "tgi"}
  BY DEF Generation, ChatPaths, TextPaths, Protocol
<1> DEFINE proto == Protocol(path)
           Good(s) == /\ s \in Codes \ {0, 200} /\ s >= 400
                      /\ e = "RateLimit" <=> s = 429
                      /\ e = "Busy" <=> s = 503
<1> HIDE DEF proto
<1>2. Good(Mapped(400, e)) /\ Good(Mapped(422, e))
  BY DEF Mapped, Codes
<1>3. Good(OpenAiStatus(e))
  BY <1>2 DEF OpenAiStatus, Codes
<1> HIDE DEF Good
<1>4. Good(Status(proto, e))
  BY <1>1, <1>2, <1>3 DEF Status, AnthropicStatus, OllamaStatus, LlamaCppStatus, TgiStatus, proto
<1> QED
  BY <1>4 DEF Good, proto

LEMMA CollectAt ==
  ASSUME NEW tk \in Tokenizers, NEW path, NEW st, NEW fs, NEW j, NEW h, NEW g, NEW t,
         ConnOK(tk, path, "collecting", st, fs, j, h, g, t),
         j.taken < Len(j.said), NEW k, k = Reading(j)
  PROVE  /\ j \in Jobs(tk, j) /\ fs = <<>> /\ st \in Codes /\ TokensOnly(j) /\ path \in Generation
         /\ k \in Jobs(tk, k) /\ k.refusal = j.refusal /\ k.taken <= Len(k.said)
         /\ j.said[j.taken + 1] \in Event(tk) /\ Toks(j) \in Seq(DOMAIN TokenBytes[tk])
         /\ Len(Toks(j)) = j.taken /\ j.taken \in Nat
         /\ Toks(k) \in Seq(DOMAIN TokenBytes[tk])
         /\ j.said[j.taken + 1].kind # "token" => Toks(k) = Toks(j)
         /\ j.said[j.taken + 1].kind = "token" => TokensOnly(k)
<1>1. /\ j \in Jobs(tk, j) /\ j.taken <= Len(j.said) /\ fs = <<>> /\ st \in Codes /\ TokensOnly(j)
      /\ path \in Generation
  BY DEF ConnOK, ConnType, Courses
<1>2. /\ k \in Jobs(tk, k) /\ k.refusal = j.refusal /\ k.taken <= Len(k.said)
      /\ j.said[j.taken + 1] \in Event(tk) /\ Toks(j) \in Seq(DOMAIN TokenBytes[tk])
      /\ Toks(k) = Toks(j) \o TokenIn(j.said[j.taken + 1])
      /\ j.said[j.taken + 1].kind = "token" => TokensOnly(k)
  BY <1>1, ReadOne
<1>3. Len(Toks(j)) = j.taken /\ j.taken \in Nat /\ Toks(k) \in Seq(DOMAIN TokenBytes[tk])
  BY <1>1, <1>2, TokensCounted, TokensTyped, JobType
<1>4. ASSUME j.said[j.taken + 1].kind # "token"
      PROVE  Toks(k) = Toks(j)
  <2>1. TokenIn(j.said[j.taken + 1]) = <<>>
    BY <1>4 DEF TokenIn
  <2>2. Toks(j) \o <<>> = Toks(j)
    BY <1>2, ConcatEmptySeq
  <2> QED
    BY <1>2, <2>1, <2>2
<1> QED
  BY <1>1, <1>2, <1>3, <1>4

LEMMA ConnCollectToken ==
  ASSUME NEW tk \in Tokenizers, NEW path, NEW st, NEW fs, NEW j, NEW h, NEW g, NEW t,
         ConnOK(tk, path, "collecting", st, fs, j, h, g, t),
         j.taken < Len(j.said), j.said[j.taken + 1].kind = "token", NEW k, k = Reading(j)
  PROVE  ConnOK(tk, path, "collecting", st, fs, k, h, g, t)
<1>1. /\ fs = <<>> /\ k \in Jobs(tk, k) /\ k.refusal = j.refusal /\ k.taken <= Len(k.said)
      /\ Toks(k) \in Seq(DOMAIN TokenBytes[tk]) /\ TokensOnly(k)
  BY CollectAt
<1>2. ~HeardAll(k)
  BY <1>1, MidStream
<1>3. IsPrefix(SentText(fs), Decode(tk, Toks(k)))
  <2>1. SentText(fs) = <<>>
    BY <1>1, NoFrames
  <2>2. Decode(tk, Toks(k)) \in Seq(TextBytes)
    BY <1>1, DecodeType
  <2> QED
    BY <2>1, <2>2, NothingIsPrefix
<1>4. TextTold(tk, fs, k) /\ EndTold(st, fs, k)
  BY <1>2, <1>3 DEF TextTold, EndTold
<1>5. ConnType(tk, "collecting", st, fs, k, h, t)
  BY <1>1 DEF ConnOK, ConnType
<1>6. Courses(path, "collecting", st, fs, k, h, g, t)
  BY <1>1 DEF ConnOK, Courses
<1>7. Refused(path, "collecting", st, k)
  BY <1>1 DEF ConnOK, Refused
<1>8. EndsLast(fs)
  BY DEF ConnOK
<1> QED
  BY <1>4, <1>5, <1>6, <1>7, <1>8 DEF ConnOK

\* The frame of a reply given at once.
Reply(tk, path, j) ==
  [Counted("reply", Reason(Protocol(path), j.said[j.taken + 1].reason), Len(Toks(j)))
     EXCEPT !.text = Decode(tk, Toks(j))]
Replied(tk, path, fs, j) == fs \o <<Reply(tk, path, j)>>

LEMMA ConnReplies ==
  ASSUME NEW tk \in Tokenizers, NEW path, NEW st, NEW fs, NEW j, NEW h, NEW g, NEW t,
         ConnOK(tk, path, "collecting", st, fs, j, h, g, t),
         j.taken < Len(j.said), j.said[j.taken + 1].kind = "done", NEW k, k = Reading(j),
         NEW fs1, fs1 = Replied(tk, path, fs, j), NEW st1, st1 \in Codes
  PROVE  ConnOK(tk, path, "over", st1, fs1, k, FALSE, g, t)
<1> DEFINE f == Reply(tk, path, j)
           reason == j.said[j.taken + 1].reason
           r == Reason(Protocol(path), reason)
           whole == Decode(tk, Toks(j))
<1>1. /\ j \in Jobs(tk, j) /\ fs = <<>>
      /\ k \in Jobs(tk, k) /\ k.refusal = j.refusal /\ k.taken <= Len(k.said)
      /\ j.said[j.taken + 1] \in Event(tk) /\ Toks(j) \in Seq(DOMAIN TokenBytes[tk])
      /\ Len(Toks(j)) = j.taken /\ j.taken \in Nat /\ Toks(k) = Toks(j)
  BY CollectAt
<1>2. /\ reason \in Ends /\ r \in Reasons \ {"none"} /\ (r \in Natural <=> reason = "Eos")
      /\ whole \in Seq(TextBytes)
  BY <1>1, EventCases, ProtocolIs, ReasonFacts, DecodeType
<1>3. /\ f \in FrameType /\ f.kind = "reply" /\ f.reason = r /\ f.n = j.taken /\ f.text = whole
  <2> DEFINE n == Len(Toks(j))
  <2>1. "reply" \in Kinds /\ r \in Reasons /\ n \in Nat /\ whole \in Seq(TextBytes)
    BY <1>1, <1>2 DEF Kinds, Endings
  <2>2. f = [Counted("reply", r, n) EXCEPT !.text = whole]
    BY DEF Reply
  <2> HIDE DEF r, whole, f, n
  <2>3. f = Of("reply", r, n, whole) /\ Of("reply", r, n, whole) \in FrameType
    BY <2>1, <2>2, FramesOf
  <2> QED
    BY <1>1, <2>3 DEF Of, n
<1> HIDE DEF f, r, whole, reason
<1>4. Ongoing(<<>>) /\ <<>> \in Seq(FrameType) /\ SentText(<<>>) = <<>>
  BY NoFrames DEF Ongoing
<1>5. fs1 = <<f>> /\ fs1 = Append(<<>>, f)
  <2>0. fs1 = Replied(tk, path, fs, j) /\ fs = <<>> /\ f = Reply(tk, path, j)
    BY <1>1 DEF f
  <2>1. fs1 = <<>> \o <<f>>
    BY ONLY <2>0 DEF Replied
  <2>2. <<f>> \in Seq(FrameType)
    BY <1>3
  <2>3. <<>> \o <<f>> = <<f>>
    BY <2>2, ConcatEmptySeq
  <2>4. Append(<<>>, f) = <<f>>
    BY <1>3
  <2> QED
    BY <2>1, <2>3, <2>4
<1>6. /\ fs1 \in Seq(FrameType) /\ SentText(fs1) = <<>> /\ EndsLast(fs1)
      /\ Last(fs1) = f /\ ReasonsIn(fs1) = {r}
  <2> DEFINE none == <<>>
  <2>1. /\ none \in Seq(FrameType) /\ Ongoing(none) /\ f \in FrameType /\ f.kind \in Endings
        /\ fs1 = Append(none, f) /\ SentText(none) = <<>>
    BY <1>3, <1>4, <1>5 DEF Endings
  <2> HIDE DEF none
  <2>2. /\ fs1 \in Seq(FrameType) /\ SentText(fs1) = SentText(none) /\ EndsLast(fs1)
        /\ Last(fs1) = f /\ ReasonsIn(fs1) = {f.reason} \ {"none"}
    BY ONLY <2>1, OneMore
  <2> QED
    BY <1>2, <1>3, <2>1, <2>2
<1>7. fs1 # <<>> /\ \A i \in DOMAIN fs1 : fs1[i].n \in {0, j.taken}
  <2>1. DOMAIN fs1 = {1} /\ fs1[1] = f /\ fs1 # <<>>
    <3>1. Len(fs1) = 1 /\ fs1[1] = f
      BY <1>5
    <3>2. DOMAIN fs1 = 1..Len(fs1)
      BY <1>6
    <3> QED
      BY ONLY <3>1, <3>2
  <2> QED
    BY <1>3, <2>1
<1>8. HeardAll(k) => /\ Last(k.said).kind = "done" /\ Last(k.said).reason = reason
                     /\ Len(TokensOf(k.said)) = j.taken
  BY <1>1, LastHeard DEF reason
<1>9. TextTold(tk, fs1, k)
  <2>1. IsPrefix(SentText(fs1), Decode(tk, Toks(k)))
    BY <1>1, <1>2, <1>6, NothingIsPrefix DEF whole
  <2> QED
    BY <1>1, <1>3, <1>6, <2>1 DEF TextTold, whole
<1>10. EndTold(st1, fs1, k)
  <2>1. \E x \in Reasons : ReasonsIn(fs1) = {x} /\ (reason = "Eos" <=> x \in Natural)
    BY <1>2, <1>6
  <2>2. Last(fs1).kind \in Endings \ {"error"}
    BY <1>3, <1>6 DEF Endings
  <2> QED
    BY <1>7, <1>8, <2>1, <2>2 DEF EndTold
<1> DEFINE ph == "collecting"
           ph1 == "over"
<1>11. /\ tk \in Tokenizers /\ ConnOK(tk, path, ph, st, fs, j, h, g, t)
       /\ ph \in {"streaming", "running", "collecting"}
       /\ ph1 = IF ph = "running" THEN "reading" ELSE "over"
       /\ (ph = "running" => st1 = st)
  OBVIOUS
<1>15. st1 \in Codes
  OBVIOUS
<1>12. fs1 \in Seq(FrameType) /\ EndsLast(fs1) /\ TextTold(tk, fs1, k) /\ EndTold(st1, fs1, k)
  BY <1>6, <1>9, <1>10
<1>13. k \in Jobs(tk, k) /\ k.refusal = j.refusal /\ k.taken <= Len(k.said)
  BY <1>1
<1> HIDE DEF ph, ph1
<1>14. ConnOK(tk, path, ph1, st1, fs1, k, FALSE, g, t)
  BY ONLY <1>11, <1>12, <1>13, <1>15, ConnCloses
<1> QED
  BY <1>14 DEF ph1

LEMMA ConnFails ==
  ASSUME NEW tk \in Tokenizers, NEW path, NEW st, NEW fs, NEW j, NEW h, NEW g, NEW t,
         ConnOK(tk, path, "collecting", st, fs, j, h, g, t),
         j.taken < Len(j.said), j.said[j.taken + 1].kind \in {"error", "silence"}, NEW k, k = Reading(j),
         NEW st1, st1 \in Codes \ {0, 200}, st1 >= 400
  PROVE  ConnOK(tk, path, "over", st1, fs, k, FALSE, g, t)
<1>1. /\ j \in Jobs(tk, j) /\ fs = <<>> /\ path \in Generation
      /\ k \in Jobs(tk, k) /\ k.refusal = j.refusal /\ k.taken <= Len(k.said)
      /\ Toks(k) \in Seq(DOMAIN TokenBytes[tk])
  BY CollectAt
<1>2. fs \in Seq(FrameType) /\ SentText(fs) = <<>> /\ EndsLast(fs)
  BY <1>1, NoFrames
<1>3. HeardAll(k) => Last(k.said).kind # "done"
  BY <1>1, LastHeard
<1>4. TextTold(tk, fs, k)
  <2>1. Decode(tk, Toks(k)) \in Seq(TextBytes)
    BY <1>1, DecodeType
  <2> QED
    BY <1>2, <1>3, <2>1, NothingIsPrefix DEF TextTold
<1>5. EndTold(st1, fs, k)
  <2>1. DOMAIN fs = {}
    BY <1>1
  <2>2. ReasonsIn(fs) = {}
    BY <2>1 DEF ReasonsIn
  <2> QED
    BY <1>3, <2>2 DEF EndTold
<1> DEFINE ph == "collecting"
           ph1 == "over"
           code == st1
<1>6. /\ tk \in Tokenizers /\ ConnOK(tk, path, ph, st, fs, j, h, g, t)
      /\ ph \in {"streaming", "running", "collecting"}
      /\ ph1 = IF ph = "running" THEN "reading" ELSE "over"
      /\ code \in Codes /\ (ph = "running" => code = st)
  OBVIOUS
<1>7. /\ fs \in Seq(FrameType) /\ EndsLast(fs) /\ TextTold(tk, fs, k) /\ EndTold(code, fs, k)
      /\ k \in Jobs(tk, k) /\ k.refusal = j.refusal /\ k.taken <= Len(k.said)
  BY <1>1, <1>2, <1>4, <1>5
<1> HIDE DEF ph, ph1, code
<1>8. ConnOK(tk, path, ph1, code, fs, k, FALSE, g, t)
  BY ONLY <1>6, <1>7, ConnCloses
<1> QED
  BY <1>8 DEF ph1, code

-----------------------------------------------------------------------------
(* Clients that leave, the socket, embeddings.                             *)

LEMMA ConnGone ==
  ASSUME NEW tk, NEW path, NEW ph, NEW st, NEW fs, NEW j, NEW h, NEW g, NEW t,
         ConnOK(tk, path, ph, st, fs, j, h, g, t)
  PROVE  ConnOK(tk, path, ph, st, fs, j, h, TRUE, t)
BY DEF ConnOK, Courses

LEMMA ConnLeaves ==
  ASSUME NEW tk, NEW path, NEW ph, NEW st, NEW fs, NEW j, NEW h, NEW g, NEW t,
         ConnOK(tk, path, ph, st, fs, j, h, g, t), g, ph \in Listening
  PROVE  ConnOK(tk, path, "over", st, fs, j, FALSE, g, t)
<1>1. ConnType(tk, "over", st, fs, j, FALSE, t)
  BY DEF ConnOK, ConnType
<1>2. Courses(path, "over", st, fs, j, FALSE, g, t)
  BY DEF Courses
<1>3. Refused(path, "over", st, j)
  BY DEF ConnOK, Refused, Listening
<1>4. TextTold(tk, fs, j) /\ EndTold(st, fs, j) /\ EndsLast(fs)
  BY DEF ConnOK
<1> QED
  BY <1>1, <1>2, <1>3, <1>4 DEF ConnOK

LEMMA ConnUpgrade ==
  ASSUME NEW tk, NEW path, NEW st, NEW fs, NEW j, NEW h, NEW g, NEW t,
         ConnOK(tk, path, "arrived", st, fs, j, h, g, t), path = "/v1/ws"
  PROVE  ConnOK(tk, path, "reading", st, fs, j, h, g, t)
<1>1. ConnType(tk, "reading", st, fs, j, h, t)
  BY DEF ConnOK, ConnType, Listening
<1>2. Courses(path, "reading", st, fs, j, h, g, t)
  BY DEF ConnOK, Courses
<1>3. Refused(path, "reading", st, j)
  BY DEF Refused, Generation, ChatPaths, TextPaths
<1>4. TextTold(tk, fs, j) /\ EndTold(st, fs, j) /\ EndsLast(fs)
  BY DEF ConnOK
<1> QED
  BY <1>1, <1>2, <1>3, <1>4 DEF ConnOK

\* A message that starts nothing is answered at once, or not at all.
LEMMA ConnIdle ==
  ASSUME NEW tk \in Tokenizers, NEW path, NEW st, NEW fs, NEW j, NEW h, NEW g, NEW t,
         ConnOK(tk, path, "reading", st, fs, j, h, g, t), NEW k, Fresh(tk, k),
         NEW fs1, fs1 = <<>> \/ fs1 = <<Frame("error")>>
  PROVE  ConnOK(tk, path, "reading", st, fs1, k, h, g, t)
<1>1. k \in Jobs(tk, k)
  BY DEF Fresh
<1>2. fs1 \in Seq(FrameType) /\ SentText(fs1) = <<>> /\ EndsLast(fs1)
  <2>1. CASE fs1 = <<>>
    BY <2>1, NoFrames
  <2>2. CASE fs1 = <<Frame("error")>>
    <3> DEFINE f == Frame("error")
    <3>1. f \in FrameType /\ f.kind = "error"
      BY ErrorFrame
    <3>2. fs1 = <<f>>
      BY <2>2
    <3> HIDE DEF f
    <3>3. fs1 \in Seq(FrameType) /\ Len(fs1) = 1 /\ fs1[1] = f
      BY <3>1, <3>2
    <3>4. \A i \in 1..Len(fs1) : fs1[i].kind # "text"
      BY <3>1, <3>3
    <3>5. EndsLast(fs1)
      BY <3>3 DEF EndsLast
    <3>6. SentText(fs1) = <<>>
      BY <3>3, <3>4, SentNothing
    <3> QED
      BY <3>3, <3>5, <3>6
  <2> QED
    BY <2>1, <2>2
<1>3. TextTold(tk, fs1, k) /\ EndTold(st, fs1, k) /\ k.taken <= Len(k.said)
  BY <1>2, FreshTells
<1>4. ConnType(tk, "reading", st, fs1, k, h, t)
  BY <1>1, <1>2, <1>3 DEF ConnOK, ConnType
<1>5. Courses(path, "reading", st, fs1, k, h, g, t)
  BY DEF ConnOK, Courses
<1>6. Refused(path, "reading", st, k)
  BY DEF ConnOK, Courses, Refused, Generation, ChatPaths, TextPaths
<1> QED
  BY <1>2, <1>3, <1>4, <1>5, <1>6 DEF ConnOK

LEMMA ConnRuns ==
  ASSUME NEW tk \in Tokenizers, NEW path, NEW st, NEW fs, NEW j, NEW h, NEW g, NEW t,
         ConnOK(tk, path, "reading", st, fs, j, h, g, t), NEW k, Fresh(tk, k)
  PROVE  ConnOK(tk, path, "running", st, <<>>, k, TRUE, g, t)
<1> DEFINE fs1 == <<>>
<1>1. k \in Jobs(tk, k)
  BY DEF Fresh
<1>2. fs1 \in Seq(FrameType) /\ SentText(fs1) = <<>> /\ EndsLast(fs1) /\ Len(fs1) = 0
  BY NoFrames
<1> HIDE DEF fs1
<1>3. /\ TextTold(tk, fs1, k) /\ EndTold(st, fs1, k) /\ k.taken <= Len(k.said) /\ TokensOnly(k)
      /\ ToldSoFar(tk, BytesOf(tk, Toks(k)), k.decoder, SentText(fs1))
  BY <1>2, FreshTells
<1>4. Flowing(tk, fs1, k)
  BY <1>2, <1>3 DEF Flowing
<1>5. ConnType(tk, "running", st, fs1, k, TRUE, t)
  BY <1>1, <1>2, <1>3 DEF ConnOK, ConnType, Listening
<1>6. path = "/v1/ws" /\ st = 0 /\ (t.left > 0 /\ t.end = "none" => g)
  BY DEF ConnOK, Courses
<1>7. Courses(path, "running", st, fs1, k, TRUE, g, t)
  BY <1>3, <1>6 DEF Courses
<1>8. Refused(path, "running", st, k)
  BY <1>6 DEF Refused, Generation, ChatPaths, TextPaths
<1>9. ConnOK(tk, path, "running", st, fs1, k, TRUE, g, t)
  BY <1>2, <1>3, <1>4, <1>5, <1>7, <1>8 DEF ConnOK
<1> QED
  BY <1>9 DEF fs1

LEMMA ConnEmbeds ==
  ASSUME NEW tk, NEW path, NEW st, NEW fs, NEW j, NEW h, NEW g, NEW t,
         ConnOK(tk, path, "arrived", st, fs, j, h, g, t), path = "/v1/embeddings", NEW u \in Tasks
  PROVE  ConnOK(tk, path, "embedding", st, fs, j, h, g, u)
<1>1. ConnType(tk, "embedding", st, fs, j, h, u)
  BY DEF ConnOK, ConnType, Listening
<1>2. Courses(path, "embedding", st, fs, j, h, g, u)
  BY DEF ConnOK, Courses
<1>3. Refused(path, "embedding", st, j)
  BY DEF Refused, Generation, ChatPaths, TextPaths
<1>4. TextTold(tk, fs, j) /\ EndTold(st, fs, j) /\ EndsLast(fs)
  BY DEF ConnOK
<1> QED
  BY <1>1, <1>2, <1>3, <1>4 DEF ConnOK

LEMMA ConnWorks ==
  ASSUME NEW tk, NEW path, NEW ph, NEW st, NEW fs, NEW j, NEW h, NEW g, NEW t,
         ConnOK(tk, path, ph, st, fs, j, h, g, t), t.left > 0, t.end = "none", NEW u \in Tasks
  PROVE  ConnOK(tk, path, ph, st, fs, j, h, g, u)
<1>1. ConnType(tk, ph, st, fs, j, h, u)
  BY DEF ConnOK, ConnType
<1>2. Courses(path, ph, st, fs, j, h, g, u)
  BY DEF ConnOK, Courses
<1> QED
  BY <1>1, <1>2 DEF ConnOK

LEMMA ConnEmbedded ==
  ASSUME NEW tk, NEW path, NEW st, NEW fs, NEW j, NEW h, NEW g, NEW t,
         ConnOK(tk, path, "embedding", st, fs, j, h, g, t), t.end # "none", NEW st1, st1 \in Codes
  PROVE  fs = <<>> /\ ConnOK(tk, path, "over", st1, fs, j, h, g, t)
<1>1. fs = <<>> /\ j.said = <<>> /\ h = FALSE
  BY DEF ConnOK, ConnType, Courses
<1>2. path \in Generation => j.refusal = "none"
  BY DEF ConnOK, Refused
<1>3. ConnType(tk, "over", st1, fs, j, h, t)
  BY DEF ConnOK, ConnType
<1>4. Courses(path, "over", st1, fs, j, h, g, t)
  BY <1>1 DEF Courses
<1>5. Refused(path, "over", st1, j)
  BY <1>2 DEF Refused
<1>6. EndTold(st1, fs, j)
  BY <1>1 DEF EndTold, HeardAll
<1>7. TextTold(tk, fs, j) /\ EndsLast(fs)
  BY DEF ConnOK
<1> QED
  BY <1>1, <1>3, <1>4, <1>5, <1>6, <1>7 DEF ConnOK

-----------------------------------------------------------------------------
(* The steps.                                                              *)

\* Nothing but one connection changes, and it keeps its place in every table.
Elsewhere(c) ==
  /\ server' = server /\ ask' = ask
  /\ DOMAIN phase' = Conns /\ DOMAIN status' = Conns /\ DOMAIN frames' = Conns /\ DOMAIN job' = Conns
  /\ DOMAIN held' = Conns /\ DOMAIN gone' = Conns /\ DOMAIN task' = Conns
  /\ \A d \in Conns \ {c} :
       /\ phase'[d] = phase[d] /\ status'[d] = status[d] /\ frames'[d] = frames[d] /\ job'[d] = job[d]
       /\ held'[d] = held[d] /\ gone'[d] = gone[d] /\ task'[d] = task[d]

LEMMA SetUp ==
  ASSUME IInv
  PROVE  server.tk \in Tokenizers /\ DOMAIN ask = Conns
BY FrontendsAssumption DEF IInv

LEMMA EmbeddersFinite ==
  /\ IsFiniteSet(Embedders) /\ Cardinality(Embedders) \in Nat
  /\ IsFiniteSet(Embedders') /\ Cardinality(Embedders') \in Nat
<1>1. IsFiniteSet(Conns) /\ Embedders \in SUBSET Conns /\ Embedders' \in SUBSET Conns
  BY FrontendsAssumption DEF Embedders
<1>2. IsFiniteSet(Embedders) /\ IsFiniteSet(Embedders')
  BY <1>1, FS_Subset
<1> QED
  BY <1>2, FS_CardinalityType

LEMMA Step ==
  ASSUME IInv, NEW c \in Conns, Elsewhere(c), OK(c)',
         permits' \in Nat, permits' + Cardinality(Embedders') = EmbeddingSlots
  PROVE  IInv'
<1>1. ASSUME NEW d \in Conns
      PROVE  OK(d)'
  <2>1. CASE d = c
    BY <2>1
  <2>2. CASE d # c
    <3>1. OK(d)
      BY DEF IInv
    <3>2. /\ server' = server /\ ask' = ask
          /\ phase'[d] = phase[d] /\ status'[d] = status[d] /\ frames'[d] = frames[d] /\ job'[d] = job[d]
          /\ held'[d] = held[d] /\ gone'[d] = gone[d] /\ task'[d] = task[d]
      BY <2>2 DEF Elsewhere
    <3> QED
      BY <3>1, <3>2 DEF OK
  <2> QED
    BY <2>1, <2>2
<1>2. \E s \in Scenarios : server' = s.server /\ ask' = s.ask
  BY DEF IInv, Elsewhere
<1>3. /\ DOMAIN phase' = Conns /\ DOMAIN status' = Conns /\ DOMAIN frames' = Conns /\ DOMAIN job' = Conns
      /\ DOMAIN held' = Conns /\ DOMAIN gone' = Conns /\ DOMAIN task' = Conns
  BY DEF Elsewhere
<1> QED
  BY <1>1, <1>2, <1>3 DEF IInv

LEMMA SlotKept ==
  ASSUME IInv, NEW c \in Conns, Elsewhere(c), permits' = permits,
         phase'[c] = "embedding" <=> phase[c] = "embedding"
  PROVE  permits' \in Nat /\ permits' + Cardinality(Embedders') = EmbeddingSlots
<1>1. Embedders' = Embedders
  BY DEF Embedders, Elsewhere
<1> QED
  BY <1>1 DEF IInv

LEMMA SlotTaken ==
  ASSUME IInv, NEW c \in Conns, Elsewhere(c), permits > 0, permits' = permits - 1,
         phase'[c] = "embedding", phase[c] # "embedding"
  PROVE  permits' \in Nat /\ permits' + Cardinality(Embedders') = EmbeddingSlots
<1>1. Embedders' = Embedders \cup {c} /\ c \notin Embedders
  BY DEF Embedders, Elsewhere
<1>2. Cardinality(Embedders') = Cardinality(Embedders) + 1
  BY <1>1, EmbeddersFinite, FS_AddElement
<1>3. permits \in Nat /\ permits + Cardinality(Embedders) = EmbeddingSlots
  BY DEF IInv
<1> QED
  BY <1>2, <1>3, EmbeddersFinite

LEMMA SlotFreed ==
  ASSUME IInv, NEW c \in Conns, Elsewhere(c), permits' = permits + 1,
         phase'[c] # "embedding", phase[c] = "embedding"
  PROVE  permits' \in Nat /\ permits' + Cardinality(Embedders') = EmbeddingSlots
<1>1. Embedders' = Embedders \ {c} /\ c \in Embedders
  BY DEF Embedders, Elsewhere
<1>2. Cardinality(Embedders') = Cardinality(Embedders) - 1
  BY <1>1, EmbeddersFinite, FS_RemoveElement
<1>3. permits \in Nat /\ permits + Cardinality(Embedders) = EmbeddingSlots
  BY DEF IInv
<1> QED
  BY <1>2, <1>3, EmbeddersFinite

LEMMA SayStep ==
  ASSUME IInv, NEW c \in Conns, Scheduled(c)
  PROVE  IInv'
<1>1. PICK e \in Event(server.tk) : Say(c, e)
  <2>1. CASE SayToken(c)
    <3>1. PICK t \in DOMAIN TokenBytes[server.tk] : Say(c, [kind |-> "token", token |-> t])
      BY <2>1 DEF SayToken
    <3>2. [kind |-> "token", token |-> t] \in Event(server.tk)
      BY DEF Event
    <3> QED
      BY <3>1, <3>2
  <2>2. CASE SayDone(c)
    <3>1. PICK r \in Ends : Say(c, [kind |-> "done", reason |-> r])
      BY <2>2 DEF SayDone, Ends
    <3>2. [kind |-> "done", reason |-> r] \in Event(server.tk)
      BY DEF Event
    <3> QED
      BY <3>1, <3>2
  <2>3. CASE SayError(c)
    <3>1. PICK r \in {"Timeout", "Inference"} : Say(c, [kind |-> "error", error |-> r])
      BY <2>3 DEF SayError
    <3>2. [kind |-> "error", error |-> r] \in Event(server.tk)
      BY DEF Event
    <3> QED
      BY <3>1, <3>2
  <2>4. CASE FallSilent(c)
    <3>1. Say(c, [kind |-> "silence"])
      BY <2>4 DEF FallSilent
    <3>2. [kind |-> "silence"] \in Event(server.tk)
      BY DEF Event
    <3> QED
      BY <3>1, <3>2
  <2> QED
    BY <2>1, <2>2, <2>3, <2>4 DEF Scheduled
<1>2. OK(c) /\ server.tk \in Tokenizers
  BY SetUp DEF IInv
<1>3. held[c] = TRUE
  BY <1>1, <1>2 DEF Say, OK, ConnOK, ConnType
<1>4. job'[c] = Saying(job[c], e)
  BY <1>1 DEF Say, Saying, IInv
<1>5. Elsewhere(c)
  BY <1>1 DEF Say, Elsewhere, IInv
<1>6. /\ server' = server /\ ask' = ask /\ phase' = phase /\ status' = status /\ frames' = frames
      /\ held' = held /\ gone' = gone /\ task' = task /\ permits' = permits
  BY <1>1 DEF Say
<1>7. OK(c)'
  <2>1. ConnOK(server.tk, ask[c].path, phase[c], status[c], frames[c], job[c], TRUE, gone[c], task[c])
    BY <1>2, <1>3 DEF OK
  <2>2. ConnOK(server.tk, ask[c].path, phase[c], status[c], frames[c], job'[c], TRUE, gone[c], task[c])
    BY <1>2, <1>4, <2>1, ConnSay
  <2> QED
    BY <1>3, <1>6, <2>2 DEF OK
<1>8. permits' \in Nat /\ permits' + Cardinality(Embedders') = EmbeddingSlots
  BY <1>5, <1>6, SlotKept
<1> QED
  BY <1>5, <1>7, <1>8, Step

LEMMA TakenIs ==
  ASSUME IInv, NEW c \in Conns
  PROVE  /\ DOMAIN Taken(c) = Conns /\ Taken(c)[c] = Reading(job[c])
         /\ \A d \in Conns \ {c} : Taken(c)[d] = job[d]
BY DEF Taken, Reading, IInv

LEMMA StreamTokenStep ==
  ASSUME IInv, NEW c \in Conns, StreamToken(c)
  PROVE  IInv'
<1>1. PICK d \in {Push(server.tk, job[c].decoder, Heard(c).token)} :
        /\ job' = [Taken(c) EXCEPT ![c].decoder = d]
        /\ frames' = [frames EXCEPT ![c] = @ \o TextFrames(d.text)]
  BY DEF StreamToken
<1>2. /\ phase[c] \in {"streaming", "running"} /\ job[c].taken < Len(job[c].said)
      /\ job[c].said[job[c].taken + 1].kind = "token"
  BY DEF StreamToken, Said
<1>3. /\ server' = server /\ ask' = ask /\ phase' = phase /\ status' = status
      /\ held' = held /\ gone' = gone /\ task' = task /\ permits' = permits
  BY DEF StreamToken
<1>4. OK(c) /\ server.tk \in Tokenizers
  BY SetUp DEF IInv
<1>5. d = Push(server.tk, job[c].decoder, job[c].said[job[c].taken + 1].token)
  BY DEF Heard
<1>6. frames'[c] = frames[c] \o TextFrames(d.text) /\ DOMAIN frames' = Conns
      /\ \A x \in Conns \ {c} : frames'[x] = frames[x]
  BY <1>1 DEF IInv
<1>7. job'[c] = Pushed(job[c], d) /\ DOMAIN job' = Conns /\ \A x \in Conns \ {c} : job'[x] = job[x]
  BY <1>1, TakenIs DEF Pushed
<1>8. Elsewhere(c)
  BY <1>3, <1>6, <1>7 DEF Elsewhere, IInv
<1>9. OK(c)'
  <2>1. ConnOK(server.tk, ask[c].path, phase[c], status[c], frames[c], job[c], held[c], gone[c], task[c])
    BY <1>4 DEF OK
  <2>2. ConnOK(server.tk, ask[c].path, phase[c], status[c], frames[c] \o TextFrames(d.text), job'[c],
               held[c], gone[c], task[c])
    BY <1>2, <1>4, <1>5, <1>7, <2>1, ConnToken
  <2> QED
    BY <1>3, <1>6, <2>2 DEF OK
<1>10. permits' \in Nat /\ permits' + Cardinality(Embedders') = EmbeddingSlots
  BY <1>3, <1>8, SlotKept
<1> QED
  BY <1>8, <1>9, <1>10, Step

\* What ending a stream has in common.
LEMMA FinishedStep ==
  ASSUME IInv, NEW c \in Conns, Finished(c), status' = status, job' = Taken(c),
         phase[c] \in {"streaming", "running"}, NEW fs1, frames' = [frames EXCEPT ![c] = fs1],
         \A ph1 : ph1 = (IF phase[c] = "running" THEN "reading" ELSE "over") =>
           ConnOK(server.tk, ask[c].path, ph1, status[c], fs1, Reading(job[c]), FALSE, gone[c], task[c])
  PROVE  IInv'
<1> DEFINE ph1 == IF phase[c] = "running" THEN "reading" ELSE "over"
<1>1. /\ server' = server /\ ask' = ask /\ gone' = gone /\ task' = task /\ permits' = permits
      /\ phase' = [phase EXCEPT ![c] = ph1] /\ held' = [held EXCEPT ![c] = FALSE]
  BY DEF Finished
<1>2. ph1 # "embedding" /\ phase[c] # "embedding"
  OBVIOUS
<1>3. ConnOK(server.tk, ask[c].path, ph1, status[c], fs1, Reading(job[c]), FALSE, gone[c], task[c])
  OBVIOUS
<1> HIDE DEF ph1
<1>4. phase'[c] = ph1 /\ held'[c] = FALSE /\ frames'[c] = fs1
  BY <1>1 DEF IInv
<1>5. job'[c] = Reading(job[c]) /\ DOMAIN job' = Conns /\ \A x \in Conns \ {c} : job'[x] = job[x]
  BY TakenIs
<1>6. /\ DOMAIN phase' = Conns /\ DOMAIN held' = Conns /\ DOMAIN frames' = Conns
      /\ \A x \in Conns \ {c} : phase'[x] = phase[x] /\ held'[x] = held[x] /\ frames'[x] = frames[x]
  BY <1>1 DEF IInv
<1>7. Elsewhere(c)
  BY <1>1, <1>5, <1>6 DEF Elsewhere, IInv
<1>8. OK(c)'
  BY <1>1, <1>3, <1>4, <1>5 DEF OK
<1>9. permits' \in Nat /\ permits' + Cardinality(Embedders') = EmbeddingSlots
  BY <1>1, <1>2, <1>4, <1>7, SlotKept
<1> QED
  BY <1>7, <1>8, <1>9, Step

LEMMA StreamDoneStep ==
  ASSUME IInv, NEW c \in Conns, StreamDone(c)
  PROVE  IInv'
<1> DEFINE fs1 == DoneFrames(ask[c].path, frames[c], job[c])
<1>1. /\ phase[c] \in {"streaming", "running"} /\ job[c].taken < Len(job[c].said)
      /\ job[c].said[job[c].taken + 1].kind = "done"
  BY DEF StreamDone, Said
<1>2. frames' = [frames EXCEPT ![c] = fs1] /\ job' = Taken(c) /\ Finished(c) /\ status' = status
  BY DEF StreamDone, DoneFrames, SentAll, Heard
<1>3. OK(c) /\ server.tk \in Tokenizers
  BY SetUp DEF IInv
<1>4. ConnOK(server.tk, ask[c].path, phase[c], status[c], frames[c], job[c], held[c], gone[c], task[c])
  BY <1>3 DEF OK
<1>5. ASSUME NEW ph1, ph1 = IF phase[c] = "running" THEN "reading" ELSE "over"
      PROVE  ConnOK(server.tk, ask[c].path, ph1, status[c], fs1, Reading(job[c]), FALSE, gone[c], task[c])
  <2>1. fs1 = DoneFrames(ask[c].path, frames[c], job[c])
    OBVIOUS
  <2> HIDE DEF fs1
  <2> QED
    BY <1>1, <1>3, <1>4, <1>5, <2>1, ConnDone
<1> HIDE DEF fs1
<1> QED
  BY <1>1, <1>2, <1>5, FinishedStep

LEMMA StreamErrorStep ==
  ASSUME IInv, NEW c \in Conns, StreamError(c)
  PROVE  IInv'
<1> DEFINE fs1 == Append(frames[c], Frame("error"))
<1>1. /\ phase[c] \in {"streaming", "running"} /\ job[c].taken < Len(job[c].said)
      /\ job[c].said[job[c].taken + 1].kind = "error"
  BY DEF StreamError, Said
<1>2. frames' = [frames EXCEPT ![c] = fs1] /\ job' = Taken(c) /\ Finished(c) /\ status' = status
  BY DEF StreamError
<1>3. OK(c) /\ server.tk \in Tokenizers
  BY SetUp DEF IInv
<1>4. ConnOK(server.tk, ask[c].path, phase[c], status[c], frames[c], job[c], held[c], gone[c], task[c])
  BY <1>3 DEF OK
<1>5. ASSUME NEW ph1, ph1 = IF phase[c] = "running" THEN "reading" ELSE "over"
      PROVE  ConnOK(server.tk, ask[c].path, ph1, status[c], fs1, Reading(job[c]), FALSE, gone[c], task[c])
  <2>1. fs1 = Append(frames[c], Frame("error"))
    OBVIOUS
  <2> HIDE DEF fs1
  <2> QED
    BY <1>1, <1>3, <1>4, <1>5, <2>1, ConnError
<1> HIDE DEF fs1
<1> QED
  BY <1>1, <1>2, <1>5, FinishedStep

LEMMA StreamSilenceStep ==
  ASSUME IInv, NEW c \in Conns, StreamSilence(c)
  PROVE  IInv'
<1> DEFINE fs1 == frames[c] \o EndFrames(Protocol(ask[c].path), "None", 0, <<>>)
<1>1. /\ phase[c] \in {"streaming", "running"} /\ job[c].taken < Len(job[c].said)
      /\ job[c].said[job[c].taken + 1].kind = "silence"
  BY DEF StreamSilence, Said
<1>2. frames' = [frames EXCEPT ![c] = fs1] /\ job' = Taken(c) /\ Finished(c) /\ status' = status
  BY DEF StreamSilence
<1>3. OK(c) /\ server.tk \in Tokenizers
  BY SetUp DEF IInv
<1>4. ConnOK(server.tk, ask[c].path, phase[c], status[c], frames[c], job[c], held[c], gone[c], task[c])
  BY <1>3 DEF OK
<1>5. ASSUME NEW ph1, ph1 = IF phase[c] = "running" THEN "reading" ELSE "over"
      PROVE  ConnOK(server.tk, ask[c].path, ph1, status[c], fs1, Reading(job[c]), FALSE, gone[c], task[c])
  <2>1. fs1 = frames[c] \o EndFrames(Protocol(ask[c].path), "None", 0, <<>>)
    OBVIOUS
  <2> HIDE DEF fs1
  <2> QED
    BY <1>1, <1>3, <1>4, <1>5, <2>1, ConnSilence
<1> HIDE DEF fs1
<1> QED
  BY <1>1, <1>2, <1>5, FinishedStep

LEMMA CollectTokenStep ==
  ASSUME IInv, NEW c \in Conns, CollectToken(c)
  PROVE  IInv'
<1>1. /\ phase[c] = "collecting" /\ job[c].taken < Len(job[c].said)
      /\ job[c].said[job[c].taken + 1].kind = "token"
  BY DEF CollectToken, Said
<1>2. /\ server' = server /\ ask' = ask /\ phase' = phase /\ status' = status /\ frames' = frames
      /\ held' = held /\ gone' = gone /\ task' = task /\ permits' = permits /\ job' = Taken(c)
  BY DEF CollectToken
<1>3. OK(c) /\ server.tk \in Tokenizers
  BY SetUp DEF IInv
<1>4. job'[c] = Reading(job[c]) /\ DOMAIN job' = Conns /\ \A x \in Conns \ {c} : job'[x] = job[x]
  BY <1>2, TakenIs
<1>5. Elsewhere(c)
  BY <1>2, <1>4 DEF Elsewhere, IInv
<1>6. OK(c)'
  <2>1. ConnOK(server.tk, ask[c].path, "collecting", status[c], frames[c], job[c], held[c], gone[c], task[c])
    BY <1>1, <1>3 DEF OK
  <2>2. ConnOK(server.tk, ask[c].path, "collecting", status[c], frames[c], Reading(job[c]),
               held[c], gone[c], task[c])
    BY <1>1, <1>3, <2>1, ConnCollectToken
  <2> QED
    BY <1>1, <1>2, <1>4, <2>2 DEF OK
<1>7. permits' \in Nat /\ permits' + Cardinality(Embedders') = EmbeddingSlots
  BY <1>2, <1>5, SlotKept
<1> QED
  BY <1>5, <1>6, <1>7, Step

LEMMA AnswerIs ==
  ASSUME IInv, NEW c \in Conns, NEW code, NEW fs, Answer(c, code, fs)
  PROVE  /\ status'[c] = code /\ frames'[c] = frames[c] \o fs /\ phase'[c] = "over"
         /\ DOMAIN status' = Conns /\ DOMAIN frames' = Conns /\ DOMAIN phase' = Conns
         /\ \A x \in Conns \ {c} :
              status'[x] = status[x] /\ frames'[x] = frames[x] /\ phase'[x] = phase[x]
BY DEF Answer, IInv

LEMMA NoneAdded ==
  ASSUME NEW fs, fs = <<>>
  PROVE  fs \o <<>> = fs
OBVIOUS

\* Only what Answer is about changes, and the request of the connection.
Aside(c) ==
  /\ server' = server /\ ask' = ask /\ gone' = gone /\ task' = task /\ permits' = permits
  /\ DOMAIN job' = Conns /\ DOMAIN held' = Conns
  /\ \A x \in Conns \ {c} : job'[x] = job[x] /\ held'[x] = held[x]

\* An answer is a step of the invariant if the connection it leaves is well.
LEMMA Answering ==
  ASSUME IInv, NEW c \in Conns, phase[c] # "embedding", NEW code, NEW fs, Answer(c, code, fs), Aside(c),
         NEW fs1, fs1 = frames[c] \o fs, NEW k, k = job'[c], NEW h, h = held'[c],
         ConnOK(server.tk, ask[c].path, "over", code, fs1, k, h, gone[c], task[c])
  PROVE  IInv'
<1>1. /\ status'[c] = code /\ frames'[c] = fs1 /\ phase'[c] = "over"
      /\ DOMAIN status' = Conns /\ DOMAIN frames' = Conns /\ DOMAIN phase' = Conns
      /\ \A x \in Conns \ {c} :
           status'[x] = status[x] /\ frames'[x] = frames[x] /\ phase'[x] = phase[x]
  BY AnswerIs
<1>2. Elsewhere(c)
  BY <1>1 DEF Elsewhere, Aside, IInv
<1>3. OK(c)'
  <2>1. /\ server' = server /\ ask' = ask /\ gone' = gone /\ task' = task
        /\ phase'[c] = "over" /\ status'[c] = code /\ frames'[c] = fs1 /\ job'[c] = k /\ held'[c] = h
    BY <1>1 DEF Aside
  <2> QED
    BY <2>1 DEF OK
<1>4. permits' \in Nat /\ permits' + Cardinality(Embedders') = EmbeddingSlots
  BY <1>1, <1>2, SlotKept DEF Aside
<1> QED
  BY <1>2, <1>3, <1>4, Step

LEMMA CollectEndStep ==
  ASSUME IInv, NEW c \in Conns, CollectEnd(c)
  PROVE  IInv'
<1> DEFINE proto == Protocol(ask[c].path)
           f == Reply(server.tk, ask[c].path, job[c])
           k == job'[c]
<1>1. /\ server' = server /\ ask' = ask /\ gone' = gone /\ task' = task /\ permits' = permits
      /\ job' = Taken(c) /\ held' = [held EXCEPT ![c] = FALSE] /\ phase[c] = "collecting"
  BY DEF CollectEnd
<1>2. \/ Said(c, "done") /\ Answer(c, 200, <<f>>)
      \/ Said(c, "error") /\ Answer(c, Status(proto, Heard(c).error), <<>>)
      \/ Said(c, "silence") /\ Answer(c, Status(proto, "Scheduler"), <<>>)
  BY DEF CollectEnd, Reply, Toks, Heard
<1>3. OK(c) /\ server.tk \in Tokenizers
  BY SetUp DEF IInv
<1>4. ConnOK(server.tk, ask[c].path, "collecting", status[c], frames[c], job[c], held[c], gone[c], task[c])
  BY <1>1, <1>3 DEF OK
<1>5. k = Reading(job[c]) /\ DOMAIN job' = Conns /\ \A x \in Conns \ {c} : job'[x] = job[x]
  BY <1>1, TakenIs
<1>6. held'[c] = FALSE /\ DOMAIN held' = Conns /\ \A x \in Conns \ {c} : held'[x] = held[x]
  BY <1>1 DEF IInv
<1>7. Aside(c)
  BY <1>1, <1>5, <1>6 DEF Aside
<1>8. k = job'[c]
  OBVIOUS
<1> HIDE DEF f, proto, k
<1>9. CASE Said(c, "done") /\ Answer(c, 200, <<f>>)
  <2>1. job[c].taken < Len(job[c].said) /\ job[c].said[job[c].taken + 1].kind = "done"
    BY <1>9 DEF Said
  <2> DEFINE fs1 == frames[c] \o <<f>>
             fs == <<f>>
  <2>2. /\ fs1 = Replied(server.tk, ask[c].path, frames[c], job[c])
        /\ fs1 = frames[c] \o fs /\ Answer(c, 200, fs)
    BY <1>9 DEF f, Replied
  <2> HIDE DEF fs1, fs
  <2> DEFINE code == 200
  <2>6. code \in Codes
    BY DEF Codes
  <2> HIDE DEF code
  <2>3. ConnOK(server.tk, ask[c].path, "over", code, fs1, k, FALSE, gone[c], task[c])
    <3>1. fs1 = Replied(server.tk, ask[c].path, frames[c], job[c]) /\ k = Reading(job[c])
      BY <1>5, <2>2
    <3>2. server.tk \in Tokenizers
      BY <1>3
    <3> QED
      BY ONLY <1>4, <2>1, <2>6, <3>1, <3>2, ConnReplies
  <2> DEFINE h == FALSE
  <2>4. /\ ConnOK(server.tk, ask[c].path, "over", code, fs1, k, h, gone[c], task[c])
        /\ Answer(c, code, fs) /\ h = held'[c] /\ phase[c] # "embedding"
    BY <1>1, <1>6, <2>2, <2>3 DEF code
  <2>5. fs1 = frames[c] \o fs
    BY <2>2
  <2> HIDE DEF h
  <2> QED
    BY <1>7, <1>8, <2>4, <2>5, Answering
<1>10. ASSUME NEW e \in {"Timeout", "Inference", "Scheduler"}, Answer(c, Status(proto, e), <<>>),
              Said(c, "error") \/ Said(c, "silence")
       PROVE  IInv'
  <2> DEFINE code == Status(proto, e)
             fs == <<>>
             h == FALSE
  <2>1. /\ job[c].taken < Len(job[c].said)
        /\ job[c].said[job[c].taken + 1].kind \in {"error", "silence"}
    BY <1>10 DEF Said
  <2>2. ask[c].path \in Generation /\ frames[c] = <<>>
    BY <1>3, <1>4, <1>5, <2>1, CollectAt
  <2>3. code \in Codes \ {0, 200} /\ code >= 400
    BY <2>2, <1>10, StatusFacts DEF proto
  <2>4. Answer(c, code, fs) /\ h = held'[c] /\ phase[c] # "embedding"
    BY <1>1, <1>6, <1>10
  <2>5. frames[c] = frames[c] \o fs
    BY <2>2
  <2> HIDE DEF code, fs
  <2>6. ConnOK(server.tk, ask[c].path, "over", code, frames[c], k, FALSE, gone[c], task[c])
    BY <1>3, <1>4, <1>5, <2>1, <2>3, ConnFails
  <2>7. ConnOK(server.tk, ask[c].path, "over", code, frames[c], k, h, gone[c], task[c])
    BY <2>6
  <2> HIDE DEF h
  <2> QED
    BY <1>7, <1>8, <2>4, <2>5, <2>7, Answering
<1>11. CASE Said(c, "error") /\ Answer(c, Status(proto, Heard(c).error), <<>>)
  <2>1. job[c].taken < Len(job[c].said) /\ job[c].said[job[c].taken + 1].kind = "error"
    BY <1>11 DEF Said
  <2>2. job[c].said[job[c].taken + 1] \in Event(server.tk)
    BY <1>3, <1>4, <1>5, <2>1, CollectAt
  <2>3. Heard(c).error \in {"Timeout", "Inference"}
    BY <2>1, <2>2, EventCases DEF Heard
  <2> QED
    BY <1>10, <1>11, <2>3
<1>12. CASE Said(c, "silence") /\ Answer(c, Status(proto, "Scheduler"), <<>>)
  BY <1>10, <1>12
<1> QED
  BY <1>2, <1>9, <1>11, <1>12

\* A request answered with a status alone, before it is submitted.
LEMMA AnsweredBare ==
  ASSUME IInv, NEW c \in Conns, phase[c] = "arrived", NEW code, code \in Codes, Answer(c, code, <<>>),
         server' = server, ask' = ask, job' = job, held' = held, gone' = gone, task' = task,
         permits' = permits
  PROVE  IInv'
<1> DEFINE fs == <<>>
<1>1. OK(c) /\ server.tk \in Tokenizers
  BY SetUp DEF IInv
<1>2. ConnOK(server.tk, ask[c].path, "arrived", status[c], frames[c], job[c], held[c], gone[c], task[c])
  BY <1>1 DEF OK
<1>3. /\ frames[c] = <<>>
      /\ ConnOK(server.tk, ask[c].path, "over", code, frames[c], job[c], held[c], gone[c], task[c])
  BY <1>1, <1>2, ConnAnswers
<1>4. frames[c] = frames[c] \o fs
  BY <1>3
<1>5. Aside(c)
  BY DEF Aside, IInv
<1>6. Answer(c, code, fs) /\ phase[c] # "embedding" /\ job[c] = job'[c] /\ held[c] = held'[c]
  OBVIOUS
<1> HIDE DEF fs
<1> QED
  BY <1>3, <1>4, <1>5, <1>6, Answering

LEMMA TurnAwayStep ==
  ASSUME IInv, NEW c \in Conns, TurnAway(c)
  PROVE  IInv'
<1> DEFINE bad == Status(Protocol(ask[c].path), "Config")
<1>1. /\ server' = server /\ ask' = ask /\ job' = job /\ held' = held /\ gone' = gone /\ task' = task
      /\ permits' = permits /\ phase[c] = "arrived"
  BY DEF TurnAway, Arrived
<1>2. \/ Answer(c, 401, <<>>)
      \/ Unusable(ask[c]) /\ Answer(c, bad, <<>>)
      \/ Answer(c, OpenAiStatus("Inference"), <<>>)
  BY DEF TurnAway
<1>3. ASSUME NEW code, code \in Codes, Answer(c, code, <<>>)
      PROVE  IInv'
  BY <1>1, <1>3, AnsweredBare
<1>4. CASE Answer(c, 401, <<>>)
  <2> DEFINE code == 401
  <2>1. code \in Codes /\ Answer(c, code, <<>>)
    BY <1>4 DEF Codes
  <2> HIDE DEF code
  <2> QED
    BY <1>3, <2>1
<1>5. CASE Unusable(ask[c]) /\ Answer(c, bad, <<>>)
  <2>1. ask[c].path \in Generation
    BY <1>5 DEF Unusable, Generation
  <2>2. bad \in Codes
    BY <2>1, StatusFacts
  <2> HIDE DEF bad
  <2> QED
    BY <1>3, <1>5, <2>2
<1>6. CASE Answer(c, OpenAiStatus("Inference"), <<>>)
  <2> DEFINE code == OpenAiStatus("Inference")
  <2>1. code \in Codes /\ Answer(c, code, <<>>)
    BY <1>6 DEF Codes, OpenAiStatus, Mapped
  <2> HIDE DEF code
  <2> QED
    BY <1>3, <2>1
<1> QED
  BY <1>2, <1>4, <1>5, <1>6

LEMMA ServeStep ==
  ASSUME IInv, NEW c \in Conns, Serve(c)
  PROVE  IInv'
<1> DEFINE code == 200
<1>1. /\ server' = server /\ ask' = ask /\ job' = job /\ held' = held /\ gone' = gone /\ task' = task
      /\ permits' = permits /\ phase[c] = "arrived" /\ Answer(c, code, <<>>) /\ code \in Codes
  BY DEF Serve, Arrived, Codes
<1> HIDE DEF code
<1> QED
  BY <1>1, AnsweredBare

LEMMA FirstIs ==
  ASSUME NEW proto, NEW first, first = FirstFrames(proto)
  PROVE  /\ first \in Seq(FrameType)
         /\ \A i \in 1..Len(first) :
              first[i].kind \in OpeningKinds \ {"text"} /\ first[i].reason = "none" /\ first[i].n = 0
<1>1. CASE proto = "anthropic"
  <2> DEFINE f == Frame("message_start")
             g == Frame("content_block_start")
  <2>1. /\ f = Of("message_start", "none", 0, <<>>) /\ f \in FrameType
        /\ g = Of("content_block_start", "none", 0, <<>>) /\ g \in FrameType
    <3>1. /\ "message_start" \in Kinds /\ "content_block_start" \in Kinds
          /\ "none" \in Reasons /\ 0 \in Nat /\ <<>> \in Seq(TextBytes)
      BY EmptySeq DEF Kinds, OpeningKinds, Reasons
    <3> QED
      BY ONLY <3>1, FramesOf DEF f, g
  <2>2. /\ f.kind \in OpeningKinds \ {"text"} /\ f.reason = "none" /\ f.n = 0
        /\ g.kind \in OpeningKinds \ {"text"} /\ g.reason = "none" /\ g.n = 0
    BY <2>1 DEF Of, OpeningKinds
  <2>3. first = <<f, g>>
    BY <1>1 DEF FirstFrames
  <2> HIDE DEF f, g
  <2>4. first \in Seq(FrameType) /\ Len(first) = 2 /\ first[1] = f /\ first[2] = g
    BY <2>1, <2>3
  <2> QED
    BY <2>2, <2>4
<1>2. CASE proto # "anthropic"
  <2>1. first = <<>>
    BY <1>2 DEF FirstFrames
  <2> QED
    BY <2>1, EmptySeq
<1> QED
  BY <1>1, <1>2

LEMMA SubmitStep ==
  ASSUME IInv, NEW c \in Conns, Submit(c)
  PROVE  IInv'
<1> DEFINE path == ask[c].path
           proto == Protocol(path)
           prompt == PromptOf(ask[c])
           limit == Limit(proto, ask[c])
           k == Asked(prompt, limit)
           first == FirstFrames(proto)
<1>1. /\ server' = server /\ ask' = ask /\ gone' = gone /\ task' = task /\ permits' = permits
      /\ phase[c] = "arrived" /\ path \in Generation
  BY DEF Submit, Arrived
<1>2. \/ /\ held' = [held EXCEPT ![c] = TRUE] /\ job' = [job EXCEPT ![c] = k]
         /\ phase' = [phase EXCEPT ![c] = "streaming"] /\ status' = [status EXCEPT ![c] = 200]
         /\ frames' = [frames EXCEPT ![c] = first]
      \/ /\ held' = [held EXCEPT ![c] = TRUE] /\ job' = [job EXCEPT ![c] = k]
         /\ phase' = [phase EXCEPT ![c] = "collecting"] /\ status' = status /\ frames' = frames
      \/ \E e \in {"RateLimit", "Busy", "Scheduler"} :
           /\ job' = [job EXCEPT ![c] = [k EXCEPT !.refusal = e]] /\ held' = held
           /\ Answer(c, Status(proto, e), <<>>)
  BY DEF Submit, Refusals
<1>3. OK(c) /\ server.tk \in Tokenizers
  BY SetUp DEF IInv
<1>4. ConnOK(server.tk, path, "arrived", status[c], frames[c], job[c], held[c], gone[c], task[c])
  BY <1>1, <1>3 DEF OK
<1>5. Fresh(server.tk, k) /\ k.refusal = "none"
  BY AskedFresh
<1>6. proto = Protocol(path) /\ path = ask[c].path
  OBVIOUS
<1>7. /\ first \in Seq(FrameType)
      /\ \A i \in 1..Len(first) :
           first[i].kind \in OpeningKinds \ {"text"} /\ first[i].reason = "none" /\ first[i].n = 0
  BY FirstIs
<1> HIDE DEF k, first, proto, path
<1>8. CASE /\ held' = [held EXCEPT ![c] = TRUE] /\ job' = [job EXCEPT ![c] = k]
           /\ phase' = [phase EXCEPT ![c] = "streaming"] /\ status' = [status EXCEPT ![c] = 200]
           /\ frames' = [frames EXCEPT ![c] = first]
  <2>1. /\ held'[c] = TRUE /\ job'[c] = k /\ phase'[c] = "streaming" /\ status'[c] = 200
        /\ frames'[c] = first
    BY <1>8 DEF IInv
  <2>2. Elsewhere(c)
    BY <1>1, <1>8 DEF Elsewhere, IInv
  <2> DEFINE st == OkCode
  <2>6. st = OkCode
    OBVIOUS
  <2> HIDE DEF st
  <2>3. ConnOK(server.tk, path, "streaming", st, first, k, TRUE, gone[c], task[c])
    BY <1>1, <1>3, <1>4, <1>5, <1>7, <2>6, ConnStreams
  <2>4. OK(c)'
    BY <1>1, <1>6, <2>1, <2>3 DEF OK, OkCode, st
  <2>5. permits' \in Nat /\ permits' + Cardinality(Embedders') = EmbeddingSlots
    BY <1>1, <2>1, <2>2, SlotKept
  <2> QED
    BY <2>2, <2>4, <2>5, Step
<1>9. CASE /\ held' = [held EXCEPT ![c] = TRUE] /\ job' = [job EXCEPT ![c] = k]
           /\ phase' = [phase EXCEPT ![c] = "collecting"] /\ status' = status /\ frames' = frames
  <2>1. held'[c] = TRUE /\ job'[c] = k /\ phase'[c] = "collecting"
    BY <1>9 DEF IInv
  <2>2. Elsewhere(c)
    BY <1>1, <1>9 DEF Elsewhere, IInv
  <2>3. ConnOK(server.tk, path, "collecting", status[c], frames[c], k, TRUE, gone[c], task[c])
    BY <1>1, <1>3, <1>4, <1>5, ConnCollects
  <2>4. OK(c)'
    BY <1>1, <1>6, <1>9, <2>1, <2>3 DEF OK
  <2>5. permits' \in Nat /\ permits' + Cardinality(Embedders') = EmbeddingSlots
    BY <1>1, <2>1, <2>2, SlotKept
  <2> QED
    BY <2>2, <2>4, <2>5, Step
<1>10. ASSUME NEW e \in {"RateLimit", "Busy", "Scheduler"},
              job' = [job EXCEPT ![c] = [k EXCEPT !.refusal = e]], held' = held,
              Answer(c, Status(proto, e), <<>>)
       PROVE  IInv'
  <2> DEFINE l == [k EXCEPT !.refusal = e]
             code == Status(proto, e)
             fs == <<>>
  <2>1. Fresh(server.tk, l) /\ l.refusal = e
    BY <1>5, RefusedFresh
  <2>2. /\ code \in Codes
        /\ e = "RateLimit" <=> code = 429
        /\ e = "Busy" <=> code = 503
    BY <1>1, <1>6, StatusFacts
  <2>3. l = job'[c]
    BY <1>10 DEF IInv
  <2>4. Aside(c)
    BY <1>1, <1>10 DEF Aside, IInv
  <2>5. Answer(c, code, fs) /\ held[c] = held'[c] /\ phase[c] # "embedding"
    BY <1>1, <1>10
  <2>6. frames[c] = frames[c] \o fs
    <3>1. frames[c] = <<>>
      BY <1>4 DEF ConnOK, Courses
    <3> QED
      BY <3>1
  <2> HIDE DEF l, code, fs
  <2>7. l.refusal = "RateLimit" <=> code = 429
    BY <2>1, <2>2
  <2>8. l.refusal = "Busy" <=> code = 503
    BY <2>1, <2>2
  <2>9. ConnOK(server.tk, path, "over", code, frames[c], l, held[c], gone[c], task[c])
    BY <1>1, <1>3, <1>4, <2>1, <2>2, <2>7, <2>8, ConnRefused
  <2>10. ConnOK(server.tk, ask[c].path, "over", code, frames[c], l, held[c], gone[c], task[c])
    BY <1>6, <2>9
  <2> QED
    BY <2>3, <2>4, <2>5, <2>6, <2>10, Answering
<1> QED
  BY <1>2, <1>8, <1>9, <1>10

LEMMA DisconnectStep ==
  ASSUME IInv, NEW c \in Conns, Disconnect(c)
  PROVE  IInv'
<1>1. /\ server' = server /\ ask' = ask /\ phase' = phase /\ status' = status /\ frames' = frames
      /\ job' = job /\ held' = held /\ task' = task /\ permits' = permits
      /\ gone' = [gone EXCEPT ![c] = TRUE]
  BY DEF Disconnect
<1>2. gone'[c] = TRUE /\ Elsewhere(c)
  BY <1>1 DEF Elsewhere, IInv
<1>3. ConnOK(server.tk, ask[c].path, phase[c], status[c], frames[c], job[c], held[c], gone[c], task[c])
  BY DEF IInv, OK
<1>4. ConnOK(server.tk, ask[c].path, phase[c], status[c], frames[c], job[c], held[c], TRUE, task[c])
  BY <1>3, ConnGone
<1>5. OK(c)'
  BY <1>1, <1>2, <1>4 DEF OK
<1>6. permits' \in Nat /\ permits' + Cardinality(Embedders') = EmbeddingSlots
  BY <1>1, <1>2, SlotKept
<1> QED
  BY <1>2, <1>5, <1>6, Step

LEMMA LeaveStep ==
  ASSUME IInv, NEW c \in Conns, Leave(c)
  PROVE  IInv'
<1>1. /\ server' = server /\ ask' = ask /\ status' = status /\ frames' = frames /\ job' = job
      /\ gone' = gone /\ task' = task /\ permits' = permits + Freed(c)
      /\ phase' = [phase EXCEPT ![c] = "over"] /\ held' = [held EXCEPT ![c] = FALSE]
      /\ gone[c] /\ phase[c] \in Listening
  BY DEF Leave
<1>2. phase'[c] = "over" /\ held'[c] = FALSE /\ Elsewhere(c)
  BY <1>1 DEF Elsewhere, IInv
<1>3. ConnOK(server.tk, ask[c].path, phase[c], status[c], frames[c], job[c], held[c], gone[c], task[c])
  BY DEF IInv, OK
<1>4. ConnOK(server.tk, ask[c].path, "over", status[c], frames[c], job[c], FALSE, gone[c], task[c])
  BY <1>1, <1>3, ConnLeaves
<1>5. OK(c)'
  BY <1>1, <1>2, <1>4 DEF OK
<1>6. permits' \in Nat /\ permits' + Cardinality(Embedders') = EmbeddingSlots
  <2>1. CASE phase[c] = "embedding"
    <3>1. permits' = permits + 1
      BY <1>1, <2>1 DEF Freed
    <3> QED
      BY <1>2, <2>1, <3>1, SlotFreed
  <2>2. CASE phase[c] # "embedding"
    <3>1. permits' = permits
      BY <1>1, <2>2 DEF Freed, IInv
    <3> QED
      BY <1>2, <2>2, <3>1, SlotKept
  <2> QED
    BY <2>1, <2>2
<1> QED
  BY <1>2, <1>5, <1>6, Step

LEMMA UpgradeStep ==
  ASSUME IInv, NEW c \in Conns, Upgrade(c)
  PROVE  IInv'
<1>1. /\ server' = server /\ ask' = ask /\ status' = status /\ frames' = frames /\ job' = job
      /\ held' = held /\ gone' = gone /\ task' = task /\ permits' = permits
      /\ phase' = [phase EXCEPT ![c] = "reading"] /\ phase[c] = "arrived" /\ ask[c].path = "/v1/ws"
  BY DEF Upgrade, Arrived
<1>2. phase'[c] = "reading" /\ Elsewhere(c)
  BY <1>1 DEF Elsewhere, IInv
<1>3. ConnOK(server.tk, ask[c].path, "arrived", status[c], frames[c], job[c], held[c], gone[c], task[c])
  BY <1>1 DEF IInv, OK
<1>4. ConnOK(server.tk, ask[c].path, "reading", status[c], frames[c], job[c], held[c], gone[c], task[c])
  BY <1>1, <1>3, ConnUpgrade
<1>5. OK(c)'
  BY <1>1, <1>2, <1>4 DEF OK
<1>6. permits' \in Nat /\ permits' + Cardinality(Embedders') = EmbeddingSlots
  BY <1>1, <1>2, SlotKept
<1> QED
  BY <1>2, <1>5, <1>6, Step

LEMMA NothingChanges ==
  ASSUME IInv, server' = server, ask' = ask, phase' = phase, status' = status, frames' = frames,
         job' = job, held' = held, gone' = gone, task' = task, permits' = permits
  PROVE  IInv'
<1>1. Embedders' = Embedders
  BY DEF Embedders
<1>2. \A c \in Conns : OK(c)'
  BY DEF IInv, OK
<1> QED
  BY <1>1, <1>2 DEF IInv

LEMMA ClientSendsStep ==
  ASSUME IInv, NEW c \in Conns, ClientSends(c)
  PROVE  IInv'
BY NothingChanges DEF ClientSends

\* Of an operator, so that its two forms are one fact to the provers.
Curt(fs) == fs = <<>> \/ fs = <<Frame("error")>>

LEMMA IdleStep ==
  ASSUME IInv, NEW c \in Conns, phase[c] = "reading", NEW k, Fresh(server.tk, k), NEW fs, Curt(fs),
         frames' = [frames EXCEPT ![c] = fs], job' = [job EXCEPT ![c] = k],
         phase' = phase, held' = held, server' = server, ask' = ask, status' = status, gone' = gone,
         task' = task, permits' = permits
  PROVE  IInv'
<1>1. frames'[c] = fs /\ job'[c] = k /\ Elsewhere(c)
  BY DEF Elsewhere, IInv
<1>2. server.tk \in Tokenizers
  BY SetUp
<1>3. ConnOK(server.tk, ask[c].path, "reading", status[c], frames[c], job[c], held[c], gone[c], task[c])
  BY DEF IInv, OK
<1>4. ConnOK(server.tk, ask[c].path, "reading", status[c], fs, k, held[c], gone[c], task[c])
  BY <1>2, <1>3, ConnIdle DEF Curt
<1>5. OK(c)'
  BY <1>1, <1>4 DEF OK
<1>6. permits' \in Nat /\ permits' + Cardinality(Embedders') = EmbeddingSlots
  BY <1>1, SlotKept
<1> QED
  BY <1>1, <1>5, <1>6, Step

LEMMA RunStep ==
  ASSUME IInv, NEW c \in Conns, phase[c] = "reading", NEW k, Fresh(server.tk, k),
         frames' = [frames EXCEPT ![c] = <<>>], job' = [job EXCEPT ![c] = k],
         phase' = [phase EXCEPT ![c] = "running"], held' = [held EXCEPT ![c] = TRUE],
         server' = server, ask' = ask, status' = status, gone' = gone, task' = task, permits' = permits
  PROVE  IInv'
<1>1. /\ frames'[c] = <<>> /\ job'[c] = k /\ phase'[c] = "running" /\ held'[c] = TRUE
      /\ Elsewhere(c)
  BY DEF Elsewhere, IInv
<1>2. server.tk \in Tokenizers
  BY SetUp
<1>3. ConnOK(server.tk, ask[c].path, "reading", status[c], frames[c], job[c], held[c], gone[c], task[c])
  BY DEF IInv, OK
<1>4. ConnOK(server.tk, ask[c].path, "running", status[c], <<>>, k, TRUE, gone[c], task[c])
  BY <1>2, <1>3, ConnRuns
<1>5. OK(c)'
  BY <1>1, <1>4 DEF OK
<1>6. permits' \in Nat /\ permits' + Cardinality(Embedders') = EmbeddingSlots
  BY <1>1, SlotKept
<1> QED
  BY <1>1, <1>5, <1>6, Step

LEMMA ReadIdleStep ==
  ASSUME IInv, NEW c \in Conns, ReadIdle(c)
  PROVE  IInv'
<1> DEFINE m == Head(inbox[c])
           k == Asked(Encode(server.tk, m.prompt[1]), Override(m))
           error == <<Frame("error")>>
           none == <<>>
<1>1. /\ server' = server /\ ask' = ask /\ status' = status /\ gone' = gone
      /\ task' = task /\ permits' = permits /\ phase[c] = "reading"
  BY DEF ReadIdle
<1>2. \/ /\ frames' = [frames EXCEPT ![c] = error] /\ job' = [job EXCEPT ![c] = NoJob]
         /\ phase' = phase /\ held' = held
      \/ /\ frames' = [frames EXCEPT ![c] = none] /\ job' = [job EXCEPT ![c] = NoJob]
         /\ phase' = phase /\ held' = held
      \/ \E e \in Refusals :
           /\ frames' = [frames EXCEPT ![c] = error]
           /\ job' = [job EXCEPT ![c] = [k EXCEPT !.refusal = e]]
           /\ phase' = phase /\ held' = held
      \/ /\ frames' = [frames EXCEPT ![c] = none] /\ job' = [job EXCEPT ![c] = k]
         /\ phase' = [phase EXCEPT ![c] = "running"] /\ held' = [held EXCEPT ![c] = TRUE]
  BY DEF ReadIdle, RunOne
<1>3. Fresh(server.tk, NoJob) /\ Fresh(server.tk, k) /\ Curt(error) /\ Curt(none)
  BY NoJobFresh, AskedFresh DEF Curt
<1> HIDE DEF k, error
<1>4. CASE /\ frames' = [frames EXCEPT ![c] = error] /\ job' = [job EXCEPT ![c] = NoJob]
           /\ phase' = phase /\ held' = held
  BY <1>1, <1>3, <1>4, IdleStep
<1>5. CASE /\ frames' = [frames EXCEPT ![c] = none] /\ job' = [job EXCEPT ![c] = NoJob]
           /\ phase' = phase /\ held' = held
  <2> HIDE DEF none
  <2> QED
    BY <1>1, <1>3, <1>5, IdleStep
<1>6. ASSUME NEW e \in Refusals, frames' = [frames EXCEPT ![c] = error],
             job' = [job EXCEPT ![c] = [k EXCEPT !.refusal = e]], phase' = phase, held' = held
      PROVE  IInv'
  <2> DEFINE l == [k EXCEPT !.refusal = e]
  <2>1. Fresh(server.tk, l)
    BY <1>3, RefusedFresh DEF Refusals
  <2>2. job' = [job EXCEPT ![c] = l]
    BY <1>6
  <2> HIDE DEF l
  <2> QED
    BY <1>1, <1>3, <1>6, <2>1, <2>2, IdleStep
<1>7. CASE /\ frames' = [frames EXCEPT ![c] = none] /\ job' = [job EXCEPT ![c] = k]
           /\ phase' = [phase EXCEPT ![c] = "running"] /\ held' = [held EXCEPT ![c] = TRUE]
  BY <1>1, <1>3, <1>7, RunStep
<1> QED
  BY <1>2, <1>4, <1>5, <1>6, <1>7

LEMMA ReadRunningStep ==
  ASSUME IInv, NEW c \in Conns, ReadRunning(c)
  PROVE  IInv'
<1> DEFINE stops == Cancels(Head(inbox[c]))
           fs1 == Append(frames[c], [Frame("done") EXCEPT !.reason = "cancelled"])
<1>1. /\ server' = server /\ ask' = ask /\ status' = status /\ job' = job /\ gone' = gone
      /\ task' = task /\ permits' = permits /\ phase[c] = "running"
      /\ phase' = [phase EXCEPT ![c] = IF stops THEN "reading" ELSE @]
      /\ held' = [held EXCEPT ![c] = ~stops]
      /\ frames' = [frames EXCEPT ![c] = IF stops THEN fs1 ELSE @]
  BY DEF ReadRunning
<1>2. fs1 = Append(frames[c], [Frame("done") EXCEPT !.reason = "cancelled"])
  OBVIOUS
<1> HIDE DEF stops, fs1
<1>3. Elsewhere(c)
  BY <1>1 DEF Elsewhere, IInv
<1>4. OK(c) /\ server.tk \in Tokenizers
  BY SetUp DEF IInv
<1>5. ConnOK(server.tk, ask[c].path, "running", status[c], frames[c], job[c], held[c], gone[c], task[c])
  BY <1>1, <1>4 DEF OK
<1>6. OK(c)'
  <2>1. CASE stops
    <3>1. phase'[c] = "reading" /\ held'[c] = FALSE /\ frames'[c] = fs1
      BY <1>1, <2>1 DEF IInv
    <3>2. ConnOK(server.tk, ask[c].path, "reading", status[c], fs1, job[c], FALSE, gone[c], task[c])
      BY <1>2, <1>4, <1>5, ConnCancels
    <3> QED
      BY <1>1, <3>1, <3>2 DEF OK
  <2>2. CASE ~stops
    <3>1. phase'[c] = "running" /\ held'[c] = TRUE /\ frames'[c] = frames[c]
      BY <1>1, <2>2 DEF IInv
    <3>2. ConnOK(server.tk, ask[c].path, "running", status[c], frames[c], job[c], TRUE, gone[c], task[c])
      BY <1>5 DEF ConnOK, ConnType, Courses
    <3> QED
      BY <1>1, <3>1, <3>2 DEF OK
  <2> QED
    BY <2>1, <2>2
<1>7. phase'[c] # "embedding"
  BY <1>1 DEF IInv
<1>8. permits' \in Nat /\ permits' + Cardinality(Embedders') = EmbeddingSlots
  BY <1>1, <1>3, <1>7, SlotKept
<1> QED
  BY <1>3, <1>6, <1>8, Step

LEMMA EmbedStep ==
  ASSUME IInv, NEW c \in Conns, Embed(c)
  PROVE  IInv'
<1>1. /\ server' = server /\ ask' = ask /\ job' = job /\ held' = held /\ gone' = gone
      /\ phase[c] = "arrived" /\ ask[c].path = "/v1/embeddings"
  BY DEF Embed, Arrived
<1>2. \/ /\ Answer(c, OpenAiStatus("Busy"), <<>>) /\ permits' = permits /\ task' = task
      \/ /\ permits > 0 /\ permits' = permits - 1
         /\ task' = [task EXCEPT ![c].left = Len(ask[c].inputs)]
         /\ phase' = [phase EXCEPT ![c] = "embedding"] /\ status' = status /\ frames' = frames
  BY DEF Embed, Takes
<1>3. ConnOK(server.tk, ask[c].path, "arrived", status[c], frames[c], job[c], held[c], gone[c], task[c])
  BY <1>1 DEF IInv, OK
<1>4. CASE Answer(c, OpenAiStatus("Busy"), <<>>) /\ permits' = permits /\ task' = task
  <2> DEFINE code == OpenAiStatus("Busy")
  <2>1. code \in Codes /\ Answer(c, code, <<>>)
    BY <1>4 DEF Codes, OpenAiStatus, Mapped
  <2> HIDE DEF code
  <2> QED
    BY <1>1, <1>4, <2>1, AnsweredBare
<1>5. CASE /\ permits > 0 /\ permits' = permits - 1
           /\ task' = [task EXCEPT ![c].left = Len(ask[c].inputs)]
           /\ phase' = [phase EXCEPT ![c] = "embedding"] /\ status' = status /\ frames' = frames
  <2> DEFINE u == [task[c] EXCEPT !.left = Len(ask[c].inputs)]
  <2>1. Len(ask[c].inputs) \in Nat
    <3>1. ask[c].inputs \in Seq(Seq(DOMAIN ByteChars))
      BY FrontendsAssumption DEF IInv
    <3> QED
      BY <3>1, LenProperties
  <2>2. u \in Tasks
    <3>1. task[c] \in Tasks
      BY <1>3 DEF ConnOK, ConnType
    <3> QED
      BY <2>1, <3>1 DEF Tasks
  <2>3. task'[c] = u /\ phase'[c] = "embedding" /\ Elsewhere(c)
    BY <1>1, <1>5 DEF Elsewhere, IInv
  <2> HIDE DEF u
  <2>4. ConnOK(server.tk, ask[c].path, "embedding", status[c], frames[c], job[c], held[c], gone[c], u)
    BY <1>1, <1>3, <2>2, ConnEmbeds
  <2>5. OK(c)'
    BY <1>1, <1>5, <2>3, <2>4 DEF OK
  <2>6. permits' \in Nat /\ permits' + Cardinality(Embedders') = EmbeddingSlots
    BY <1>1, <1>5, <2>3, SlotTaken
  <2> QED
    BY <2>3, <2>5, <2>6, Step
<1> QED
  BY <1>2, <1>4, <1>5

LEMMA EmbedOneStep ==
  ASSUME IInv, NEW c \in Conns, EmbedOne(c)
  PROVE  IInv'
<1>1. /\ server' = server /\ ask' = ask /\ phase' = phase /\ status' = status /\ frames' = frames
      /\ job' = job /\ held' = held /\ gone' = gone /\ permits' = permits
      /\ task[c].left > 0 /\ task[c].end = "none"
  BY DEF EmbedOne, Working
<1>2. \/ task' = [task EXCEPT ![c].left = @ - 1, ![c].end = IF task[c].left = 1 THEN "ok" ELSE @]
      \/ \E e \in {"Timeout", "Inference"} : task' = [task EXCEPT ![c].end = e]
  BY DEF EmbedOne
<1>3. ConnOK(server.tk, ask[c].path, phase[c], status[c], frames[c], job[c], held[c], gone[c], task[c])
  BY DEF IInv, OK
<1>4. task[c] \in Tasks
  BY <1>3 DEF ConnOK, ConnType
<1>5. task'[c] \in Tasks /\ DOMAIN task' = Conns /\ \A d \in Conns \ {c} : task'[d] = task[d]
  <2>1. CASE task' = [task EXCEPT ![c].left = @ - 1, ![c].end = IF task[c].left = 1 THEN "ok" ELSE @]
    <3>1. task[c].left - 1 \in Nat
      BY <1>1, <1>4 DEF Tasks
    <3>2. DOMAIN task = Conns
      BY DEF IInv
    <3> QED
      BY <1>4, <2>1, <3>1, <3>2 DEF Tasks
  <2>2. CASE \E e \in {"Timeout", "Inference"} : task' = [task EXCEPT ![c].end = e]
    BY <1>4, <2>2 DEF Tasks, IInv
  <2> QED
    BY <1>2, <2>1, <2>2
<1>6. Elsewhere(c)
  BY <1>1, <1>5 DEF Elsewhere, IInv
<1>7. ConnOK(server.tk, ask[c].path, phase[c], status[c], frames[c], job[c], held[c], gone[c], task'[c])
  BY <1>1, <1>3, <1>5, ConnWorks
<1>8. OK(c)'
  BY <1>1, <1>7 DEF OK
<1>9. permits' \in Nat /\ permits' + Cardinality(Embedders') = EmbeddingSlots
  BY <1>1, <1>6, SlotKept
<1> QED
  BY <1>6, <1>8, <1>9, Step

LEMMA EmbeddedStep ==
  ASSUME IInv, NEW c \in Conns, Embedded(c)
  PROVE  IInv'
<1> DEFINE code == IF task[c].end = "ok" THEN 200 ELSE OpenAiStatus(task[c].end)
           fs == <<>>
<1>1. /\ server' = server /\ ask' = ask /\ job' = job /\ held' = held /\ gone' = gone /\ task' = task
      /\ permits' = permits + 1 /\ phase[c] = "embedding" /\ task[c].end # "none"
      /\ Answer(c, code, fs)
  BY DEF Embedded, Takes
<1>2. OK(c) /\ server.tk \in Tokenizers
  BY SetUp DEF IInv
<1>3. ConnOK(server.tk, ask[c].path, "embedding", status[c], frames[c], job[c], held[c], gone[c], task[c])
  BY <1>1, <1>2 DEF OK
<1>4. code \in Codes
  <2>1. task[c].end \in {"none", "ok", "Timeout", "Inference"}
    BY <1>3 DEF ConnOK, ConnType, Tasks
  <2> QED
    BY <1>1, <2>1 DEF Codes, OpenAiStatus, Mapped
<1> HIDE DEF code
<1>5. /\ frames[c] = <<>>
      /\ ConnOK(server.tk, ask[c].path, "over", code, frames[c], job[c], held[c], gone[c], task[c])
  BY <1>1, <1>2, <1>3, <1>4, ConnEmbedded
<1>6. frames[c] \o fs = frames[c]
  BY <1>5
<1> HIDE DEF fs
<1>7. /\ status'[c] = code /\ frames'[c] = frames[c] \o fs /\ phase'[c] = "over"
      /\ DOMAIN status' = Conns /\ DOMAIN frames' = Conns /\ DOMAIN phase' = Conns
      /\ \A x \in Conns \ {c} :
           status'[x] = status[x] /\ frames'[x] = frames[x] /\ phase'[x] = phase[x]
  BY <1>1, AnswerIs
<1>8. frames'[c] = frames[c]
  BY <1>6, <1>7
<1>9. Elsewhere(c)
  BY <1>1, <1>7 DEF Elsewhere, IInv
<1>10. OK(c)'
  BY <1>1, <1>5, <1>7, <1>8 DEF OK
<1>11. permits' \in Nat /\ permits' + Cardinality(Embedders') = EmbeddingSlots
  BY <1>1, <1>7, <1>9, SlotFreed
<1> QED
  BY <1>9, <1>10, <1>11, Step

-----------------------------------------------------------------------------
(* The invariant, and what it says.                                        *)

LEMMA IInvInit == Init => IInv
<1> SUFFICES ASSUME NEW s \in Scenarios, server = s.server, ask = s.ask,
                    phase = [c \in Conns |-> IF s.ask[c].path = "none" THEN "over" ELSE "arrived"],
                    status = [c \in Conns |-> 0], frames = [c \in Conns |-> <<>>],
                    job = [c \in Conns |-> NoJob], held = [c \in Conns |-> FALSE],
                    gone = [c \in Conns |-> FALSE], permits = EmbeddingSlots,
                    task = [c \in Conns |-> NoTask]
             PROVE  IInv
  BY DEF Init
<1>1. server.tk \in Tokenizers
  BY FrontendsAssumption
<1>2. permits \in Nat /\ permits + Cardinality(Embedders) = EmbeddingSlots
  <2>1. Embedders = {}
    BY DEF Embedders
  <2>2. Cardinality(Embedders) = 0
    BY <2>1, FS_EmptySet
  <2> QED
    BY <2>2, FrontendsAssumption
<1>3. ASSUME NEW c \in Conns
      PROVE  OK(c)
  <2> DEFINE ph == IF s.ask[c].path = "none" THEN "over" ELSE "arrived"
             tk == server.tk
             path == ask[c].path
             j == NoJob
             fs == <<>>
  <2>1. Fresh(tk, j) /\ j.refusal = "none"
    BY NoJobFresh
  <2>2. fs \in Seq(FrameType) /\ SentText(fs) = <<>> /\ EndsLast(fs)
    BY NoFrames
  <2>3. fs = <<>> /\ ph \in {"over", "arrived"}
    OBVIOUS
  <2>4. tk \in Tokenizers
    BY <1>1
  <2> HIDE DEF ph, tk, path, j, fs
  <2>5. TextTold(tk, fs, j) /\ EndTold(0, fs, j) /\ j.taken <= Len(j.said)
    BY <2>1, <2>2, <2>4, FreshTells
  <2>6. j \in Jobs(tk, j) /\ j.said = <<>>
    BY <2>1 DEF Fresh
  <2>7. ConnType(tk, ph, 0, fs, j, FALSE, NoTask)
    BY <2>2, <2>3, <2>5, <2>6 DEF ConnType, Codes, Listening, Tasks, NoTask
  <2>8. Courses(path, ph, 0, fs, j, FALSE, FALSE, NoTask)
    BY <2>3, <2>6 DEF Courses, NoTask
  <2>9. Refused(path, ph, 0, j)
    BY <2>1 DEF Refused
  <2>10. ConnOK(tk, path, ph, 0, fs, j, FALSE, FALSE, NoTask)
    BY <2>2, <2>3, <2>5, <2>7, <2>8, <2>9 DEF ConnOK
  <2>11. /\ phase[c] = ph /\ status[c] = 0 /\ frames[c] = fs /\ job[c] = j /\ held[c] = FALSE
         /\ gone[c] = FALSE /\ task[c] = NoTask /\ server.tk = tk /\ ask[c].path = path
    BY DEF ph, tk, path, j, fs
  <2> QED
    BY <2>10, <2>11 DEF OK
<1> QED
  BY <1>2, <1>3 DEF IInv

LEMMA IInvStep == IInv /\ [Next]_vars => IInv'
<1> SUFFICES ASSUME IInv, [Next]_vars
             PROVE  IInv'
  OBVIOUS
<1>1. CASE UNCHANGED vars
  BY <1>1, NothingChanges DEF vars
<1>2. ASSUME NEW c \in Conns, Opened(c)
      PROVE  IInv'
  BY <1>2, TurnAwayStep, ServeStep, SubmitStep, UpgradeStep, EmbedStep, ReadIdleStep DEF Opened
<1>3. ASSUME NEW c \in Conns, Awaited(c)
      PROVE  IInv'
  BY <1>3, StreamTokenStep, StreamDoneStep, StreamErrorStep, StreamSilenceStep, CollectTokenStep,
     CollectEndStep, ReadRunningStep, EmbeddedStep, LeaveStep DEF Awaited, Streaming
<1>4. ASSUME NEW c \in Conns, EmbedOne(c) \/ Scheduled(c) \/ ClientSends(c) \/ Disconnect(c)
      PROVE  IInv'
  BY <1>4, EmbedOneStep, SayStep, ClientSendsStep, DisconnectStep
<1> QED
  BY <1>1, <1>2, <1>3, <1>4 DEF Next

LEMMA Invariance == Spec => []IInv
<1>1. Init => IInv
  BY IInvInit
<1>2. IInv /\ [Next]_vars => IInv'
  BY IInvStep
<1> QED
  BY <1>1, <1>2, PTL DEF Spec

LEMMA IInvTypeOK == IInv => TypeOK
<1> SUFFICES ASSUME IInv
             PROVE  TypeOK
  OBVIOUS
<1>1. permits \in 0..EmbeddingSlots
  BY EmbeddersFinite, FrontendsAssumption DEF IInv
<1>2. ASSUME NEW c \in Conns
      PROVE  /\ phase[c] \in Listening \cup {"over"}
             /\ status[c] \in Codes
             /\ job[c].taken \in 0..Len(job[c].said)
             /\ Range(job[c].decoder.pending) \subseteq Bytes
             /\ held[c] => phase[c] \in {"streaming", "collecting", "running"}
             /\ task[c].left \in Nat /\ task[c].end \in {"none", "ok", "Timeout", "Inference"}
  <2>1. /\ ConnType(server.tk, phase[c], status[c], frames[c], job[c], held[c], task[c])
        /\ Courses(ask[c].path, phase[c], status[c], frames[c], job[c], held[c], gone[c], task[c])
    BY DEF IInv, OK, ConnOK
  <2>2. job[c] \in Jobs(server.tk, job[c]) /\ job[c].taken <= Len(job[c].said)
    BY <2>1 DEF ConnType
  <2>3. /\ job[c].taken \in Nat /\ job[c].decoder \in Decoders /\ Len(job[c].said) \in Nat
    BY <2>2, JobType
  <2>4. Range(job[c].decoder.pending) \subseteq Bytes
    <3>1. job[c].decoder.pending \in Seq(Bytes)
      BY <2>3 DEF Decoders
    <3> QED
      BY <3>1 DEF Range
  <2>5. task[c] \in Tasks
    BY <2>1 DEF ConnType
  <2> QED
    BY <2>1, <2>2, <2>3, <2>4, <2>5 DEF ConnType, Courses, Tasks
<1> QED
  BY <1>1, <1>2 DEF TypeOK

\* Tasks whose client is still there have a handler that holds a permit.
LEMMA IInvSlotsHeld == IInv => SlotsHeld
<1> SUFFICES ASSUME IInv
             PROVE  SlotsHeld
  OBVIOUS
<1>1. permits \in Nat /\ permits + Cardinality(Embedders) = EmbeddingSlots
  BY DEF IInv
<1>2. {c \in Conns : Working(c) /\ ~gone[c]} \in SUBSET Embedders
  <2>1. ASSUME NEW c \in Conns, Working(c), ~gone[c]
        PROVE  phase[c] = "embedding"
    <3>1. Courses(ask[c].path, phase[c], status[c], frames[c], job[c], held[c], gone[c], task[c])
      BY DEF IInv, OK, ConnOK
    <3> QED
      BY <2>1, <3>1 DEF Courses, Working
  <2> QED
    BY <2>1 DEF Embedders
<1>3. /\ IsFiniteSet({c \in Conns : Working(c) /\ ~gone[c]})
      /\ Cardinality({c \in Conns : Working(c) /\ ~gone[c]}) <= Cardinality(Embedders)
  BY <1>2, EmbeddersFinite, FS_Subset
<1>4. Cardinality({c \in Conns : Working(c) /\ ~gone[c]}) \in Nat
  BY <1>3, FS_CardinalityType
<1>5. Cardinality({c \in Conns : Working(c) /\ ~gone[c]}) <= EmbeddingSlots
  BY <1>1, <1>3, <1>4, EmbeddersFinite, FrontendsAssumption
<1> QED
  BY <1>1, <1>5, IInvTypeOK DEF SlotsHeld, Embedders

LEMMA IInvTellsText ==
  ASSUME IInv, NEW c \in Conns
  PROVE  TellsText(c)
<1>1. TextTold(server.tk, frames[c], job[c])
  BY DEF IInv, OK, ConnOK
<1> QED
  BY <1>1 DEF TellsText, TextTold, Readable, Legible, Toks, HeardEnd, HeardAll, Closed

LEMMA IInvTellsEnd ==
  ASSUME IInv, NEW c \in Conns
  PROVE  TellsEnd(c)
<1> DEFINE fs == frames[c]
           end == Last(job[c].said)
           toks == TokensOf(job[c].said)
           reasons == {fs[i].reason : i \in DOMAIN fs} \ {"none"}
<1> SUFFICES ASSUME HeardEnd(c)
             PROVE  /\ end.kind = "done" =>
                         /\ fs # <<>> /\ Last(fs).kind \in Endings \ {"error"}
                         /\ Cardinality(reasons) = 1
                         /\ end.reason = "Eos" <=> reasons \subseteq Natural
                         /\ \A i \in DOMAIN fs : fs[i].n \in {0, Len(toks)}
                    /\ end.kind = "error" =>
                         /\ reasons = {}
                         /\ IF status[c] \in {0, 200} THEN Last(fs).kind = "error" ELSE status[c] >= 400
  BY DEF TellsEnd
<1>1. EndTold(status[c], fs, job[c])
  BY DEF IInv, OK, ConnOK
<1>2. HeardAll(job[c])
  BY DEF HeardAll, HeardEnd, Closed
<1>3. reasons = ReasonsIn(fs)
  BY DEF ReasonsIn
<1> HIDE DEF fs, reasons
<1>4. ASSUME end.kind = "done"
      PROVE  /\ fs # <<>> /\ Last(fs).kind \in Endings \ {"error"}
             /\ Cardinality(reasons) = 1
             /\ end.reason = "Eos" <=> reasons \subseteq Natural
             /\ \A i \in DOMAIN fs : fs[i].n \in {0, Len(toks)}
  <2>1. /\ fs # <<>> /\ Last(fs).kind \in Endings \ {"error"}
        /\ \A i \in DOMAIN fs : fs[i].n \in {0, Len(toks)}
    BY <1>1, <1>2, <1>4 DEF EndTold
  <2>2. PICK r \in Reasons : ReasonsIn(fs) = {r} /\ (end.reason = "Eos" <=> r \in Natural)
    BY <1>1, <1>2, <1>4 DEF EndTold
  <2>3. Cardinality(reasons) = 1
    BY <1>3, <2>2, FS_Singleton
  <2>4. end.reason = "Eos" <=> reasons \subseteq Natural
    BY <1>3, <2>2
  <2> QED
    BY <2>1, <2>3, <2>4
<1>5. ASSUME end.kind = "error"
      PROVE  /\ reasons = {}
             /\ IF status[c] \in {0, 200} THEN Last(fs).kind = "error" ELSE status[c] >= 400
  BY <1>1, <1>2, <1>3, <1>5 DEF EndTold
<1> QED
  BY <1>4, <1>5

LEMMA IInvFaithful == IInv => Faithful
<1> SUFFICES ASSUME IInv, NEW c \in Conns
             PROVE  /\ \A i \in DOMAIN frames[c] : frames[c][i].kind \in Endings => i = Len(frames[c])
                    /\ TellsText(c)
                    /\ TellsEnd(c)
                    /\ phase[c] = "over" /\ job[c].refusal # "none" /\ ask[c].path \in Generation =>
                         /\ job[c].refusal = "RateLimit" <=> status[c] = 429
                         /\ job[c].refusal = "Busy" <=> status[c] = 503
  BY DEF Faithful
<1>1. /\ ConnType(server.tk, phase[c], status[c], frames[c], job[c], held[c], task[c])
      /\ Refused(ask[c].path, phase[c], status[c], job[c])
      /\ EndsLast(frames[c])
  BY DEF IInv, OK, ConnOK
<1>2. \A i \in DOMAIN frames[c] : frames[c][i].kind \in Endings => i = Len(frames[c])
  <2>1. DOMAIN frames[c] = 1..Len(frames[c])
    BY <1>1 DEF ConnType
  <2> QED
    BY <1>1, <2>1 DEF EndsLast
<1>3. phase[c] = "over" /\ job[c].refusal # "none" /\ ask[c].path \in Generation =>
         /\ job[c].refusal = "RateLimit" <=> status[c] = 429
         /\ job[c].refusal = "Busy" <=> status[c] = 503
  BY <1>1 DEF Refused
<1> QED
  BY <1>2, <1>3, IInvTellsText, IInvTellsEnd

-----------------------------------------------------------------------------
(* What holds of every behaviour.                                          *)

\* A handler is somewhere in its course, has sent a status of its format, has
\* read of its stream no more than was written and holds back only bytes; the
\* permits of the embedding semaphore are never more than it was made with.
THEOREM FrontendsType == Spec => []TypeOK
<1>1. IInv => TypeOK
  BY IInvTypeOK
<1> QED
  BY <1>1, Invariance, PTL

\* embeddings: a permit of embedding_slots is free or with a handler that waits
\* on its task, whatever clients leave and whatever passes fail, and so no more
\* tasks than slots run for clients that are still there.
THEOREM EmbeddingSlotsHeld == Spec => []SlotsHeld
<1>1. IInv => SlotsHeld
  BY IInvSlotsHeld
<1> QED
  BY <1>1, Invariance, PTL

\* session::pieces and collect, the stream decoder under them and every format
\* over them: what a client was sent is what the scheduler said, at every moment
\* of a stream, cut into tokens anywhere, and whatever way it ends.
THEOREM ClientsToldFaithfully == Spec => []Faithful
<1>1. IInv => Faithful
  BY IInvFaithful
<1> QED
  BY <1>1, Invariance, PTL
=============================================================================
