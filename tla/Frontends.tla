------------------------------ MODULE Frontends ------------------------------
(***************************************************************************)
(* The front ends: the handlers of every wire format, the socket, the      *)
(* embeddings route and the key check in front of them, with session's     *)
(* pieces and collect between them and the scheduler.  A request that the  *)
(* scheduler accepts says tokens and then how it ended, or falls silent    *)
(* with its worker: what RequestService promises.  A client may leave at   *)
(* any moment.  What a client is sent is a sequence of frames.             *)
(***************************************************************************)
EXTENDS TextStream, Prompts

CONSTANTS
  Conns,            \* connections
  Scenarios,        \* what the server is set up with, what each client does
  DefaultLimit,     \* the server's own max_tokens
  MaxInputs,        \* MAX_EMBEDDING_INPUTS
  EmbeddingSlots    \* permits of embedding_slots

ASSUME FrontendsAssumption ==
  /\ DefaultLimit \in Nat \ {0} /\ EmbeddingSlots \in Nat
  /\ IsFiniteSet(Conns)
  /\ \A s \in Scenarios : s.server.tk \in Tokenizers /\ DOMAIN s.ask = Conns
  /\ \A s \in Scenarios : \A c \in Conns : s.ask[c].inputs \in Seq(Seq(DOMAIN ByteChars))

VARIABLES
  server,    \* tokenizer, chat format, keys, and whether the scheduler is full
  ask,       \* the request of each connection
  phase,     \* where its handler is
  status,    \* the HTTP status sent, 0 before
  frames,    \* the frames sent; on a socket, in answer to the last message
  job,       \* the request in the scheduler and what was read of its stream
  held,      \* whether the handler holds its Handle
  gone,      \* whether the client left
  outbox,    \* what the client of a socket has yet to send
  inbox,     \* what it sent and the handler has not read
  permits,   \* free embedding slots
  task       \* the blocking task of an embeddings request

vars == <<server, ask, phase, status, frames, job, held, gone, outbox, inbox, permits, task>>

-----------------------------------------------------------------------------
(* Routes.                                                                 *)

ChatPaths == {"/v1/chat/completions", "/v1/messages", "/api/chat"}
TextPaths == {"/v1/completions", "/api/generate", "/completion", "/generate", "/generate_stream"}
Generation == ChatPaths \cup TextPaths
Static == {"/", "/health", "/v1/models", "/v1/stats", "/api/tags", "/api/version"}

Protocol(path) ==
  CASE path \in {"/v1/chat/completions", "/v1/completions", "/v1/embeddings"} -> "openai"
    [] path = "/v1/messages" -> "anthropic"
    [] path \in {"/api/chat", "/api/generate"} -> "ollama"
    [] path = "/completion" -> "llamacpp"
    [] path \in {"/generate", "/generate_stream"} -> "tgi"
    [] OTHER -> "ws"

(* presented_key: the first header that is there speaks for the client.    *)
PresentedKey(r) ==
  LET there == SelectSeq(<<r.bearer, r.apikey, r.subprotocol>>, LAMBDA k : k # "none")
  IN IF there = <<>> THEN "" ELSE Head(there)

(* require_key                                                             *)
Admitted(r) ==
  \/ server.keys = {}
  \/ r.path \in {"/health", "/"}
  \/ PresentedKey(r) # "" /\ PresentedKey(r) \in server.keys

-----------------------------------------------------------------------------
(* The status each format gives an error.                                  *)

Mapped(bad, e) ==
  CASE e = "RateLimit" -> 429
    [] e = "Busy" -> 503
    [] e \in {"Config", "Inference", "InvalidToken"} -> bad
    [] OTHER -> 500

OpenAiStatus(e) ==
  CASE e = "Timeout" -> 504
    [] e = "Cancelled" -> 400
    [] OTHER -> Mapped(400, e)
AnthropicStatus(e) == Mapped(400, e)
OllamaStatus(e) == Mapped(400, e)
LlamaCppStatus(e) == Mapped(400, e)
TgiStatus(e) == Mapped(422, e)

Status(proto, e) ==
  CASE proto = "openai" -> OpenAiStatus(e)
    [] proto = "anthropic" -> AnthropicStatus(e)
    [] proto = "ollama" -> OllamaStatus(e)
    [] proto = "llamacpp" -> LlamaCppStatus(e)
    [] proto = "tgi" -> TgiStatus(e)

-----------------------------------------------------------------------------
(* What a request asks for.                                                *)

(* An override, or the server's default: max is <<>> when it is absent.    *)
Override(r) == IF r.max = <<>> THEN DefaultLimit ELSE r.max[1]
(* n_predict, num_predict: what is not positive means the default.         *)
Predict(r) == IF Override(r) > 0 THEN Override(r) ELSE DefaultLimit

Limit(proto, r) == IF proto \in {"ollama", "llamacpp"} THEN Predict(r) ELSE Override(r)

(* Priority::from_str; the other formats have none.                        *)
PriorityParses(r) == r.priority \in {"", "low", "normal", "high"}

(* SamplingParams::validate                                                *)
Valid(proto, r) == r.knobs = "fine" /\ Limit(proto, r) >= 1

TextOf(blocks) ==
  LET texts == SelectSeq(blocks, LAMBDA b : b.type = "text")
  IN FlattenSeq([i \in DOMAIN texts |-> texts[i].text])

(* The system prompt becomes the leading turn.                             *)
MessagesTurns(r) ==
  (IF TextOf(r.system) = <<>> THEN <<>>
   ELSE <<[role |-> "system", text |-> TextOf(r.system)]>>)
    \o [i \in DOMAIN r.turns |-> [r.turns[i] EXCEPT !.text = TextOf(@)]]

Turns(r) == IF r.path = "/v1/messages" THEN MessagesTurns(r) ELSE r.turns

GenerateText(r) ==
  IF r.path = "/api/generate" /\ r.system # <<>> THEN TextOf(r.system) \o <<"\n">> \o r.text
  ELSE r.text

PromptOf(r) ==
  IF r.path \in ChatPaths THEN EncodeChat(server.tk, server.fmt, Turns(r))
  ELSE Encode(server.tk, GenerateText(r))

Streams(r) ==
  CASE r.path = "/generate_stream" -> TRUE
    [] r.path = "/generate" -> FALSE
    [] Protocol(r.path) = "ollama" -> r.stream # "no"   \* it streams by default
    [] OTHER -> r.stream = "yes"

(* The checks of a handler before it submits.                              *)
Unusable(r) ==
  LET proto == Protocol(r.path)
  IN \/ r.path \in ChatPaths /\ r.turns = <<>>
     \/ r.path \in TextPaths /\ r.text = <<>>
     \/ r.path \in Generation /\ ~Valid(proto, r)
     \/ r.path \in Generation /\ proto = "openai" /\ ~PriorityParses(r)

(* The checks of embeddings.                                               *)
BadInputs(r) ==
  \/ \A i \in DOMAIN r.inputs : r.inputs[i] = <<>>
  \/ Len(r.inputs) > MaxInputs

-----------------------------------------------------------------------------
(* Frames.                                                                 *)

Frame(kind) == [kind |-> kind, text |-> <<>>, reason |-> "none", n |-> 0]
TextFrames(text) == IF text = <<>> THEN <<>> ELSE <<[Frame("text") EXCEPT !.text = text]>>
SentText(fs) == FlattenSeq([i \in DOMAIN fs |-> IF fs[i].kind = "text" THEN fs[i].text ELSE <<>>])

AsOpenAi(reason) == IF reason = "Eos" THEN "stop" ELSE "length"
AnthropicReason(reason) == IF reason = "Eos" THEN "end_turn" ELSE "max_tokens"
OllamaReason(reason) == IF reason = "Eos" THEN "stop" ELSE "length"
TgiReason(reason) == IF reason = "Eos" THEN "eos_token" ELSE "length"
LlamaCppReason(reason) == IF reason = "Eos" THEN "stopped_eos" ELSE "stopped_limit"

Counted(kind, reason, n) == [Frame(kind) EXCEPT !.reason = reason, !.n = n]

(* What each format sends when the stream it reads ends: reason is None    *)
(* if it ended without saying how.                                         *)
OpenAiEnd(reason) ==
  (IF reason = "None" THEN <<>>
   ELSE <<[Frame("finish") EXCEPT !.reason = AsOpenAi(reason)]>>) \o <<Frame("[DONE]")>>
AnthropicEnd(reason, n) ==
  <<Frame("content_block_stop"), Counted("message_delta", AnthropicReason(reason), n),
    Frame("message_stop")>>
OllamaEnd(reason, n) ==
  IF reason = "None" THEN <<>> ELSE <<Counted("done_line", OllamaReason(reason), n)>>
LlamaCppEnd(reason, n) ==
  IF reason = "None" THEN <<>> ELSE <<Counted("stop", LlamaCppReason(reason), n)>>
TgiEnd(reason, n, full) ==
  IF reason = "None" THEN <<>>
  ELSE <<[Counted("generated", TgiReason(reason), n) EXCEPT !.text = full]>>
WsEnd(reason) ==
  <<[Frame("done") EXCEPT !.reason = IF reason = "None" THEN "stop" ELSE AsOpenAi(reason)]>>

EndFrames(proto, reason, n, full) ==
  CASE proto = "openai" -> OpenAiEnd(reason)
    [] proto = "anthropic" -> AnthropicEnd(reason, n)
    [] proto = "ollama" -> OllamaEnd(reason, n)
    [] proto = "llamacpp" -> LlamaCppEnd(reason, n)
    [] proto = "tgi" -> TgiEnd(reason, n, full)
    [] proto = "ws" -> WsEnd(reason)

FirstFrames(proto) ==
  IF proto = "anthropic" THEN <<Frame("message_start"), Frame("content_block_start")>> ELSE <<>>

Reason(proto, reason) ==
  CASE proto \in {"openai", "ws"} -> AsOpenAi(reason)
    [] proto = "anthropic" -> AnthropicReason(reason)
    [] proto = "ollama" -> OllamaReason(reason)
    [] proto = "llamacpp" -> LlamaCppReason(reason)
    [] proto = "tgi" -> TgiReason(reason)

-----------------------------------------------------------------------------
(* The scheduler, as a caller sees it.                                     *)

NoJob == [prompt |-> <<>>, limit |-> 0, refusal |-> "none", said |-> <<>>, taken |-> 0,
          decoder |-> FreshDecoder]
Asked(prompt, limit) == [NoJob EXCEPT !.prompt = prompt, !.limit = limit]

Closed(c) == job[c].said # <<>> /\ Last(job[c].said).kind # "token"
Refusals == IF server.full THEN {"Busy"} ELSE {"RateLimit", "Busy", "Scheduler"}

Say(c, event) ==
  /\ held[c]
  /\ ~Closed(c)
  /\ job' = [job EXCEPT ![c].said = Append(@, event)]
  /\ UNCHANGED <<server, ask, phase, status, frames, held, gone, outbox, inbox, permits, task>>

SayToken(c) ==
  /\ Len(job[c].said) < job[c].limit
  /\ \E t \in DOMAIN TokenBytes[server.tk] : Say(c, [kind |-> "token", token |-> t])

SayDone(c) ==
  \E reason \in {"Eos", "Length", "ContextFull"} :
    /\ reason = "Length" <=> Len(job[c].said) = job[c].limit
    /\ Say(c, [kind |-> "done", reason |-> reason])

SayError(c) == \E e \in {"Timeout", "Inference"} : Say(c, [kind |-> "error", error |-> e])

(* The worker died with the request.                                       *)
FallSilent(c) == Say(c, [kind |-> "silence"])

Said(c, kind) ==
  /\ job[c].taken < Len(job[c].said)
  /\ job[c].said[job[c].taken + 1].kind = kind
Heard(c) == job[c].said[job[c].taken + 1]
Taken(c) == [job EXCEPT ![c].taken = @ + 1]
TokensOf(said) ==
  FlattenSeq([i \in DOMAIN said |->
    IF said[i].kind = "token" THEN <<said[i].token>> ELSE <<>>])

-----------------------------------------------------------------------------
(* Handlers.  An HTTP handler is a future that answers once; its stream is *)
(* read by the response body.                                              *)

Arrived(c) == phase[c] = "arrived"

Answer(c, code, fs) ==
  /\ status' = [status EXCEPT ![c] = code]
  /\ frames' = [frames EXCEPT ![c] = @ \o fs]
  /\ phase' = [phase EXCEPT ![c] = "over"]

(* No key, or a request that a handler turns down before it submits.       *)
TurnAway(c) ==
  /\ Arrived(c)
  /\ LET r == ask[c]
         bad == Status(Protocol(r.path), "Config")
     IN \/ ~Admitted(r) /\ Answer(c, 401, <<>>)
        \/ Admitted(r) /\ Unusable(r) /\ Answer(c, bad, <<>>)
        \/ /\ Admitted(r) /\ r.path = "/v1/embeddings" /\ BadInputs(r)
           /\ Answer(c, OpenAiStatus("Inference"), <<>>)
  /\ UNCHANGED <<server, ask, job, held, gone, outbox, inbox, permits, task>>

Serve(c) ==
  /\ Arrived(c) /\ Admitted(ask[c]) /\ ask[c].path \in Static
  /\ Answer(c, 200, <<>>)
  /\ UNCHANGED <<server, ask, job, held, gone, outbox, inbox, permits, task>>

(* session::submit, and the stream or the collecting that follows.         *)
Submit(c) ==
  LET r == ask[c]
      proto == Protocol(r.path)
      asked == Asked(PromptOf(r), Limit(proto, r))
  IN /\ Arrived(c) /\ Admitted(r) /\ r.path \in Generation /\ ~Unusable(r)
     /\ \/ /\ ~server.full
           /\ held' = [held EXCEPT ![c] = TRUE]
           /\ job' = [job EXCEPT ![c] = asked]
           /\ IF Streams(r)
              THEN /\ phase' = [phase EXCEPT ![c] = "streaming"]
                   /\ status' = [status EXCEPT ![c] = 200]
                   /\ frames' = [frames EXCEPT ![c] = FirstFrames(proto)]
              ELSE /\ phase' = [phase EXCEPT ![c] = "collecting"]
                   /\ UNCHANGED <<status, frames>>
        \/ \E e \in Refusals :
             /\ job' = [job EXCEPT ![c] = [asked EXCEPT !.refusal = e]]
             /\ Answer(c, Status(proto, e), <<>>)
             /\ UNCHANGED held
     /\ UNCHANGED <<server, ask, gone, outbox, inbox, permits, task>>

(* pieces: what came of a token goes out at once, in the format's frame.   *)
StreamToken(c) ==
  /\ phase[c] \in {"streaming", "running"} /\ Said(c, "token")
  /\ \E d \in {Push(server.tk, job[c].decoder, Heard(c).token)} :
       /\ job' = [Taken(c) EXCEPT ![c].decoder = d]
       /\ frames' = [frames EXCEPT ![c] = @ \o TextFrames(d.text)]
  /\ UNCHANGED <<server, ask, phase, status, held, gone, outbox, inbox, permits, task>>

(* A socket waits for its client's next message, a response is complete.   *)
Finished(c) ==
  /\ phase' = [phase EXCEPT ![c] = IF @ = "running" THEN "reading" ELSE "over"]
  /\ held' = [held EXCEPT ![c] = FALSE]
  /\ UNCHANGED <<server, ask, gone, outbox, inbox, permits, task>>

StreamDone(c) ==
  /\ phase[c] \in {"streaming", "running"} /\ Said(c, "done")
  /\ LET sent == frames[c] \o TextFrames(Finish(job[c].decoder))
     IN frames' = [frames EXCEPT ![c] = sent \o
          EndFrames(Protocol(ask[c].path), Heard(c).reason, job[c].taken, SentText(sent))]
  /\ job' = Taken(c)
  /\ Finished(c)
  /\ UNCHANGED status

StreamError(c) ==
  /\ phase[c] \in {"streaming", "running"} /\ Said(c, "error")
  /\ frames' = [frames EXCEPT ![c] = Append(@, Frame("error"))]
  /\ job' = Taken(c)
  /\ Finished(c)
  /\ UNCHANGED status

(* recv gives None: the loop ends, and each format ends as it would have   *)
(* with the reason and the count it began with.                            *)
StreamSilence(c) ==
  /\ phase[c] \in {"streaming", "running"} /\ Said(c, "silence")
  /\ frames' = [frames EXCEPT ![c] = @ \o EndFrames(Protocol(ask[c].path), "None", 0, <<>>)]
  /\ job' = Taken(c)
  /\ Finished(c)
  /\ UNCHANGED status

(* collect                                                                 *)
CollectToken(c) ==
  /\ phase[c] = "collecting" /\ Said(c, "token")
  /\ job' = Taken(c)
  /\ UNCHANGED <<server, ask, phase, status, frames, held, gone, outbox, inbox, permits, task>>

CollectEnd(c) ==
  LET proto == Protocol(ask[c].path)
      toks == TokensOf(SubSeq(job[c].said, 1, job[c].taken))
  IN /\ phase[c] = "collecting"
     /\ \/ /\ Said(c, "done")
           /\ Answer(c, 200, <<[Counted("reply", Reason(proto, Heard(c).reason), Len(toks))
                                EXCEPT !.text = Decode(server.tk, toks)]>>)
        \/ Said(c, "error") /\ Answer(c, Status(proto, Heard(c).error), <<>>)
        \/ Said(c, "silence") /\ Answer(c, Status(proto, "Scheduler"), <<>>)
     /\ job' = Taken(c)
     /\ held' = [held EXCEPT ![c] = FALSE]
     /\ UNCHANGED <<server, ask, gone, outbox, inbox, permits, task>>

-----------------------------------------------------------------------------
(* The client, and the handler that finds it gone: its future is dropped   *)
(* with everything it holds.                                               *)

Disconnect(c) ==
  /\ ~gone[c] /\ phase[c] # "over"
  /\ gone' = [gone EXCEPT ![c] = TRUE]
  /\ UNCHANGED <<server, ask, phase, status, frames, job, held, outbox, inbox, permits, task>>

(* A socket that only reads the stream while a request runs.               *)
BugListening == {"arrived", "streaming", "collecting", "embedding", "reading"}
Listening == {"arrived", "streaming", "collecting", "embedding", "reading", "running"}

Freed(c) == IF phase[c] = "embedding" THEN 1 ELSE 0

Leave(c) ==
  /\ gone[c] /\ phase[c] \in Listening
  /\ permits' = permits + Freed(c)
  /\ phase' = [phase EXCEPT ![c] = "over"]
  /\ held' = [held EXCEPT ![c] = FALSE]
  /\ UNCHANGED <<server, ask, status, frames, job, gone, outbox, inbox, task>>

-----------------------------------------------------------------------------
(* The socket.  A message is a WsRequest if it has a prompt.               *)

Parses(m) == m.json /\ m.prompt # <<>>
Cancels(m) == Parses(m) /\ m.cancel

Upgrade(c) ==
  /\ Arrived(c) /\ Admitted(ask[c]) /\ ask[c].path = "/v1/ws"
  /\ phase' = [phase EXCEPT ![c] = "reading"]
  /\ UNCHANGED <<server, ask, status, frames, job, held, gone, outbox, inbox, permits, task>>

ClientSends(c) ==
  /\ outbox[c] # <<>> /\ ~gone[c] /\ phase[c] \in {"reading", "running"}
  /\ inbox' = [inbox EXCEPT ![c] = Append(@, Head(outbox[c]))]
  /\ outbox' = [outbox EXCEPT ![c] = Tail(@)]
  /\ UNCHANGED <<server, ask, phase, status, frames, job, held, gone, permits, task>>

Read(c) == inbox' = [inbox EXCEPT ![c] = Tail(@)]

(* run_one, as far as the scheduler.                                       *)
RunOne(c, m) ==
  LET text == m.prompt[1]
      asked == Asked(Encode(server.tk, text), Override(m))
      refuse(j) == /\ frames' = [frames EXCEPT ![c] = <<Frame("error")>>]
                   /\ job' = [job EXCEPT ![c] = j]
                   /\ UNCHANGED <<phase, held>>
      good == Valid("ws", m) /\ PriorityParses(m) /\ text # <<>>
  IN \/ ~good /\ refuse(NoJob)
     \/ good /\ \E e \in Refusals : refuse([asked EXCEPT !.refusal = e])
     \/ /\ good /\ ~server.full
        /\ phase' = [phase EXCEPT ![c] = "running"]
        /\ held' = [held EXCEPT ![c] = TRUE]
        /\ job' = [job EXCEPT ![c] = asked]
        /\ frames' = [frames EXCEPT ![c] = <<>>]

(* handle_socket: no request runs.                                         *)
ReadIdle(c) ==
  LET m == Head(inbox[c])
      sends(fs) == /\ frames' = [frames EXCEPT ![c] = fs]
                   /\ job' = [job EXCEPT ![c] = NoJob]
                   /\ UNCHANGED <<phase, held>>
  IN /\ phase[c] = "reading" /\ inbox[c] # <<>>
     /\ Read(c)
     /\ \/ ~Parses(m) /\ sends(<<Frame("error")>>)
        \/ Cancels(m) /\ sends(<<>>)
        \/ Parses(m) /\ ~m.cancel /\ RunOne(c, m)
     /\ UNCHANGED <<server, ask, status, gone, outbox, permits, task>>

(* run_one's select: only a cancel means anything while a request runs.    *)
ReadRunning(c) ==
  LET stops == Cancels(Head(inbox[c]))
  IN /\ phase[c] = "running" /\ inbox[c] # <<>>
     /\ Read(c)
     /\ phase' = [phase EXCEPT ![c] = IF stops THEN "reading" ELSE @]
     /\ held' = [held EXCEPT ![c] = ~stops]
     /\ frames' = [frames EXCEPT ![c] = IF stops
                     THEN Append(@, [Frame("done") EXCEPT !.reason = "cancelled"]) ELSE @]
     /\ UNCHANGED <<server, ask, status, job, gone, outbox, permits, task>>

-----------------------------------------------------------------------------
(* Embeddings: a permit, and a blocking task that nothing outside stops.   *)

NoTask == [left |-> 0, end |-> "none"]
Working(c) == task[c].left > 0 /\ task[c].end = "none"

(* let _ = ... would give the permit back at once.                         *)
BugTakes == 0
Takes == 1

Embed(c) ==
  LET r == ask[c]
  IN /\ Arrived(c) /\ Admitted(r) /\ r.path = "/v1/embeddings" /\ ~BadInputs(r)
     /\ \/ /\ permits = 0
           /\ Answer(c, OpenAiStatus("Busy"), <<>>)
           /\ UNCHANGED <<permits, task>>
        \/ /\ permits > 0
           /\ permits' = permits - Takes
           /\ task' = [task EXCEPT ![c].left = Len(r.inputs)]
           /\ phase' = [phase EXCEPT ![c] = "embedding"]
           /\ UNCHANGED <<status, frames>>
     /\ UNCHANGED <<server, ask, job, held, gone, outbox, inbox>>

(* The deadline is looked at before each input; a pass may fail or panic.  *)
EmbedOne(c) ==
  /\ Working(c)
  /\ \/ task' = [task EXCEPT ![c].left = @ - 1, ![c].end = IF task[c].left = 1 THEN "ok" ELSE @]
     \/ \E e \in {"Timeout", "Inference"} : task' = [task EXCEPT ![c].end = e]
  /\ UNCHANGED <<server, ask, phase, status, frames, job, held, gone, outbox, inbox, permits>>

Embedded(c) ==
  /\ phase[c] = "embedding" /\ task[c].end # "none"
  /\ Answer(c, IF task[c].end = "ok" THEN 200 ELSE OpenAiStatus(task[c].end), <<>>)
  /\ permits' = permits + Takes
  /\ UNCHANGED <<server, ask, job, held, gone, outbox, inbox, task>>

-----------------------------------------------------------------------------
Init ==
  \E s \in Scenarios :
    /\ server = s.server
    /\ ask = s.ask
    /\ phase = [c \in Conns |-> IF s.ask[c].path = "none" THEN "over" ELSE "arrived"]
    /\ outbox = [c \in Conns |-> s.ask[c].messages]
    /\ status = [c \in Conns |-> 0]
    /\ frames = [c \in Conns |-> <<>>]
    /\ job = [c \in Conns |-> NoJob]
    /\ held = [c \in Conns |-> FALSE]
    /\ gone = [c \in Conns |-> FALSE]
    /\ inbox = [c \in Conns |-> <<>>]
    /\ permits = EmbeddingSlots
    /\ task = [c \in Conns |-> NoTask]

Streaming(c) == StreamToken(c) \/ StreamDone(c) \/ StreamError(c) \/ StreamSilence(c)
Opened(c) == TurnAway(c) \/ Serve(c) \/ Submit(c) \/ Upgrade(c) \/ Embed(c) \/ ReadIdle(c)
Awaited(c) == \/ Streaming(c) \/ CollectToken(c) \/ CollectEnd(c) \/ ReadRunning(c)
              \/ Embedded(c) \/ Leave(c)
Scheduled(c) == SayToken(c) \/ SayDone(c) \/ SayError(c) \/ FallSilent(c)

Next ==
  \E c \in Conns :
    \/ Opened(c) \/ Awaited(c) \/ EmbedOne(c) \/ Scheduled(c)
    \/ ClientSends(c) \/ Disconnect(c)

Spec == Init /\ [][Next]_vars

(* A handler that awaits is polled when what it awaits is there, and a     *)
(* blocking task runs on; nothing makes a client or a request go on.       *)
FairSpec == Spec /\ \A c \in Conns : WF_vars(Awaited(c)) /\ WF_vars(EmbedOne(c))

-----------------------------------------------------------------------------
Codes == {0, 200, 400, 401, 422, 429, 500, 503, 504}
Endings == {"[DONE]", "message_stop", "done_line", "stop", "generated", "done", "error", "reply"}
Natural == {"stop", "end_turn", "eos_token", "stopped_eos"}

\* Every variable has its type; at most the permits there are, are free (the
\* semaphore of ApiState); a stream is read no further than it was written.
TypeOK ==
  /\ permits \in 0..EmbeddingSlots
  /\ \A c \in Conns :
       /\ phase[c] \in Listening \cup {"over"}
       /\ status[c] \in Codes
       /\ job[c].taken \in 0..Len(job[c].said)
       /\ Range(job[c].decoder.pending) \subseteq Bytes
       /\ held[c] => phase[c] \in {"streaming", "collecting", "running"}
       /\ task[c].left \in Nat /\ task[c].end \in {"none", "ok", "Timeout", "Inference"}

\* What a client is told is what the scheduler said, in each format and with
\* each tokenizer: an answer ends once and nothing follows its end; the text
\* sent so far begins the reply, however the stream decoder held characters
\* back, and is the whole reply at the end; only an end of sequence is told as
\* one; the count is that of the tokens and not of the pieces; an error is never
\* told as a reply; a full queue and a full quota are 503 and 429 everywhere.
\* Bytes that are no text at all are left out but for byte-level BPE.
Readable(toks) ==
  \/ server.tk = "bpe"
  \/ ~Broken(BytesOf(server.tk, toks))

HeardEnd(c) == Closed(c) /\ job[c].taken = Len(job[c].said)

TellsText(c) ==
  LET toks == TokensOf(SubSeq(job[c].said, 1, job[c].taken))
      whole == Decode(server.tk, toks)
      last == Last(frames[c])
  IN Readable(toks) =>
       /\ IsPrefix(SentText(frames[c]), whole)
       /\ HeardEnd(c) /\ Last(job[c].said).kind = "done" =>
            IF last.kind = "reply" THEN last.text = whole
            ELSE /\ SentText(frames[c]) = whole
                 /\ last.kind = "generated" => last.text = whole

TellsEnd(c) ==
  LET fs == frames[c]
      end == Last(job[c].said)
      toks == TokensOf(job[c].said)
      reasons == {fs[i].reason : i \in DOMAIN fs} \ {"none"}
  IN HeardEnd(c) =>
       /\ end.kind = "done" =>
            /\ fs # <<>> /\ Last(fs).kind \in Endings \ {"error"}
            /\ Cardinality(reasons) = 1
            /\ end.reason = "Eos" <=> reasons \subseteq Natural
            /\ \A i \in DOMAIN fs : fs[i].n \in {0, Len(toks)}
       /\ end.kind = "error" =>
            /\ reasons = {}
            /\ IF status[c] \in {0, 200} THEN Last(fs).kind = "error" ELSE status[c] >= 400

Faithful ==
  \A c \in Conns :
    /\ \A i \in DOMAIN frames[c] : frames[c][i].kind \in Endings => i = Len(frames[c])
    /\ TellsText(c)
    /\ TellsEnd(c)
    /\ phase[c] = "over" /\ job[c].refusal # "none" /\ ask[c].path \in Generation =>
         /\ job[c].refusal = "RateLimit" <=> status[c] = 429
         /\ job[c].refusal = "Busy" <=> status[c] = 503

\* What the model is given is what the client wrote.  For a conversation, in any
\* format and with any tokenizer: the tokens read back as the documented
\* transcript, the text of every turn in order and nothing at the seams; and each
\* marker the vocabulary holds is there as a token exactly where the format puts
\* it, however often the text of a turn spells it (chat: "the only end-of-turn
\* token is the one this module placed"), so long as SentencePiece's other entries
\* do not merge into it.  For a text: its bytes, in order, and no marker; the
\* pre-tokenizer written by hand splits as its pattern would; the heap of merges,
\* its stale entries skipped, ends where merging the best pair each time would.
\* In front is one begin-of-sequence where the checkpoint asks for it, and with
\* SentencePiece then its space mark: also before a marker, though encode_chat's
\* comment says that encode("") is the leading token "and nothing else".
PastBos(p) == IF server.tk = "spm" /\ AddBos THEN Tail(p) ELSE p

SpelledOut(tok) ==
  IF \/ tok \in Markers[server.tk] \cup {BOS, EOS}
     \/ server.tk = "spm" /\ tok \in DOMAIN Scores
  THEN Spelling(tok) ELSE tok
Reads(p, text) ==
  FlattenSeq([i \in DOMAIN p |-> SpelledOut(p[i])])
    = Spelling(IF server.tk = "spm" THEN Normalized(text, TRUE) ELSE text)

Mentions(m, text) == Cardinality({i \in DOMAIN text : IsPrefix(m, SubSeq(text, i, Len(text)))})
Placements(m, p) == Cardinality({i \in DOMAIN p : p[i] = m})

ChatPrompted(turns, p) ==
  LET end == TurnEnd(server.tk, server.fmt)
      markup == [i \in DOMAIN turns |-> [turns[i] EXCEPT !.text = <<>>]]
  IN /\ Reads(p, Transcript(server.fmt, turns, end))
     /\ \A m \in Markers[server.tk] \cup {BOS, EOS} :
          Placements(m, p) = Mentions(m, Transcript(server.fmt, markup, end))

TextPrompted(text, p) ==
  /\ Reads(p, text)
  /\ \A m \in Markers[server.tk] \cup {BOS, EOS} : Placements(m, p) = 0
  /\ server.tk = "bpe" => Split(text) = PatternSplit(text)
  /\ server.tk = "spm" => LET marked == Normalized(text, TRUE)
                          IN Symbols(marked) = Resegmented(Characters(marked))

Given(c) == ask[c].path \in Generation /\ job[c].prompt # <<>> /\ job[c].said = <<>>

Prompted ==
  \A c \in Conns :
    LET r == ask[c]
        p == PastBos(job[c].prompt)
    IN Given(c) =>
         /\ server.tk = "spm" /\ AddBos => Head(job[c].prompt) = BOS
         /\ IF r.path \in ChatPaths THEN ChatPrompted(Turns(r), p)
            ELSE TextPrompted(GenerateText(r), p)

\* Embedding slots: a permit is free or some handler waits on its task with it
\* (api: _permit), so the tasks at work are no more than the slots, but for those
\* whose client left: they run on without a permit.
SlotsHeld ==
  /\ TypeOK
  /\ permits + Cardinality({c \in Conns : phase[c] = "embedding"}) = EmbeddingSlots
  /\ Cardinality({c \in Conns : Working(c) /\ ~gone[c]}) <= EmbeddingSlots

\* A Handle is let go, which cancels the request, once its stream ended, its
\* client left or a cancel was sent that the socket understands, whatever the
\* request itself does; and a handler that waits for embeddings is done one day,
\* its permit with it.
WantsStop(c) == \E i \in DOMAIN inbox[c] : Cancels(inbox[c][i])
Answered ==
  \A c \in Conns :
    /\ held[c] /\ (gone[c] \/ Closed(c) \/ WantsStop(c)) ~> ~held[c]
    /\ phase[c] = "embedding" ~> phase[c] = "over"

\* "Cancellation is real: a {"cancel": true} message ... drops the scheduler
\* handle" (websocket): the step that reads one while a request runs lets go.
CancelOnly(m) == m.json /\ m.prompt = <<>> /\ m.cancel
CancelDrops ==
  [][\A c \in Conns :
       /\ phase[c] = "running" /\ inbox[c] # <<>> /\ inbox'[c] = Tail(inbox[c])
       /\ CancelOnly(Head(inbox[c]))
       => ~held'[c]]_vars
=============================================================================
