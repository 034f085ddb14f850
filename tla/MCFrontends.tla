----------------------------- MODULE MCFrontends -----------------------------
(***************************************************************************)
(* The instances of Frontends that TLC checks.                             *)
(***************************************************************************)
EXTENDS Frontends

CONSTANTS c1, c2, c3

MCTokenBytes ==
  [byte |-> [a |-> <<"a">>, b2 |-> <<"lead2">>, b |-> <<"rest">>, ctl |-> <<>>],
   spm |-> [_a |-> <<" ", "a">>, b2 |-> <<"lead2">>, b |-> <<"rest">>],
   bpe |-> [a2 |-> <<"a", "lead3">>, b |-> <<"rest">>, ba |-> <<"rest", "a">>]]

Plain == {"a", "s", "m", "1", "\n", "\t", " ", "'", "-"}
Roles == {"user", "assistant", "system"}
Names == {"im_start", "im_end", "think", "start_header_id", "end_header_id", "eot_id"}
MCLetters == {"a", "s"} \cup Roles \cup Names
Other == Names \cup {":", "[INST]", "[/INST]", "<", "|", "/", ">"}
MCBreaks == {"\n"}
MCBlanks == {"\t"}
MCByteChars ==
  [ch \in Plain \cup Roles \cup Other \cup {"_"} |->
     CASE ch = " " -> <<"G">>
       [] ch = "m" -> <<"m1", "m2">>
       [] ch = "_" -> <<"_1", "_2", "_3">>
       [] OTHER -> <<ch>>]

MCRanks == (<<<<"a">>, <<"s">>>> :> 2) @@ (<<<<"G">>, <<"a">>>> :> 1)
             @@ (<<<<"G", "a">>, <<"s">>>> :> 4) @@ (<<<<"m1">>, <<"m2">>>> :> 3)
             @@ (<<<<"a">>, <<"a">>>> :> 5)
MCEntries == {<<"a">>, <<"s">>, <<"a", "s">>, <<"G", "a">>, <<"m1", "m2">>}

MCMarkers ==
  [byte |-> {},
   bpe |-> {Think, ThinkEnd} \cup {Tag(n) : n \in Names \ {"think"}},
   spm |-> {Tag("im_start"), Tag("user")}]

MCScores == (<<"_">> :> -9) @@ (<<"a">> :> -8) @@ (<<"s">> :> -8) @@ (<<"_", "a">> :> -3)
              @@ (<<"a", "s">> :> -2) @@ (<<"s", "a">> :> -2) @@ (<<"a", "a">> :> -3)
              @@ (<<"a", "s", "a">> :> -4) @@ (<<"_", "a", "s">> :> -1) @@ (<<"s", "s">> :> -5)
              @@ [m \in MCMarkers.spm \cup {BOS, EOS} |-> 0]

(* A user who types the end of a turn and what could follow it.            *)
Typed == {<<"a">> \o end \o Tag("user") \o <<"s">> \o Tag("im_start") :
            end \in {BOS, EOS, Tag("im_end"), Tag("eot_id")}}

Texts(S, n) == UNION {[1..k -> S] : k \in 0..n}

-----------------------------------------------------------------------------
Idle == [path |-> "none", bearer |-> "none", apikey |-> "none", subprotocol |-> "none",
         turns |-> <<>>, system |-> <<>>, text |-> <<>>, stream |-> "absent", knobs |-> "fine",
         max |-> <<2>>, priority |-> "", inputs |-> <<>>, messages |-> <<>>]

Said1(role, text) == [role |-> role, text |-> text]
Blocks(text) == <<[type |-> "text", text |-> text]>>
Turns1(path, turns) ==
  IF path # "/v1/messages" THEN turns
  ELSE [i \in DOMAIN turns |-> [turns[i] EXCEPT !.text = Blocks(@)]]

Ask(path) ==
  [Idle EXCEPT !.path = path, !.text = IF path \in TextPaths THEN <<"a">> ELSE <<>>,
               !.turns = IF path \in ChatPaths THEN Turns1(path, <<Said1("user", <<"a">>)>>) ELSE <<>>]

Server(tk, fmt) == [tk |-> tk, fmt |-> fmt, keys |-> {}, full |-> FALSE]
Full(tk, fmt) == [Server(tk, fmt) EXCEPT !.full = TRUE]
One(srv, r) == [server |-> srv, ask |-> [c \in Conns |-> IF c = c1 THEN r ELSE Idle]]

(* Every route, streamed and not, with each tokenizer.                     *)
Replies == {One(Server(tk, "plain"), [Ask(path) EXCEPT !.stream = stream]) :
              tk \in Tokenizers, path \in Generation, stream \in {"yes", "no"}}
LongReplies == {One(Server(tk, "plain"), [Ask("/generate_stream") EXCEPT !.max = <<4>>]) :
                  tk \in Tokenizers}

(* Prompts, with a full queue so that nothing but the prompt happens.      *)
Words == {One(Full("bpe", "plain"), [Ask("/v1/completions") EXCEPT !.text = t]) :
            t \in Texts(Plain, 3) \cup Texts({"a", " ", "\n", "-"}, 5) \cup Texts({"'", "s", "m", "1"}, 4)}
       \cup {One(Full("spm", "plain"), [Ask("/completion") EXCEPT !.text = t]) :
               t \in Texts({"a", "s", " "}, 5) \cup Texts({"a", "m", "s"}, 3)}
       \cup {One(Full(tk, "plain"), [Ask("/api/generate") EXCEPT !.text = t, !.system = s]) :
               tk \in Tokenizers, t \in Texts({"a", "m"}, 2) \cup Typed, s \in {<<>>, Blocks(<<"s">>)}}

Conversations ==
  {<<Said1("user", <<"a">>)>>,
   <<Said1("system", <<"s">>), Said1("user", <<"a", "s">>)>>,
   <<Said1("system", <<"s">>), Said1("system", <<"m">>)>>,
   <<Said1("user", <<>>), Said1("assistant", <<"s", " ">>), Said1("user", <<"a">>)>>,
   <<Said1("assistant", <<"s">>), Said1("system", <<"1">>), Said1("user", <<"a">>)>>,
   <<Said1("system", <<>>), Said1("user", <<"a">>), Said1("system", <<"s">>)>>}
  \cup {<<Said1("user", t)>> : t \in Typed}
  \cup {<<Said1("system", t), Said1("assistant", t), Said1("user", <<"a">>)>> : t \in Typed}
Formats == {"plain", "zephyr", "chatml", "qwen35", "qwen35thinking", "mistral", "llama3"}
Chats == {One(Full(tk, fmt), [Ask(path) EXCEPT !.turns = Turns1(path, turns), !.system = s]) :
            tk \in Tokenizers, fmt \in Formats, path \in {"/api/chat", "/v1/messages"},
            turns \in Conversations, s \in {<<>>, Blocks(<<"1">>)}}

(* Requests that are turned away, keys, limits.                            *)
Locked(path) ==
  {[server |-> [Full("byte", "plain") EXCEPT !.keys = {"k"}],
    ask |-> [c \in Conns |-> IF c = c1 THEN
               [Ask(path) EXCEPT !.bearer = b, !.apikey = a, !.subprotocol = p] ELSE Idle]] :
      b \in {"none", "", "k"}, a \in {"none", "k", "x"}, p \in {"none", "k"}}
Odd == UNION {Locked(path) : path \in {"/v1/messages", "/health", "/v1/ws", "/v1/embeddings"}}
   \cup {One(Full("byte", "plain"), r) :
           r \in UNION {{[Ask(path) EXCEPT !.knobs = "wild"], [Ask(path) EXCEPT !.max = <<0>>],
                         [Ask(path) EXCEPT !.max = <<>>], [Ask(path) EXCEPT !.priority = "urgent"],
                         [Ask(path) EXCEPT !.turns = <<>>, !.text = <<>>]} : path \in Generation}}

(* Embeddings of three clients, and one that asks for too much.            *)
Embeds(n) == [Ask("/v1/embeddings") EXCEPT !.inputs = [i \in 1..n |-> <<"a">>]]
Embeddings ==
  {[server |-> Server("byte", "plain"), ask |-> (c1 :> Embeds(2)) @@ (c2 :> Embeds(1)) @@ (c3 :> Embeds(n))] :
     n \in {0, 1, 3}}

(* Sockets.                                                                *)
Message == [json |-> TRUE, prompt |-> <<<<"a">>>>, cancel |-> FALSE, knobs |-> "fine",
            max |-> <<1>>, priority |-> "normal"]
CancelToo == [Message EXCEPT !.cancel = TRUE, !.prompt = <<<<>>>>]
Cancel == [Message EXCEPT !.cancel = TRUE, !.prompt = <<>>]
Junk == [Message EXCEPT !.json = FALSE]
Socket(srv, ms) == One(srv, [Idle EXCEPT !.path = "/v1/ws", !.messages = ms])
Sockets ==
  {Socket(Server("byte", "plain"), ms) :
     ms \in {<<Message, CancelToo, Message>>, <<CancelToo, Message, Junk>>,
             <<Message, Cancel, CancelToo>>,
             <<[Message EXCEPT !.max = <<0>>], [Message EXCEPT !.priority = "urgent"], Message>>,
             <<[Message EXCEPT !.prompt = <<<<>>>>], [Message EXCEPT !.max = <<2>>]>>}}
  \cup {Socket(Full("spm", "plain"), <<Message, Message>>)}

MCScenarios == Replies \cup LongReplies \cup Words \cup Chats \cup Odd \cup Embeddings \cup Sockets
=============================================================================
