-------------------------------- MODULE Wire --------------------------------
(***************************************************************************)
(* What goes over the wire between RoleN and a provider: requests built    *)
(* from the provider-agnostic history (rolen-providers/src/chat.rs) in the *)
(* three formats, replies read back, the tokens they report and what those *)
(* cost.  JSON values are records here, a text is a sequence of pieces: a  *)
(* word, or a JSON object {"name": <tool>, "arguments": ..}.               *)
(* "Mutant" definitions are the next definition with a plausible mistake.  *)
(***************************************************************************)
EXTENDS Integers, Sequences, SequencesExt, Ordered

Absent == -1 \* a number, or a rate, that is not there
Or(n, other) == IF n = Absent THEN other ELSE n
Lesser(m, n) == IF m < n THEN m ELSE n
Less(m, n) == IF m < n THEN 0 ELSE m - n \* saturating_sub

KnownTools == {"read_file", "submit_write"} \* two of the six
Word == "word"
Ellipsis == <<"...">>

-----------------------------------------------------------------------------
(* The history.                                                            *)

Entry(is, text, calls, answers) ==
  [is |-> is, text |-> text, calls |-> calls, answers |-> answers]
SystemSays(text)       == Entry("system", text, <<>>, <<>>)
UserSays(text)         == Entry("user", text, <<>>, <<>>)
ModelSays(text, calls) == Entry("assistant", text, calls, <<>>)
ToolsSay(answers)      == Entry("results", <<>>, <<>>, answers)

\* tools::execute: an outcome carries the id and the name of its call; "of" is
\* the call that ran, which the outcome's content tells.
Outcome(call) == [id |-> call.id, tool |-> call.tool, of |-> call]

-----------------------------------------------------------------------------
(* Requests.                                                               *)

\* build_tools_body_styled: arguments are a string for OpenAI, an object for
\* Ollama, whose tool messages carry the name as well.
OpenAiCall(c, style) ==
  [id |-> c.id, tool |-> c.tool, args |-> c.args,
   form |-> IF style = "openai" THEN "string" ELSE "object"]

OpenAiMessage(role, content, calls) ==
  [role |-> role, content |-> content, calls |-> calls]

OpenAiMessages(m, style) ==
  CASE m.is = "results" ->
         [i \in DOMAIN m.answers |->
            [role |-> "tool", of |-> m.answers[i].of, id |-> m.answers[i].id,
             name |-> IF style = "ollama" THEN m.answers[i].tool ELSE ""]]
    [] m.is = "assistant" /\ m.calls = <<>> ->
         <<OpenAiMessage("assistant", IF m.text = <<>> THEN Ellipsis ELSE m.text, <<>>)>>
    [] m.is = "assistant" /\ m.calls # <<>> ->
         <<OpenAiMessage("assistant", m.text,
             [i \in DOMAIN m.calls |-> OpenAiCall(m.calls[i], style)])>>
    [] OTHER -> <<OpenAiMessage(m.is, m.text, <<>>)>>

OpenAiBody(h, style) == FlattenSeq([i \in DOMAIN h |-> OpenAiMessages(h[i], style)])

\* build_tools_body: system messages move to the top, results are blocks of a
\* user message.
AnthropicMessage(m) ==
  CASE m.is = "user" -> [role |-> "user", text |-> m.text, uses |-> <<>>, results |-> <<>>]
    [] m.is = "assistant" -> [role |-> "assistant", text |-> m.text, uses |-> m.calls, results |-> <<>>]
    [] m.is = "results" -> [role |-> "user", text |-> <<>>, uses |-> <<>>, results |-> m.answers]

AnthropicBody(h) ==
  LET system == Kept(h, {i \in DOMAIN h : h[i].is = "system"})
      rest   == Kept(h, {i \in DOMAIN h : h[i].is # "system"})
  IN  [system   |-> [i \in DOMAIN system |-> system[i].text],
       messages |-> [i \in DOMAIN rest |-> AnthropicMessage(rest[i])]]

-----------------------------------------------------------------------------
(* Replies.  A raw call is [named, given, tool, args]: whether it has a    *)
(* name and an id, and whether its arguments are whole or cut off.         *)

\* parse_openai_tool_calls: nameless calls are left out, missing ids are made
\* from the position, arguments that are no JSON become {}.
\* Mutant (WireTellsHistory): counted before the call is taken.
IdAtZero(raw, turn, i) == IF raw.given THEN <<"given", turn, i>> ELSE <<"call", 0, 0>>
OpenAiId(raw, turn, i) == IF raw.given THEN <<"given", turn, i>> ELSE <<"call", 0, i - 1>>

OpenAiCalls(raws, turn) ==
  LET Read(i) == [id |-> OpenAiId(raws[i], turn, i), tool |-> raws[i].tool,
                  args |-> IF raws[i].args = "cut" THEN "none" ELSE raws[i].args]
      named == InOrder({i \in DOMAIN raws : raws[i].named}, <)
  IN  [k \in DOMAIN named |-> Read(named[k])]

\* parse_tools_response of anthropic.rs: arguments are objects, an id that is
\* missing is empty.
AnthropicCalls(raws, turn) ==
  LET Read(i) == [id |-> IF raws[i].given THEN <<"given", turn, i>> ELSE <<"", 0, 0>>,
                  tool |-> raws[i].tool, args |-> raws[i].args]
      named == InOrder({i \in DOMAIN raws : raws[i].named}, <)
  IN  [k \in DOMAIN named |-> Read(named[k])]

\* salvage_tool_calls: the JSON objects in a text that name a known tool.
Salvaged(text) ==
  LET tools == Kept(text, {i \in DOMAIN text : text[i] \in KnownTools})
  IN  [i \in DOMAIN tools |-> [id |-> <<"salvaged", 0, i - 1>>, tool |-> tools[i], args |-> "whole"]]

-----------------------------------------------------------------------------
(* Tokens.                                                                 *)

\* A usage report counts prompt tokens (input; for Anthropic those that had
\* nothing to do with the cache), cache reads, cache writes, the writes of
\* each of the two lifetimes, and the output.

OpenAiTokens(u) ==
  [input |-> Or(u.input, 0), read |-> Lesser(Or(u.read, 0), Or(u.input, 0)), five |-> 0, hour |-> 0,
   output |-> Or(u.output, 0)]

OllamaTokens(u) ==
  [input |-> Or(u.input, 0), read |-> 0, five |-> 0, hour |-> 0, output |-> Or(u.output, 0)]

AnthropicTokens(u) ==
  LET flat == u.five = Absent /\ u.hour = Absent
      five == IF flat THEN Or(u.written, 0) ELSE Or(u.five, 0)
      hour == IF flat THEN 0 ELSE Or(u.hour, 0)
  IN  [input |-> Or(u.input, 0) + Or(u.read, 0) + five + hour,
       read |-> Or(u.read, 0), five |-> five, hour |-> hour, output |-> Or(u.output, 0)]

-----------------------------------------------------------------------------
(* What comes back: an HTTP answer is "ok", "busy" (429, 500, 502, 503,    *)
(* 529, a timeout), "refused" (another status) or "unsent" (no endpoint,   *)
(* key or connection); its body is JSON of the expected shape or garbled.  *)

NoTokens == [input |-> 0, read |-> 0, five |-> 0, hour |-> 0, output |-> 0]
Failed(why) == [error |-> why, text |-> <<>>, calls |-> <<>>, tokens |-> NoTokens]
Parsed(text, calls, tokens) == [error |-> "", text |-> text, calls |-> calls, tokens |-> tokens]
Received(r, parsed) == IF r.http # "ok" THEN Failed(r.http)
                       ELSE IF r.garbled THEN Failed("parse") ELSE parsed

\* parse_tools_response, parse_tools_chat.
OpenAiToolsReply(r, turn)    == Parsed(r.text, OpenAiCalls(r.calls, turn), OpenAiTokens(r.usage))
OllamaToolsReply(r, turn)    == Parsed(r.text, OpenAiCalls(r.calls, turn), OllamaTokens(r.usage))
AnthropicToolsReply(r, turn) == Parsed(r.text, AnthropicCalls(r.calls, turn), AnthropicTokens(r.usage))

\* chat_tools of each client.
OpenAiChatTools(r, turn)    == Received(r, OpenAiToolsReply(r, turn))
OllamaChatTools(r, turn)    == Received(r, OllamaToolsReply(r, turn))
AnthropicChatTools(r, turn) == Received(r, AnthropicToolsReply(r, turn))

\* client::chat_tools.
ChatTools(api, r, turn) == CASE api = "openai"    -> OpenAiChatTools(r, turn)
                             [] api = "ollama"    -> OllamaChatTools(r, turn)
                             [] api = "anthropic" -> AnthropicChatTools(r, turn)

\* The plain chat: Anthropic's parser insists on a text that is not empty.
OpenAiReply(r)    == Parsed(r.text, <<>>, OpenAiTokens(r.usage))
OllamaReply(r)    == Parsed(r.text, <<>>, OllamaTokens(r.usage))
AnthropicReply(r) == IF r.text = <<>> THEN Failed("parse")
                     ELSE Parsed(r.text, <<>>, AnthropicTokens(r.usage))

OpenAiChat(r)    == Received(r, OpenAiReply(r))
OllamaChat(r)    == Received(r, OllamaReply(r))
AnthropicChat(r) == Received(r, AnthropicReply(r))

\* client::chat.
PlainChat(api, r) == CASE api = "openai"    -> OpenAiChat(r)
                       [] api = "ollama"    -> OllamaChat(r)
                       [] api = "anthropic" -> AnthropicChat(r)

-----------------------------------------------------------------------------
(* What tokens cost.                                                       *)

\* Mutant (BillsEachTokenOnce): what is written to the cache is fresh as well.
FreshInputButReads(t) == Less(t.input, t.read)
FreshInput(t) == Less(Less(Less(t.input, t.read), t.five), t.hour)

\* Price::cost counts each bucket up to the whole input.
Buckets(t) == [fresh |-> FreshInput(t), read |-> Lesser(t.read, t.input),
               five |-> Lesser(t.five, t.input), hour |-> Lesser(t.hour, t.input)]

\* Pricing::resolve: what runs on one's own hardware is free whatever has been
\* entered; anything else is billed at the entered rates, if there are any.
Billed(kind, rates) == kind # "local" /\ rates.input # Absent

Cost(kind, rates, t) ==
  LET b == Buckets(t)
  IN  IF Billed(kind, rates)
      THEN b.fresh * rates.input + b.read * Or(rates.read, rates.input)
           + b.five * Or(rates.five, rates.input) + b.hour * Or(rates.hour, rates.input)
           + t.output * rates.output
      ELSE 0
=============================================================================
