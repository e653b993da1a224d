---------------------------- MODULE RequestOptions ----------------------------
(***************************************************************************)
(* What a chat request asks for beside its conversation, from the client's *)
(* dialect to the upstream's: the tools and how they may be used, the JSON *)
(* format, the token cap and the system prompt with its cache breakpoints  *)
(* (to_chat_request of openai_compat.py and anthropic_compat.py, and       *)
(* _build_payload of the providers).                                       *)
(***************************************************************************)
EXTENDS Naturals, Sequences, SequencesExt, FiniteSets

CONSTANTS
  Tools,        \* the client's functions
  MaxSystem     \* bound: the system messages, or the blocks of the system prompt

ASSUME OptionsAssumption ==
  /\ MaxSystem \in Nat
  /\ Tools \intersect {"unset", "auto", "none", "required", "any", "json_response"} = {}

VARIABLE asked  \* the request a client sent; its dialect is "none" before it did

Unset == "unset"
NoCap == 0
Separator == 0  \* a blank line between two system messages

\* ChatRequest: what all dialects become, and what /v1/chat takes.
ChatRequest ==
  [dialect |-> "native", tools |-> {}, tool_choice |-> Unset, parallel |-> TRUE,
   response_format |-> Unset, max_tokens |-> NoCap, max_completion_tokens |-> NoCap,
   system |-> <<>>, system_blocks |-> <<>>]

\* ChatCompletionsRequest: with the deprecated functions and function_call.
ChatCompletionsRequest ==
  [dialect |-> "openai", tools |-> {}, functions |-> {}, tool_choice |-> Unset,
   function_call |-> Unset, parallel |-> TRUE, response_format |-> Unset,
   max_tokens |-> NoCap, max_completion_tokens |-> NoCap]

\* AnthropicMessagesRequest: the switch of parallel calls is a field of tool_choice.
AnthropicMessagesRequest ==
  [dialect |-> "anthropic", tools |-> {}, type |-> Unset, name |-> Unset,
   disable_parallel |-> FALSE, max_tokens |-> 1, system |-> <<>>]

Formats == {Unset, "text", "json_object", "json_schema"}
SystemTexts == UNION {[1..n -> [full : BOOLEAN, mark : BOOLEAN]] : n \in 0..MaxSystem}

\* The requests clients send; a choice is only made among tools.
Chosen(ts) == IF ts = {} THEN {Unset} ELSE {Unset, "auto", "none", "required"} \union ts

WithTools(ts, c, par, f, m, mc) ==
  [ChatCompletionsRequest EXCEPT
     !.tools = ts, !.tool_choice = c, !.parallel = par, !.response_format = f,
     !.max_tokens = m, !.max_completion_tokens = mc]
WithFunctions(fs, c, ts, tc) ==
  [ChatCompletionsRequest EXCEPT
     !.functions = fs, !.function_call = c, !.tools = ts, !.tool_choice = tc]
Messages(ts, c, d) ==
  [AnthropicMessagesRequest EXCEPT !.tools = ts, !.type = c, !.disable_parallel = d]
MessagesForcing(f, d) == [Messages(Tools, "tool", d) EXCEPT !.name = f]

ToolRequests ==
  UNION {{WithTools(ts, c, par, f, m, mc) : c \in Chosen(ts)} :
         ts \in SUBSET Tools, par \in BOOLEAN, f \in Formats, m \in {NoCap, 1}, mc \in {NoCap, 2}}
FunctionRequests ==
  UNION {UNION {{WithFunctions(fs, c, ts, tc) : c \in Chosen(fs) \ {"required"}} :
                tc \in IF ts = {} THEN {Unset} ELSE Chosen(ts) \ {Unset}} :
         fs \in SUBSET Tools, ts \in SUBSET Tools}
ChoosingRequests ==
  UNION {{Messages(ts, c, d) : c \in {"auto", "none", "any"}} :
         ts \in (SUBSET Tools) \ {{}}, d \in BOOLEAN}
ForcingRequests == UNION {{MessagesForcing(f, d) : f \in Tools} : d \in BOOLEAN}
PromptedRequests ==
  {Messages({}, Unset, FALSE)}
  \union {[AnthropicMessagesRequest EXCEPT !.system = s] : s \in SystemTexts}
  \union {[ChatRequest EXCEPT !.system = s] : s \in SystemTexts}

Requests ==
  ToolRequests \union FunctionRequests \union ChoosingRequests \union ForcingRequests
    \union PromptedRequests

OptionsInit == asked = [dialect |-> "none"]
ReceiveRequest == asked.dialect = "none" /\ asked' \in Requests
OptionsNext == ReceiveRequest

OptionsSpec == OptionsInit /\ [][OptionsNext]_asked

-----------------------------------------------------------------------------
(* From the client to the pipeline *)

\* The deprecated fields become the modern ones, which win when both are there.
OpenAIToChatRequest(r) ==
  [ChatRequest EXCEPT
     !.tools = IF r.tools = {} THEN r.functions ELSE r.tools,
     !.tool_choice = IF r.tool_choice = Unset THEN r.function_call ELSE r.tool_choice,
     !.parallel = r.parallel, !.response_format = r.response_format,
     !.max_tokens = r.max_tokens, !.max_completion_tokens = r.max_completion_tokens]

ToOpenAIToolChoice(r) ==
  CASE r.type = "any" -> "required"
    [] r.type = "tool" -> r.name
    [] OTHER -> r.type

\* System texts as they are numbered, each a text of one word or of none.
Numbered(s) ==
  [i \in DOMAIN s |-> [text |-> IF s[i].full THEN <<i>> ELSE <<>>, mark |-> s[i].mark]]
Full(bs) == FlattenSeq([i \in DOMAIN bs |-> IF bs[i].text # <<>> THEN <<bs[i]>> ELSE <<>>])
FullBlocks(s) == Full(Numbered(s))
Text(bs) == FlattenSeq([i \in DOMAIN bs |-> bs[i].text])

\* The text of the system prompt as one message.
FlattenSystem(s) ==
  IF FullBlocks(s) = <<>> THEN <<>> ELSE <<[text |-> Text(FullBlocks(s)), mark |-> FALSE]>>

\* Its blocks beside it, when one that is not empty bears a breakpoint.
SystemBlocks(s) == IF \E b \in ToSet(FullBlocks(s)) : b.mark THEN FullBlocks(s) ELSE <<>>

AnthropicToChatRequest(r) ==
  [ChatRequest EXCEPT
     !.tools = r.tools, !.tool_choice = ToOpenAIToolChoice(r),
     !.parallel = ~r.disable_parallel, !.max_tokens = r.max_tokens,
     !.system = FlattenSystem(r.system), !.system_blocks = SystemBlocks(r.system)]

Received(r) ==
  CASE r.dialect = "openai" -> OpenAIToChatRequest(r)
    [] r.dialect = "anthropic" -> AnthropicToChatRequest(r)
    [] r.dialect = "native" -> [r EXCEPT !.system = Numbered(@)]

-----------------------------------------------------------------------------
(* From the pipeline to an upstream *)

Or(a, b, none) == IF a # none THEN a ELSE b
Wants(q) == q.response_format \in {"json_object", "json_schema"}
OneText(ss) ==
  FlattenSeq([i \in DOMAIN ss |-> (IF i = 1 THEN <<>> ELSE <<Separator>>) \o ss[i].text])

\* Without the separator that a block owes to the one before.
SystemBlocksUnseparated(ss) ==
  LET Next(s, m) ==
        LET current == IF s.open THEN s.current \o <<Separator>> \o m.text ELSE m.text
        IN  IF m.mark
            THEN [blocks |-> Append(s.blocks, [text |-> current, mark |-> TRUE]),
                  current |-> <<>>, open |-> FALSE]
            ELSE [s EXCEPT !.current = current, !.open = TRUE]
      end == FoldLeft(Next, [blocks |-> <<>>, current |-> <<>>, open |-> FALSE], ss)
  IN  IF end.open THEN Append(end.blocks, [text |-> end.current, mark |-> FALSE]) ELSE end.blocks

\* Marked messages close a block; the separator belongs to the one that follows.
NoBlocks == [blocks |-> <<>>, current |-> <<>>, open |-> FALSE, sep |-> FALSE]
AddMessage(s, m) ==
  LET current ==
        IF s.sep THEN <<Separator>> \o m.text
        ELSE IF s.open THEN s.current \o <<Separator>> \o m.text
        ELSE m.text
  IN  IF m.mark /\ m.text # <<>>
      THEN [blocks |-> Append(s.blocks, [text |-> current, mark |-> TRUE]),
            current |-> <<>>, open |-> FALSE, sep |-> TRUE]
      ELSE [blocks |-> s.blocks, current |-> current, open |-> TRUE, sep |-> FALSE]

SystemBlocksFromMessages(ss) ==
  LET end == FoldLeft(AddMessage, NoBlocks, ss)
  IN  IF end.open \/ end.blocks = <<>>
      THEN Append(end.blocks, [text |-> end.current, mark |-> FALSE])
      ELSE end.blocks

AnthropicSystem(q) ==
  CASE q.system_blocks # <<>> -> q.system_blocks
    [] q.system_blocks = <<>> /\ q.system = <<>> -> <<>>
    [] q.system_blocks = <<>> /\ q.system # <<>> ->
         IF \E m \in ToSet(q.system) : m.mark /\ m.text # <<>>
         THEN SystemBlocksFromMessages(q.system)
         ELSE <<[text |-> OneText(q.system), mark |-> FALSE]>>

\* With no tool to be called told as no choice made.
TranslateToolChoiceNoneUnset(c) ==
  CASE c \in {Unset, "none"} -> [type |-> Unset]
    [] c = "auto" -> [type |-> "auto"]
    [] c = "required" -> [type |-> "any"]
    [] OTHER -> [type |-> "tool", name |-> c]

TranslateToolChoice(c) ==
  CASE c = Unset -> [type |-> Unset]
    [] c \in {"none", "auto"} -> [type |-> c]
    [] c = "required" -> [type |-> "any"]
    [] OTHER -> [type |-> "tool", name |-> c]

\* JSON is asked of Anthropic by forcing a tool, when there is no tool of the client's.
AnthropicPayload(q) ==
  LET emulating == Wants(q) /\ q.tools = {}
  IN  [tools |-> IF emulating THEN {"json_response"} ELSE q.tools,
       tool_choice |-> IF emulating THEN [type |-> "tool", name |-> "json_response"]
                       ELSE IF q.tools = {} THEN [type |-> Unset]
                       ELSE TranslateToolChoice(q.tool_choice),
       disable_parallel |-> q.tools # {} /\ q.tool_choice # Unset /\ ~q.parallel,
       cap |-> Or(q.max_tokens, q.max_completion_tokens, NoCap),
       system |-> AnthropicSystem(q)]

OpenAIPayload(q) ==
  [tools |-> q.tools, tool_choice |-> q.tool_choice, parallel |-> q.parallel,
   response_format |-> q.response_format,
   cap |-> Or(q.max_completion_tokens, q.max_tokens, NoCap),
   system |-> q.system]

TranslateToolConfig(c, ts) ==
  CASE c \in {Unset, "auto"} -> [mode |-> "AUTO", names |-> ts]
    [] c = "required" -> [mode |-> "ANY", names |-> ts]
    [] c = "none" -> [mode |-> "NONE", names |-> ts]
    [] OTHER -> [mode |-> "ANY", names |-> {c}]

GeminiPayload(q) ==
  [tools |-> q.tools,
   config |-> TranslateToolConfig(IF q.tools = {} THEN Unset ELSE q.tool_choice, q.tools),
   json |-> Wants(q),
   cap |-> Or(q.max_tokens, q.max_completion_tokens, NoCap),
   system |-> IF q.system = <<>> THEN <<>> ELSE <<[text |-> OneText(q.system), mark |-> FALSE]>>]

\* Ollama has no choice of tools; none of them is to be called when there are none.
OllamaPayload(q) ==
  [tools |-> IF q.tool_choice = "none" THEN {} ELSE q.tools,
   format |-> Wants(q),
   cap |-> Or(q.max_tokens, q.max_completion_tokens, NoCap),
   system |-> q.system]

BuildPayload(p, q) ==
  CASE p = "anthropic" -> AnthropicPayload(q)
    [] p = "openai" -> OpenAIPayload(q)
    [] p = "gemini" -> GeminiPayload(q)
    [] p = "ollama" -> OllamaPayload(q)

-----------------------------------------------------------------------------
(* What a request means: to the client, and to the upstream that gets it *)

\* The functions that may be called, whether one must be, and only one.
Policy(ts, c, one) ==
  [callable |-> IF c = "none" THEN {} ELSE IF c \in ts THEN {c} ELSE ts,
   must |-> c = "required" \/ c \in ts,
   one |-> one]

Meant(r) ==
  CASE r.dialect = "openai" /\ r.tools # {} -> Policy(r.tools, r.tool_choice, ~r.parallel)
    [] r.dialect = "openai" /\ r.tools = {} -> Policy(r.functions, r.function_call, ~r.parallel)
    [] r.dialect = "anthropic" /\ r.type = "any" -> Policy(r.tools, "required", r.disable_parallel)
    [] r.dialect = "anthropic" /\ r.type = "tool" -> Policy(r.tools, r.name, r.disable_parallel)
    [] r.dialect = "native" -> Policy(r.tools, r.tool_choice, ~r.parallel)
    [] OTHER -> Policy(r.tools, r.type, r.disable_parallel)

Understood(p, pay) ==
  LET t == pay.tool_choice.type
  IN  CASE p = "anthropic" ->
             [callable |-> IF t = "none" THEN {}
                           ELSE IF t = "tool" THEN {pay.tool_choice.name} \ {"json_response"}
                           ELSE pay.tools,
              must |-> t = "any" \/ (t = "tool" /\ pay.tools # {"json_response"}),
              one |-> pay.disable_parallel]
        [] p = "openai" -> Policy(pay.tools, pay.tool_choice, ~pay.parallel)
        [] p = "gemini" ->
             [callable |-> IF pay.config.mode = "NONE" THEN {} ELSE pay.config.names,
              must |-> pay.config.mode = "ANY", one |-> FALSE]
        [] p = "ollama" -> [callable |-> pay.tools, must |-> FALSE, one |-> FALSE]

SaysJson(p, pay) ==
  CASE p = "anthropic" -> pay.tools = {"json_response"}
    [] p = "openai" -> pay.response_format \in {"json_object", "json_schema"}
    [] p = "gemini" -> pay.json
    [] p = "ollama" -> pay.format

Backends == {"anthropic", "openai", "gemini", "ollama"}
Built(p) == BuildPayload(p, Received(asked))
IsAsked == asked.dialect # "none"

\* The upstream may call what the client lets it call, must when it must, and one at a
\* time.  Ollama can only be kept from calling any; Gemini and Ollama cannot be kept from
\* calling several, nor Anthropic unless a choice is made.
ToolsAsAllowed(p) ==
  LET m == Meant(asked)
      u == Understood(p, Built(p))
  IN  IF p = "ollama" THEN m.callable \subseteq u.callable /\ (m.callable = {} => u.callable = {})
      ELSE /\ u.callable = m.callable /\ u.must = m.must
           /\ p # "gemini" /\ (p = "anthropic" => Received(asked).tool_choice # Unset)
                => u.one = m.one \/ m.callable = {}

\* JSON is asked for when the client did, except that Anthropic's way of asking leaves no
\* room for tools.
JsonAsAsked(p) ==
  SaysJson(p, Built(p)) = (Wants(Received(asked)) /\ (p = "anthropic" => Received(asked).tools = {}))

\* The cap is one the client gave, and there is one when it gave one.
CapAsAsked(p) ==
  LET given == {Received(asked).max_tokens, Received(asked).max_completion_tokens} \ {NoCap}
  IN  IF given = {} THEN Built(p).cap = NoCap ELSE Built(p).cap \in given

\* In whatever dialect the request came and wherever it goes, the upstream is asked what
\* the client asked: the tools it may and must call, the format and the cap.
AsksWhatWasAsked ==
  IsAsked => \A p \in Backends : ToolsAsAllowed(p) /\ JsonAsAsked(p) /\ CapAsAsked(p)

\* What is told in a text, and what has been told where a cache breakpoint is.
Words(text) ==
  FlattenSeq([i \in DOMAIN text |-> IF text[i] = Separator THEN <<>> ELSE <<text[i]>>])
Breakpoints(bs, Told(_)) ==
  {Told(SubSeq(bs, 1, i)) : i \in {j \in DOMAIN bs : bs[j].mark /\ bs[j].text # <<>>}}

\* The system prompt reaches every upstream whole and in order, and Anthropic with a cache
\* breakpoint at the end of each text that bears one, and nowhere else.
SystemKept ==
  LET q == Received(asked)
      built == Built("anthropic").system
  IN  IsAsked =>
        /\ \A p \in Backends : Words(OneText(Built(p).system)) = Words(OneText(q.system))
        /\ q.system_blocks = <<>> => Text(built) = OneText(q.system)
        /\ asked.dialect = "native" => Breakpoints(built, Text) = Breakpoints(q.system, OneText)
        /\ asked.dialect = "anthropic" =>
             Breakpoints(built, Text) = Breakpoints(Numbered(asked.system), Text)
=============================================================================
