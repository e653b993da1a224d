------------------------------- MODULE WireProofs -------------------------------
(***************************************************************************)
(* Proofs about the translations: the options of a request, from any       *)
(* client to any upstream, and the events of a stream, from any upstream.  *)
(*                                                                         *)
(* RequestOptions: what the pipeline holds is what the client meant, and   *)
(* each upstream is asked for that, as far as its API can be.  The system  *)
(* prompt reaches it whole, with the breakpoints the client set.           *)
(* StreamAdapters: while a stream is read, an adapter and StreamChat agree *)
(* on which block is open, so that no event comes where it is misread.     *)
(* And what it has yielded is, channel by channel, what the message holds, *)
(* so that a stream that is over has said what chat() would.               *)
(***************************************************************************)
EXTENDS StreamAdapters, RequestOptions, FoldLemmas

-----------------------------------------------------------------------------
(* RequestOptions: what the pipeline makes of a request *)

\* Requests as the pipeline has them: nothing is chosen when there are no tools, and a
\* tool that is chosen is there.
WellMeant(q) ==
  /\ q.tools \subseteq Tools /\ q.parallel \in BOOLEAN
  /\ q.tool_choice \in {Unset, "auto", "none", "required"} \cup q.tools
  /\ q.tools = {} => q.tool_choice = Unset
  /\ q.response_format \in Formats
  /\ q.max_tokens \in Nat /\ q.max_completion_tokens \in Nat

\* The requests, kind by kind.
LEMMA RequestKinds ==
  ASSUME asked \in Requests
  PROVE  \/ \E ts \in SUBSET Tools, par \in BOOLEAN, f \in Formats,
               m \in {NoCap, 1}, mc \in {NoCap, 2} : \E c \in Chosen(ts) :
               asked = WithTools(ts, c, par, f, m, mc)
         \/ \E fs \in SUBSET Tools, ts \in SUBSET Tools : \E c \in Chosen(fs) \ {"required"} :
              \E tc \in IF ts = {} THEN {Unset} ELSE Chosen(ts) \ {Unset} :
                asked = WithFunctions(fs, c, ts, tc)
         \/ \E ts \in (SUBSET Tools) \ {{}}, d \in BOOLEAN : \E c \in {"auto", "none", "any"} :
              asked = Messages(ts, c, d)
         \/ asked = Messages({}, Unset, FALSE)
         \/ \E f \in Tools, d \in BOOLEAN : asked = MessagesForcing(f, d)
         \/ \E s \in SystemTexts : asked = [AnthropicMessagesRequest EXCEPT !.system = s]
         \/ \E s \in SystemTexts : asked = [ChatRequest EXCEPT !.system = s]
<1>1. \/ asked \in ToolRequests \/ asked \in FunctionRequests \/ asked \in ChoosingRequests
      \/ asked \in ForcingRequests \/ asked \in PromptedRequests
  BY Zenon DEF Requests
<1>2. asked \in ToolRequests =>
        \E ts \in SUBSET Tools, par \in BOOLEAN, f \in Formats,
           m \in {NoCap, 1}, mc \in {NoCap, 2} : \E c \in Chosen(ts) :
          asked = WithTools(ts, c, par, f, m, mc)
  BY DEF ToolRequests
<1>3. ASSUME asked \in FunctionRequests
      PROVE  \E fs \in SUBSET Tools, ts \in SUBSET Tools : \E c \in Chosen(fs) \ {"required"} :
               \E tc \in IF ts = {} THEN {Unset} ELSE Chosen(ts) \ {Unset} :
                 asked = WithFunctions(fs, c, ts, tc)
  <2>1. PICK fs \in SUBSET Tools, ts \in SUBSET Tools :
          asked \in UNION {{WithFunctions(fs, c, ts, tc) : c \in Chosen(fs) \ {"required"}} :
                           tc \in IF ts = {} THEN {Unset} ELSE Chosen(ts) \ {Unset}}
    BY <1>3 DEF FunctionRequests
  <2>2. \E tc \in IF ts = {} THEN {Unset} ELSE Chosen(ts) \ {Unset} :
          asked \in {WithFunctions(fs, c, ts, tc) : c \in Chosen(fs) \ {"required"}}
    BY <2>1, Zenon
  <2> QED
    BY <2>2, Zenon
<1>4. asked \in ChoosingRequests =>
        \E ts \in (SUBSET Tools) \ {{}}, d \in BOOLEAN : \E c \in {"auto", "none", "any"} :
          asked = Messages(ts, c, d)
  BY DEF ChoosingRequests
<1>5. asked \in ForcingRequests =>
        \E f \in Tools, d \in BOOLEAN : asked = MessagesForcing(f, d)
  BY DEF ForcingRequests
<1>6. asked \in PromptedRequests =>
        \/ asked = Messages({}, Unset, FALSE)
        \/ \E s \in SystemTexts : asked = [AnthropicMessagesRequest EXCEPT !.system = s]
        \/ \E s \in SystemTexts : asked = [ChatRequest EXCEPT !.system = s]
  BY Zenon DEF PromptedRequests
<1> QED
  BY <1>1, <1>2, <1>3, <1>4, <1>5, <1>6, Zenon

\* What the pipeline makes of a request is what the client meant.
LEMMA ReceivedIsMeant ==
  ASSUME asked \in Requests
  PROVE  LET q == Received(asked)
         IN WellMeant(q) /\ Meant(asked) = Policy(q.tools, q.tool_choice, ~q.parallel)
<1> DEFINE q == Received(asked)
<1>u. Unset = "unset" /\ NoCap = 0 /\ Unset \in Formats
  BY DEF Unset, NoCap, Formats
<1>1. ASSUME NEW ts \in SUBSET Tools, NEW par \in BOOLEAN, NEW f \in Formats,
             NEW m \in {NoCap, 1}, NEW mc \in {NoCap, 2}, NEW c \in Chosen(ts),
             asked = WithTools(ts, c, par, f, m, mc)
      PROVE  WellMeant(q) /\ Meant(asked) = Policy(q.tools, q.tool_choice, ~q.parallel)
  <2>1. /\ asked.dialect = "openai" /\ asked.tools = ts /\ asked.functions = {}
        /\ asked.tool_choice = c /\ asked.function_call = Unset /\ asked.parallel = par
        /\ asked.response_format = f /\ asked.max_tokens = m /\ asked.max_completion_tokens = mc
    BY <1>1 DEF WithTools, ChatCompletionsRequest
  <2>2. q = OpenAIToChatRequest(asked)
    BY <2>1 DEF Received
  <2>3. /\ q.tools = ts /\ q.tool_choice = c /\ q.parallel = par /\ q.response_format = f
        /\ q.max_tokens = m /\ q.max_completion_tokens = mc
    BY <2>1, <2>2 DEF OpenAIToChatRequest, ChatRequest
  <2> HIDE DEF q
  <2>4. WellMeant(q)
    BY <1>u, <2>3 DEF WellMeant, Chosen
  <2>5. ts = {} => c = Unset
    BY DEF Chosen
  <2>6. Meant(asked) = Policy(ts, c, ~par)
    BY <2>1, <2>5 DEF Meant
  <2> QED
    BY <2>3, <2>4, <2>6
<1>2. ASSUME NEW fs \in SUBSET Tools, NEW ts \in SUBSET Tools, NEW c \in Chosen(fs) \ {"required"},
             NEW tc \in IF ts = {} THEN {Unset} ELSE Chosen(ts) \ {Unset},
             asked = WithFunctions(fs, c, ts, tc)
      PROVE  WellMeant(q) /\ Meant(asked) = Policy(q.tools, q.tool_choice, ~q.parallel)
  <2>1. /\ asked.dialect = "openai" /\ asked.tools = ts /\ asked.functions = fs
        /\ asked.tool_choice = tc /\ asked.function_call = c /\ asked.parallel = TRUE
        /\ asked.response_format = Unset /\ asked.max_tokens = NoCap
        /\ asked.max_completion_tokens = NoCap
    BY <1>2 DEF WithFunctions, ChatCompletionsRequest
  <2>2. q = OpenAIToChatRequest(asked)
    BY <2>1 DEF Received
  <2>3. /\ q.parallel = TRUE /\ q.response_format = Unset
        /\ q.max_tokens = NoCap /\ q.max_completion_tokens = NoCap
        /\ q.tools = IF ts = {} THEN fs ELSE ts
        /\ q.tool_choice = IF tc = Unset THEN c ELSE tc
    BY <2>1, <2>2 DEF OpenAIToChatRequest, ChatRequest
  <2>p. q.parallel \in BOOLEAN
    BY <2>3, Zenon
  <2> HIDE DEF q
  <2>4. CASE ts = {}
    <3>1. q.tools = fs /\ q.tool_choice = c
      BY <2>3, <2>4
    <3>2. WellMeant(q)
      BY <1>u, <2>3, <2>p, <3>1 DEF WellMeant, Chosen
    <3>3. Meant(asked) = Policy(fs, c, ~TRUE)
      BY <2>1, <2>4 DEF Meant
    <3> QED
      BY <2>3, <3>1, <3>2, <3>3
  <2>5. CASE ts # {}
    <3>1. q.tools = ts /\ q.tool_choice = tc
      BY <2>3, <2>5
    <3>2. tc \in Chosen(ts)
      BY <2>5
    <3>3. WellMeant(q)
      BY <1>u, <2>3, <2>p, <2>5, <3>1, <3>2 DEF WellMeant, Chosen
    <3>4. Meant(asked) = Policy(ts, tc, ~TRUE)
      BY <2>1, <2>5 DEF Meant
    <3> QED
      BY <2>3, <3>1, <3>3, <3>4
  <2> QED
    BY <2>4, <2>5
<1>3. ASSUME asked.dialect = "anthropic", asked.tools \subseteq Tools, asked.disable_parallel \in BOOLEAN,
             asked.type \in {Unset, "auto", "none", "any", "tool"},
             asked.tools = {} => asked.type = Unset,
             asked.type = "tool" => asked.name \in asked.tools,
             asked.max_tokens = 1
      PROVE  WellMeant(q) /\ Meant(asked) = Policy(q.tools, q.tool_choice, ~q.parallel)
  <2>1. q = AnthropicToChatRequest(asked)
    BY <1>3 DEF Received
  <2>2. /\ q.tools = asked.tools /\ q.parallel = ~asked.disable_parallel
        /\ q.tool_choice = ToOpenAIToolChoice(asked)
        /\ q.response_format = Unset /\ q.max_tokens = 1 /\ q.max_completion_tokens = NoCap
    BY <1>3, <2>1 DEF AnthropicToChatRequest, ChatRequest
  <2>3. q.tool_choice = IF asked.type = "any" THEN "required"
                        ELSE IF asked.type = "tool" THEN asked.name ELSE asked.type
    BY <1>3, <2>2 DEF ToOpenAIToolChoice
  <2> HIDE DEF q
  <2>4. WellMeant(q)
    BY <1>u, <1>3, <2>2, <2>3 DEF WellMeant
  <2>5. ~q.parallel = asked.disable_parallel
    BY <1>3, <2>2
  <2>6. Meant(asked) = Policy(q.tools, q.tool_choice, asked.disable_parallel)
    BY <1>3, <2>2, <2>3 DEF Meant
  <2>7. CASE asked.disable_parallel = TRUE
    <3>1. q.parallel = FALSE
      BY <2>2, <2>7
    <3>2. Meant(asked) = Policy(q.tools, q.tool_choice, ~FALSE)
      BY <2>6, <2>7
    <3> QED
      BY <2>4, <3>1, <3>2
  <2>8. CASE asked.disable_parallel = FALSE
    <3>1. q.parallel = TRUE
      BY <2>2, <2>8
    <3>2. Meant(asked) = Policy(q.tools, q.tool_choice, ~TRUE)
      BY <2>6, <2>8
    <3> QED
      BY <2>4, <3>1, <3>2
  <2> QED
    BY <1>3, <2>7, <2>8
<1>4. ASSUME NEW ts \in SUBSET Tools, NEW c \in {Unset, "auto", "none", "any"}, NEW d \in BOOLEAN,
             ts = {} => c = Unset, asked = Messages(ts, c, d)
      PROVE  WellMeant(q) /\ Meant(asked) = Policy(q.tools, q.tool_choice, ~q.parallel)
  <2>1. /\ asked.dialect = "anthropic" /\ asked.tools = ts /\ asked.disable_parallel = d
        /\ asked.type = c /\ asked.max_tokens = 1
    BY <1>4 DEF Messages, AnthropicMessagesRequest
  <2>2. asked.tools \subseteq Tools /\ asked.disable_parallel \in BOOLEAN
        /\ (asked.tools = {} => asked.type = Unset)
    BY <1>4, <2>1
  <2>3. asked.type \in {Unset, "auto", "none", "any", "tool"} /\ asked.type # "tool"
    BY <1>u, <2>1
  <2> HIDE DEF q
  <2> QED
    BY <1>3, <2>1, <2>2, <2>3
<1>5. ASSUME NEW f \in Tools, NEW d \in BOOLEAN, asked = MessagesForcing(f, d)
      PROVE  WellMeant(q) /\ Meant(asked) = Policy(q.tools, q.tool_choice, ~q.parallel)
  <2>1. /\ asked.dialect = "anthropic" /\ asked.tools = Tools /\ asked.disable_parallel = d
        /\ asked.type = "tool" /\ asked.name = f /\ asked.max_tokens = 1
    BY <1>5 DEF MessagesForcing, Messages, AnthropicMessagesRequest
  <2>2. asked.tools \subseteq Tools /\ asked.name \in asked.tools /\ asked.tools # {}
    BY <2>1
  <2>3. asked.type \in {Unset, "auto", "none", "any", "tool"}
    BY <2>1
  <2>4. asked.disable_parallel \in BOOLEAN
    BY <2>1
  <2> HIDE DEF q
  <2> QED
    BY <1>3, <2>1, <2>2, <2>3, <2>4
<1>6. ASSUME NEW s, asked = [AnthropicMessagesRequest EXCEPT !.system = s]
      PROVE  WellMeant(q) /\ Meant(asked) = Policy(q.tools, q.tool_choice, ~q.parallel)
  <2>1. /\ asked.dialect = "anthropic" /\ asked.tools = {} /\ asked.disable_parallel = FALSE
        /\ asked.type = Unset /\ asked.max_tokens = 1
    BY <1>6 DEF AnthropicMessagesRequest
  <2>2. asked.disable_parallel \in BOOLEAN
    BY <2>1, Zenon
  <2>3. asked.tools \subseteq Tools /\ asked.type \in {Unset, "auto", "none", "any", "tool"}
        /\ asked.type # "tool"
    BY <1>u, <2>1
  <2> HIDE DEF q
  <2> QED
    BY <1>3, <2>1, <2>2, <2>3
<1>7. ASSUME NEW s, asked = [ChatRequest EXCEPT !.system = s]
      PROVE  WellMeant(q) /\ Meant(asked) = Policy(q.tools, q.tool_choice, ~q.parallel)
  <2>1. /\ asked.dialect = "native" /\ asked.tools = {} /\ asked.tool_choice = Unset
        /\ asked.parallel = TRUE
    BY <1>7 DEF ChatRequest
  <2>2. q = [asked EXCEPT !.system = Numbered(@)]
    BY <2>1 DEF Received
  <2>3. /\ q.tools = {} /\ q.tool_choice = Unset /\ q.parallel = TRUE
        /\ q.response_format = Unset /\ q.max_tokens = NoCap /\ q.max_completion_tokens = NoCap
    BY <1>7, <2>2 DEF ChatRequest
  <2>p. q.parallel \in BOOLEAN
    BY <2>3, Zenon
  <2> HIDE DEF q
  <2>4. WellMeant(q)
    BY <1>u, <2>3, <2>p DEF WellMeant
  <2>5. Meant(asked) = Policy({}, Unset, ~TRUE)
    BY <2>1 DEF Meant
  <2> QED
    BY <2>3, <2>4, <2>5
<1> HIDE DEF q
<1>8. ASSUME NEW ts \in (SUBSET Tools) \ {{}}, NEW d \in BOOLEAN, NEW c \in {"auto", "none", "any"},
             asked = Messages(ts, c, d)
      PROVE  WellMeant(q) /\ Meant(asked) = Policy(q.tools, q.tool_choice, ~q.parallel)
  <2>1. c \in {Unset, "auto", "none", "any"} /\ ts \in SUBSET Tools /\ ts # {}
    OBVIOUS
  <2> QED
    BY <1>4, <1>8, <2>1, Zenon
<1>9. ASSUME asked = Messages({}, Unset, FALSE)
      PROVE  WellMeant(q) /\ Meant(asked) = Policy(q.tools, q.tool_choice, ~q.parallel)
  BY <1>4, <1>9
<1>10. WellMeant(q) /\ Meant(asked) = Policy(q.tools, q.tool_choice, ~q.parallel)
  BY <1>1, <1>2, <1>5, <1>6, <1>7, <1>8, <1>9, RequestKinds, Zenon
<1> QED
  BY <1>10 DEF q

-----------------------------------------------------------------------------
(* RequestOptions: what the upstreams are asked *)

\* Anthropic is asked for what was meant, whether JSON is emulated or not.
LEMMA AnthropicAsks ==
  ASSUME NEW q, WellMeant(q)
  PROVE  LET m == Policy(q.tools, q.tool_choice, ~q.parallel)
             pay == AnthropicPayload(q)
             u == Understood("anthropic", pay)
         IN  /\ u.callable = m.callable /\ u.must = m.must
             /\ q.tool_choice # Unset => u.one = m.one \/ m.callable = {}
             /\ SaysJson("anthropic", pay) = (Wants(q) /\ q.tools = {})
             /\ pay.cap = Or(q.max_tokens, q.max_completion_tokens, NoCap)
<1> DEFINE m == Policy(q.tools, q.tool_choice, ~q.parallel)
           pay == AnthropicPayload(q)
           u == Understood("anthropic", pay)
           t == pay.tool_choice.type
           c == q.tool_choice
<1>u. /\ Unset = "unset" /\ c \in {Unset, "auto", "none", "required"} \cup q.tools
      /\ q.tools \subseteq Tools /\ (q.tools = {} => c = Unset) /\ q.parallel \in BOOLEAN
      /\ "json_response" \notin Tools /\ "none" \notin Tools /\ "unset" \notin Tools
      /\ "auto" \notin Tools /\ "required" \notin Tools
  BY OptionsAssumption DEF WellMeant, Unset
<1>1. /\ m.callable = IF c = "none" THEN {} ELSE IF c \in q.tools THEN {c} ELSE q.tools
      /\ m.must = (c = "required" \/ c \in q.tools) /\ m.one = ~q.parallel
  BY DEF Policy
<1>2. /\ u.callable = IF t = "none" THEN {}
                      ELSE IF t = "tool" THEN {pay.tool_choice.name} \ {"json_response"}
                      ELSE pay.tools
      /\ u.must = (t = "any" \/ (t = "tool" /\ pay.tools # {"json_response"}))
      /\ u.one = pay.disable_parallel
  BY DEF Understood
<1>3. /\ pay.cap = Or(q.max_tokens, q.max_completion_tokens, NoCap)
      /\ pay.disable_parallel = (q.tools # {} /\ c # Unset /\ ~q.parallel)
      /\ pay.tools = IF Wants(q) /\ q.tools = {} THEN {"json_response"} ELSE q.tools
      /\ pay.tool_choice = IF Wants(q) /\ q.tools = {} THEN [type |-> "tool", name |-> "json_response"]
                           ELSE IF q.tools = {} THEN [type |-> Unset] ELSE TranslateToolChoice(c)
  BY DEF AnthropicPayload
<1>4. SaysJson("anthropic", pay) = (pay.tools = {"json_response"})
  BY DEF SaysJson
<1>5. q.tools # {} => TranslateToolChoice(c) = IF c = Unset THEN [type |-> Unset]
                           ELSE IF c \in {"none", "auto"} THEN [type |-> c]
                           ELSE IF c = "required" THEN [type |-> "any"]
                           ELSE [type |-> "tool", name |-> c]
  BY <1>u DEF TranslateToolChoice
<1> HIDE DEF m, pay, u, t, c
<1>6. CASE q.tools = {}
  <2>1. c = Unset /\ m.callable = {} /\ m.must = FALSE
    BY <1>u, <1>1, <1>6
  <2>2. CASE Wants(q)
    <3>1. pay.tools = {"json_response"} /\ pay.tool_choice = [type |-> "tool", name |-> "json_response"]
      BY <1>3, <1>6, <2>2
    <3>2. t = "tool" /\ pay.tool_choice.name = "json_response"
      BY <3>1 DEF t
    <3> QED
      BY <1>2, <1>3, <1>4, <1>6, <2>1, <2>2, <3>1, <3>2 DEF m, pay, u, c
  <2>3. CASE ~Wants(q)
    <3>1. pay.tools = {} /\ t = Unset
      BY <1>3, <1>6, <2>3 DEF t
    <3> QED
      BY <1>u, <1>2, <1>3, <1>4, <1>6, <2>1, <2>3, <3>1 DEF m, pay, u, c
  <2> QED
    BY <2>2, <2>3
<1>7. CASE q.tools # {}
  <2>1. pay.tools = q.tools /\ pay.tools # {"json_response"}
    BY <1>u, <1>3, <1>7
  <2>2. pay.tool_choice = IF c = Unset THEN [type |-> Unset]
                          ELSE IF c \in {"none", "auto"} THEN [type |-> c]
                          ELSE IF c = "required" THEN [type |-> "any"]
                          ELSE [type |-> "tool", name |-> c]
    BY <1>3, <1>5, <1>7
  <2>3. /\ c \in {Unset, "auto"} => t = c /\ c \notin q.tools
        /\ c = "none" => t = "none"
        /\ c = "required" => t = "any" /\ c \notin q.tools
        /\ c \in q.tools => t = "tool" /\ pay.tool_choice.name = c /\ c \notin {"none", "required"}
    BY <1>u, <2>2 DEF t
  <2>4. u.callable = m.callable /\ u.must = m.must
    BY <1>u, <1>1, <1>2, <2>1, <2>3
  <2>5. c # Unset => u.one = m.one
    BY <1>1, <1>2, <1>3, <1>7
  <2> QED
    BY <1>3, <1>4, <1>7, <2>1, <2>4, <2>5 DEF m, pay, u, c
<1> QED
  BY <1>6, <1>7

\* OpenAI is asked for exactly what was meant.
LEMMA OpenAIAsks ==
  ASSUME NEW q, WellMeant(q)
  PROVE  LET m == Policy(q.tools, q.tool_choice, ~q.parallel)
             pay == OpenAIPayload(q)
         IN  /\ Understood("openai", pay) = m
             /\ SaysJson("openai", pay) = Wants(q)
             /\ pay.cap = Or(q.max_completion_tokens, q.max_tokens, NoCap)
<1> DEFINE pay == OpenAIPayload(q)
<1>1. /\ pay.tools = q.tools /\ pay.tool_choice = q.tool_choice /\ pay.parallel = q.parallel
      /\ pay.response_format = q.response_format
      /\ pay.cap = Or(q.max_completion_tokens, q.max_tokens, NoCap)
  BY DEF OpenAIPayload
<1> HIDE DEF pay
<1>2. Understood("openai", pay) = Policy(pay.tools, pay.tool_choice, ~pay.parallel)
  BY DEF Understood
<1>3. SaysJson("openai", pay) = Wants(q)
  BY <1>1 DEF SaysJson, Wants
<1> QED
  BY <1>1, <1>2, <1>3 DEF pay

\* Gemini has no way to be asked for one call at a time.
LEMMA GeminiAsks ==
  ASSUME NEW q, WellMeant(q)
  PROVE  LET m == Policy(q.tools, q.tool_choice, ~q.parallel)
             pay == GeminiPayload(q)
             u == Understood("gemini", pay)
         IN  /\ u.callable = m.callable /\ u.must = m.must
             /\ SaysJson("gemini", pay) = Wants(q)
             /\ pay.cap = Or(q.max_tokens, q.max_completion_tokens, NoCap)
<1> DEFINE m == Policy(q.tools, q.tool_choice, ~q.parallel)
           pay == GeminiPayload(q)
           u == Understood("gemini", pay)
           c == q.tool_choice
<1>u. /\ Unset = "unset" /\ c \in {Unset, "auto", "none", "required"} \cup q.tools
      /\ q.tools \subseteq Tools /\ (q.tools = {} => c = Unset)
      /\ "none" \notin Tools /\ "unset" \notin Tools /\ "auto" \notin Tools /\ "required" \notin Tools
  BY OptionsAssumption DEF WellMeant, Unset
<1>1. /\ m.callable = IF c = "none" THEN {} ELSE IF c \in q.tools THEN {c} ELSE q.tools
      /\ m.must = (c = "required" \/ c \in q.tools)
  BY DEF Policy
<1>2. /\ u.callable = IF pay.config.mode = "NONE" THEN {} ELSE pay.config.names
      /\ u.must = (pay.config.mode = "ANY")
  BY DEF Understood
<1>3. /\ pay.config = TranslateToolConfig(IF q.tools = {} THEN Unset ELSE c, q.tools)
      /\ pay.json = Wants(q) /\ pay.cap = Or(q.max_tokens, q.max_completion_tokens, NoCap)
  BY DEF GeminiPayload
<1>4. SaysJson("gemini", pay) = pay.json
  BY DEF SaysJson
<1> HIDE DEF m, pay, u, c
<1>5. (IF q.tools = {} THEN Unset ELSE c) = c
  BY <1>u
<1>6. pay.config = TranslateToolConfig(c, q.tools)
  BY <1>3, <1>5
<1>7. pay.config = IF c \in {Unset, "auto"} THEN [mode |-> "AUTO", names |-> q.tools]
                   ELSE IF c = "required" THEN [mode |-> "ANY", names |-> q.tools]
                   ELSE IF c = "none" THEN [mode |-> "NONE", names |-> q.tools]
                   ELSE [mode |-> "ANY", names |-> {c}]
  BY <1>u, <1>6 DEF TranslateToolConfig
<1>8. /\ c \in {Unset, "auto"} => pay.config.mode = "AUTO" /\ pay.config.names = q.tools /\ c \notin q.tools
      /\ c = "required" => pay.config.mode = "ANY" /\ pay.config.names = q.tools /\ c \notin q.tools
      /\ c = "none" => pay.config.mode = "NONE" /\ c \notin q.tools
      /\ c \in q.tools => /\ pay.config.mode = "ANY" /\ pay.config.names = {c}
                          /\ c \notin {"none", "required"}
  BY <1>u, <1>7
<1>9. u.callable = m.callable /\ u.must = m.must
  BY <1>u, <1>1, <1>2, <1>8
<1>10. SaysJson("gemini", pay) = Wants(q)
  BY <1>3, <1>4
<1> QED
  BY <1>3, <1>9, <1>10 DEF m, pay, u

\* Ollama cannot be made to call: it is offered all that may be called, and nothing if nothing may.
LEMMA OllamaAsks ==
  ASSUME NEW q, WellMeant(q)
  PROVE  LET m == Policy(q.tools, q.tool_choice, ~q.parallel)
             pay == OllamaPayload(q)
             u == Understood("ollama", pay)
         IN  /\ m.callable \subseteq u.callable /\ (m.callable = {} => u.callable = {})
             /\ SaysJson("ollama", pay) = Wants(q)
             /\ pay.cap = Or(q.max_tokens, q.max_completion_tokens, NoCap)
<1> DEFINE m == Policy(q.tools, q.tool_choice, ~q.parallel)
           pay == OllamaPayload(q)
           u == Understood("ollama", pay)
           c == q.tool_choice
<1>1. m.callable = IF c = "none" THEN {} ELSE IF c \in q.tools THEN {c} ELSE q.tools
  BY DEF Policy
<1>2. u.callable = IF c = "none" THEN {} ELSE q.tools
  BY DEF Understood, OllamaPayload
<1>3. SaysJson("ollama", pay) = Wants(q)
  BY DEF SaysJson, OllamaPayload
<1>4. pay.cap = Or(q.max_tokens, q.max_completion_tokens, NoCap)
  BY DEF OllamaPayload
<1> HIDE DEF m, pay, u, c
<1>5. m.callable \subseteq u.callable /\ (m.callable = {} => u.callable = {})
  BY <1>1, <1>2
<1> QED
  BY <1>3, <1>4, <1>5 DEF m, pay, u

\* Whichever cap is looked at first, it is one that was given.
LEMMA CapIsGiven ==
  ASSUME NEW a, NEW b
  PROVE  LET given == {a, b} \ {NoCap}
         IN /\ IF given = {} THEN Or(a, b, NoCap) = NoCap ELSE Or(a, b, NoCap) \in given
            /\ IF given = {} THEN Or(b, a, NoCap) = NoCap ELSE Or(b, a, NoCap) \in given
BY DEF Or

\* A request has come, or none has yet.
AskedOK == asked \in Requests \/ asked = [dialect |-> "none"]

\* What is asked is one of Requests, once something is.
LEMMA OptionsInvariant == OptionsSpec => []AskedOK
<1>1. OptionsInit => AskedOK
  BY DEF OptionsInit, AskedOK
<1>2. AskedOK /\ [OptionsNext]_asked => AskedOK'
  <2> SUFFICES ASSUME AskedOK, [OptionsNext]_asked PROVE AskedOK'
    OBVIOUS
  <2>1. CASE asked' \in Requests
    <3>1. Requests' = Requests
      BY DEF Requests, ToolRequests, FunctionRequests, ChoosingRequests, ForcingRequests,
             PromptedRequests
    <3> QED
      BY <2>1 DEF AskedOK
  <2>2. CASE asked' = asked
    BY <2>2 DEF AskedOK
  <2> QED
    BY <2>1, <2>2 DEF OptionsNext, ReceiveRequest
<1> QED
  BY <1>1, <1>2, PTL DEF OptionsSpec

\* The upstream is asked what the client asked, whichever they are: the tools it may and
\* must call, the format and the cap (to_chat_request and _build_payload).
THEOREM AskedAsMeant == OptionsSpec => []AsksWhatWasAsked
<1>1. AskedOK => AsksWhatWasAsked
  <2> SUFFICES ASSUME AskedOK, IsAsked, NEW p \in Backends
               PROVE  ToolsAsAllowed(p) /\ JsonAsAsked(p) /\ CapAsAsked(p)
    BY DEF AsksWhatWasAsked
  <2> DEFINE q == Received(asked)
             given == {q.max_tokens, q.max_completion_tokens} \ {NoCap}
  <2>1. asked \in Requests
    BY DEF AskedOK, IsAsked
  <2>2. WellMeant(q) /\ Meant(asked) = Policy(q.tools, q.tool_choice, ~q.parallel)
    BY <2>1, ReceivedIsMeant
  <2>3. /\ IF given = {} THEN Or(q.max_tokens, q.max_completion_tokens, NoCap) = NoCap
                         ELSE Or(q.max_tokens, q.max_completion_tokens, NoCap) \in given
        /\ IF given = {} THEN Or(q.max_completion_tokens, q.max_tokens, NoCap) = NoCap
                         ELSE Or(q.max_completion_tokens, q.max_tokens, NoCap) \in given
    BY CapIsGiven
  <2>4. CapAsAsked(p) <=> IF given = {} THEN Built(p).cap = NoCap ELSE Built(p).cap \in given
    BY DEF CapAsAsked
  <2> HIDE DEF given
  <2>5. CASE p = "anthropic"
    <3>1. Built(p) = AnthropicPayload(q)
      BY <2>5 DEF Built, BuildPayload
    <3> HIDE DEF q
    <3>2. LET m == Policy(q.tools, q.tool_choice, ~q.parallel)
              pay == AnthropicPayload(q)
              u == Understood("anthropic", pay)
          IN  /\ u.callable = m.callable /\ u.must = m.must
              /\ q.tool_choice # Unset => u.one = m.one \/ m.callable = {}
              /\ SaysJson("anthropic", pay) = (Wants(q) /\ q.tools = {})
              /\ pay.cap = Or(q.max_tokens, q.max_completion_tokens, NoCap)
      BY <2>2, AnthropicAsks
    <3>3. ToolsAsAllowed(p)
      BY <2>2, <2>5, <3>1, <3>2 DEF ToolsAsAllowed, q
    <3>4. JsonAsAsked(p)
      BY <2>5, <3>1, <3>2 DEF JsonAsAsked, q
    <3> QED
      BY <2>3, <2>4, <3>1, <3>2, <3>3, <3>4
  <2>6. CASE p = "openai"
    <3>1. Built(p) = OpenAIPayload(q)
      BY <2>6 DEF Built, BuildPayload
    <3> HIDE DEF q
    <3>2. LET m == Policy(q.tools, q.tool_choice, ~q.parallel)
              pay == OpenAIPayload(q)
          IN  /\ Understood("openai", pay) = m
              /\ SaysJson("openai", pay) = Wants(q)
              /\ pay.cap = Or(q.max_completion_tokens, q.max_tokens, NoCap)
      BY <2>2, OpenAIAsks
    <3>3. ToolsAsAllowed(p)
      BY <2>2, <2>6, <3>1, <3>2 DEF ToolsAsAllowed
    <3>4. JsonAsAsked(p)
      BY <2>6, <3>1, <3>2 DEF JsonAsAsked, Wants, q
    <3> QED
      BY <2>3, <2>4, <3>1, <3>2, <3>3, <3>4
  <2>7. CASE p = "gemini"
    <3>1. Built(p) = GeminiPayload(q)
      BY <2>7 DEF Built, BuildPayload
    <3> HIDE DEF q
    <3>2. LET m == Policy(q.tools, q.tool_choice, ~q.parallel)
              pay == GeminiPayload(q)
              u == Understood("gemini", pay)
          IN  /\ u.callable = m.callable /\ u.must = m.must
              /\ SaysJson("gemini", pay) = Wants(q)
              /\ pay.cap = Or(q.max_tokens, q.max_completion_tokens, NoCap)
      BY <2>2, GeminiAsks
    <3>3. ToolsAsAllowed(p)
      BY <2>2, <2>7, <3>1, <3>2 DEF ToolsAsAllowed
    <3>4. JsonAsAsked(p)
      BY <2>7, <3>1, <3>2 DEF JsonAsAsked, Wants, q
    <3> QED
      BY <2>3, <2>4, <3>1, <3>2, <3>3, <3>4
  <2>8. CASE p = "ollama"
    <3>1. Built(p) = OllamaPayload(q)
      BY <2>8 DEF Built, BuildPayload
    <3> HIDE DEF q
    <3>2. LET m == Policy(q.tools, q.tool_choice, ~q.parallel)
              pay == OllamaPayload(q)
              u == Understood("ollama", pay)
          IN  /\ m.callable \subseteq u.callable /\ (m.callable = {} => u.callable = {})
              /\ SaysJson("ollama", pay) = Wants(q)
              /\ pay.cap = Or(q.max_tokens, q.max_completion_tokens, NoCap)
      BY <2>2, OllamaAsks
    <3>3. ToolsAsAllowed(p)
      BY <2>2, <2>8, <3>1, <3>2 DEF ToolsAsAllowed
    <3>4. JsonAsAsked(p)
      BY <2>8, <3>1, <3>2 DEF JsonAsAsked, Wants, q
    <3> QED
      BY <2>3, <2>4, <3>1, <3>2, <3>3, <3>4
  <2> QED
    BY <2>5, <2>6, <2>7, <2>8 DEF Backends
<1> QED
  BY <1>1, OptionsInvariant, PTL

-----------------------------------------------------------------------------
(* RequestOptions: what the system prompt becomes *)

\* A text of the system prompt, whose words are numbers, and its cache breakpoint.
SystemText == [text : Seq(Nat), mark : BOOLEAN]

\* What a text of the prompt has.
LEMMA ItsText == \A b \in SystemText : b.text \in Seq(Nat) /\ b.mark \in BOOLEAN
BY DEF SystemText

\* The text of one block more.
LEMMA TextOf ==
  /\ Text(<<>>) = <<>>
  /\ \A ss \in Seq(SystemText) : Text(ss) \in Seq(Nat)
  /\ \A ss \in Seq(SystemText), b \in SystemText : Text(Append(ss, b)) = Text(ss) \o b.text
<1>1. Text(<<>>) = <<>>
  <2>1. [i \in DOMAIN <<>> |-> <<>>[i].text] = <<>>
    OBVIOUS
  <2> QED
    BY <2>1, FlattenEmpty DEF Text
<1>2. ASSUME NEW ss \in Seq(SystemText) PROVE [i \in DOMAIN ss |-> ss[i].text] \in Seq(Seq(Nat))
  <2>1. \A i \in DOMAIN ss : ss[i].text \in Seq(Nat)
    BY ItsText
  <2>2. DOMAIN ss = 1..Len(ss) /\ Len(ss) \in Nat
    OBVIOUS
  <2> QED
    BY <2>1, <2>2
<1>3. ASSUME NEW ss \in Seq(SystemText) PROVE Text(ss) \in Seq(Nat)
  BY <1>2, FlattenType DEF Text
<1>4. ASSUME NEW ss \in Seq(SystemText), NEW b \in SystemText
      PROVE  Text(Append(ss, b)) = Text(ss) \o b.text
  <2> DEFINE n == Len(ss)
             more == Append(ss, b)
             f == [i \in DOMAIN more |-> more[i].text]
             g == [i \in DOMAIN ss |-> ss[i].text]
  <2>1. n \in Nat /\ DOMAIN ss = 1..n /\ DOMAIN more = 1..(n + 1) /\ b.text \in Seq(Nat)
        /\ more[n + 1] = b /\ \A i \in 1..n : more[i] = ss[i]
    BY DEF SystemText
  <2>2. more \in Seq(SystemText)
    OBVIOUS
  <2>3. f \in Seq(Seq(Nat)) /\ g \in Seq(Seq(Nat))
    BY <1>2, <2>2
  <2>4. DOMAIN f = 1..(n + 1) /\ g = [i \in 1..n |-> f[i]] /\ f[n + 1] = b.text
    BY <2>1
  <2> HIDE DEF f, n
  <2>5. f = Append(g, b.text)
    BY <2>1, <2>3, <2>4, MapAppend
  <2> HIDE DEF g
  <2>6. FlattenSeq(f) = FlattenSeq(g) \o b.text
    BY <2>1, <2>3, <2>5, FlattenAppend
  <2> QED
    BY <2>6 DEF Text, f, g
<1> QED
  BY <1>1, <1>3, <1>4

\* The one text of one message more: a separator comes between.
LEMMA OneTextOf ==
  /\ OneText(<<>>) = <<>>
  /\ \A ss \in Seq(SystemText) : OneText(ss) \in Seq(Nat)
  /\ \A ss \in Seq(SystemText), b \in SystemText :
       OneText(Append(ss, b)) = OneText(ss) \o ((IF ss = <<>> THEN <<>> ELSE <<Separator>>) \o b.text)
<1>s. Separator \in Nat /\ <<Separator>> \in Seq(Nat) /\ <<>> \in Seq(Nat)
  BY DEF Separator
<1> DEFINE owed(i) == IF i = 1 THEN <<>> ELSE <<Separator>>
<1>o. \A i \in Nat : owed(i) \in Seq(Nat)
  BY <1>s
<1>1. OneText(<<>>) = <<>>
  <2>1. [i \in DOMAIN <<>> |-> owed(i) \o <<>>[i].text] = <<>>
    OBVIOUS
  <2> QED
    BY <2>1, FlattenEmpty DEF OneText
<1>2. ASSUME NEW ss \in Seq(SystemText)
      PROVE  [i \in DOMAIN ss |-> owed(i) \o ss[i].text] \in Seq(Seq(Nat))
  <2> HIDE DEF owed
  <2>3. DOMAIN ss = 1..Len(ss) /\ Len(ss) \in Nat
    OBVIOUS
  <2>1. \A i \in DOMAIN ss : owed(i) \in Seq(Nat) /\ ss[i].text \in Seq(Nat)
    <3>1. \A i \in DOMAIN ss : i \in Nat /\ ss[i] \in SystemText
      BY <2>3
    <3> QED
      BY <1>o, <3>1, ItsText
  <2>2. \A i \in DOMAIN ss : owed(i) \o ss[i].text \in Seq(Nat)
    BY <2>1
  <2> QED
    BY <2>2, <2>3
<1>3. ASSUME NEW ss \in Seq(SystemText) PROVE OneText(ss) \in Seq(Nat)
  BY <1>2, FlattenType DEF OneText
<1>4. ASSUME NEW ss \in Seq(SystemText), NEW b \in SystemText
      PROVE  OneText(Append(ss, b)) = OneText(ss) \o ((IF ss = <<>> THEN <<>> ELSE <<Separator>>) \o b.text)
  <2> DEFINE n == Len(ss)
             more == Append(ss, b)
             f == [i \in DOMAIN more |-> owed(i) \o more[i].text]
             g == [i \in DOMAIN ss |-> owed(i) \o ss[i].text]
             last == owed(n + 1) \o b.text
  <2>1. n \in Nat /\ DOMAIN ss = 1..n /\ DOMAIN more = 1..(n + 1) /\ b.text \in Seq(Nat)
        /\ more[n + 1] = b /\ \A i \in 1..n : more[i] = ss[i]
    BY DEF SystemText
  <2>2. more \in Seq(SystemText)
    OBVIOUS
  <2>3. owed(n + 1) = IF ss = <<>> THEN <<>> ELSE <<Separator>>
    BY <2>1
  <2>4. last \in Seq(Nat)
    BY <1>o, <2>1
  <2>5. f \in Seq(Seq(Nat)) /\ g \in Seq(Seq(Nat))
    BY <1>2, <2>2
  <2> HIDE DEF owed
  <2>6. DOMAIN f = 1..(n + 1) /\ f[n + 1] = last /\ g = [i \in 1..n |-> f[i]]
    <3>1. DOMAIN f = 1..(n + 1) /\ \A i \in 1..(n + 1) : f[i] = owed(i) \o more[i].text
      BY <2>1
    <3>2. \A i \in 1..n : i \in 1..(n + 1)
      BY <2>1
    <3>3. n + 1 \in 1..(n + 1)
      BY <2>1
    <3>4. g = [i \in 1..n |-> owed(i) \o ss[i].text]
      BY <2>1
    <3> HIDE DEF f, g, n, more
    <3>5. \A i \in 1..n : f[i] = owed(i) \o ss[i].text
      BY <2>1, <3>1, <3>2
    <3>6. f[n + 1] = owed(n + 1) \o b.text
      BY <2>1, <3>1, <3>3
    <3> QED
      BY <3>1, <3>4, <3>5, <3>6
  <2> HIDE DEF f, n, last
  <2>8. f = Append(g, last)
    BY <2>1, <2>5, <2>6, MapAppend
  <2> HIDE DEF g
  <2>9. FlattenSeq(f) = FlattenSeq(g) \o last
    BY <2>4, <2>5, <2>8, FlattenAppend
  <2> QED
    BY <2>3, <2>9 DEF OneText, f, g, last, owed
<1> QED
  BY <1>1, <1>3, <1>4

\* The words of one more.
LEMMA WordsOf ==
  /\ Words(<<>>) = <<>>
  /\ \A t \in Seq(Nat) : Words(t) \in Seq(Nat)
  /\ \A t \in Seq(Nat), w \in Nat :
       Words(Append(t, w)) = Words(t) \o (IF w = Separator THEN <<>> ELSE <<w>>)
<1> DEFINE word(w) == IF w = Separator THEN <<>> ELSE <<w>>
<1>w. \A w \in Nat : word(w) \in Seq(Nat)
  OBVIOUS
<1>1. Words(<<>>) = <<>>
  <2>1. [i \in DOMAIN <<>> |-> word(<<>>[i])] = <<>>
    OBVIOUS
  <2> QED
    BY <2>1, FlattenEmpty DEF Words
<1>2. ASSUME NEW t \in Seq(Nat) PROVE [i \in DOMAIN t |-> word(t[i])] \in Seq(Seq(Nat))
  <2> HIDE DEF word
  <2>1. \A i \in DOMAIN t : word(t[i]) \in Seq(Nat)
    BY <1>w
  <2>2. DOMAIN t = 1..Len(t) /\ Len(t) \in Nat
    OBVIOUS
  <2> QED
    BY <2>1, <2>2
<1>3. ASSUME NEW t \in Seq(Nat) PROVE Words(t) \in Seq(Nat)
  BY <1>2, FlattenType DEF Words
<1>4. ASSUME NEW t \in Seq(Nat), NEW w \in Nat PROVE Words(Append(t, w)) = Words(t) \o word(w)
  <2> DEFINE n == Len(t)
             more == Append(t, w)
             f == [i \in DOMAIN more |-> word(more[i])]
             g == [i \in DOMAIN t |-> word(t[i])]
  <2>1. n \in Nat /\ DOMAIN t = 1..n /\ DOMAIN more = 1..(n + 1)
        /\ more[n + 1] = w /\ \A i \in 1..n : more[i] = t[i]
    OBVIOUS
  <2>2. more \in Seq(Nat)
    OBVIOUS
  <2>5. f \in Seq(Seq(Nat)) /\ g \in Seq(Seq(Nat))
    BY <1>2, <2>2
  <2> HIDE DEF word
  <2>6. DOMAIN f = 1..(n + 1) /\ f[n + 1] = word(w) /\ g = [i \in 1..n |-> f[i]]
    BY <2>1
  <2> HIDE DEF f, n
  <2>8. f = Append(g, word(w))
    BY <2>1, <2>5, <2>6, MapAppend
  <2> HIDE DEF g
  <2>9. FlattenSeq(f) = FlattenSeq(g) \o word(w)
    BY <1>w, <2>5, <2>8, FlattenAppend
  <2> QED
    BY <2>9 DEF Words, f, g, word
<1> QED
  BY <1>1, <1>3, <1>4

\* In whichever order three texts are joined.
LEMMA TextsAssociate == \A a, b, c \in Seq(Nat) : (a \o b) \o c = a \o (b \o c)
BY Associates

\* Words of two texts.
LEMMA WordsConcat ==
  ASSUME NEW s \in Seq(Nat), NEW t \in Seq(Nat)
  PROVE  Words(s \o t) = Words(s) \o Words(t)
<1> DEFINE T == {u \in Seq(Nat) : Words(s \o u) = Words(s) \o Words(u)}
<1>0. Words(s) \in Seq(Nat)
  BY WordsOf
<1>1. <<>> \in T
  <2>1. s \o <<>> = s /\ Words(s) \o <<>> = Words(s) /\ <<>> \in Seq(Nat)
    BY <1>0, ConcatEmptySeq
  <2> QED
    BY <2>1, WordsOf
<1>2. ASSUME NEW u \in Seq(Nat) \cap T, NEW w \in Nat PROVE Append(u, w) \in T
  <2> DEFINE word == IF w = Separator THEN <<>> ELSE <<w>>
  <2>1. word \in Seq(Nat) /\ s \o u \in Seq(Nat) /\ Append(u, w) \in Seq(Nat)
    OBVIOUS
  <2> HIDE DEF word
  <2>2. s \o Append(u, w) = Append(s \o u, w)
    BY AppendsLater
  <2>3. Words(Append(s \o u, w)) = Words(s \o u) \o word /\ Words(Append(u, w)) = Words(u) \o word
    BY <2>1, WordsOf DEF word
  <2>4. Words(u) \in Seq(Nat)
    BY WordsOf
  <2>5. (Words(s) \o Words(u)) \o word = Words(s) \o (Words(u) \o word)
    BY <1>0, <2>1, <2>4, TextsAssociate, ZenonT(40)
  <2> QED
    BY <1>2, <2>1, <2>2, <2>3, <2>5
<1> HIDE DEF T
<1>3. \A u \in Seq(Nat) : u \in T
  BY <1>1, <1>2, AllSequences
<1> QED
  BY <1>3 DEF T

\* The separators are no words.
LEMMA SameWords ==
  ASSUME NEW ss \in Seq(SystemText)
  PROVE  Words(OneText(ss)) = Words(Text(ss))
<1> DEFINE T == {uu \in Seq(SystemText) : Words(OneText(uu)) = Words(Text(uu))}
<1>s. <<Separator>> \in Seq(Nat) /\ <<>> \in Seq(Nat) /\ Separator \in Nat
  BY DEF Separator
<1>w. Words(<<Separator>>) = <<>>
  <2>1. Append(<<>>, Separator) = <<Separator>> /\ <<>> \o <<>> = <<>>
    OBVIOUS
  <2>2. Words(Append(<<>>, Separator)) = Words(<<>>) \o <<>>
    BY <1>s, WordsOf
  <2> QED
    BY <2>1, <2>2, WordsOf
<1>1. <<>> \in T
  <2>1. <<>> \in Seq(SystemText)
    OBVIOUS
  <2> QED
    BY <2>1, TextOf, OneTextOf
<1>2. ASSUME NEW uu \in Seq(SystemText) \cap T, NEW b \in SystemText PROVE Append(uu, b) \in T
  <2> DEFINE owed == IF uu = <<>> THEN <<>> ELSE <<Separator>>
             one == OneText(uu)
             text == Text(uu)
             said == b.text
  <2>1. owed \in Seq(Nat) /\ Words(owed) = <<>>
    BY <1>s, <1>w, WordsOf
  <2>2. one \in Seq(Nat) /\ text \in Seq(Nat) /\ said \in Seq(Nat) /\ Words(one) = Words(text)
    BY <1>2, TextOf, OneTextOf DEF SystemText
  <2>3. OneText(Append(uu, b)) = one \o (owed \o said) /\ Text(Append(uu, b)) = text \o said
    BY TextOf, OneTextOf
  <2>4. Append(uu, b) \in Seq(SystemText)
    OBVIOUS
  <2> HIDE DEF owed, one, text, said
  <2>5. owed \o said \in Seq(Nat) /\ Words(said) \in Seq(Nat)
    BY <2>1, <2>2, WordsOf
  <2>6. Words(owed \o said) = Words(said)
    <3>1. Words(owed \o said) = <<>> \o Words(said)
      BY <2>1, <2>2, WordsConcat
    <3>2. <<>> \o Words(said) = Words(said)
      BY <2>5, ConcatEmptySeq
    <3> QED
      BY <3>1, <3>2
  <2>7. Words(one \o (owed \o said)) = Words(one) \o Words(said)
    BY <2>2, <2>5, <2>6, WordsConcat
  <2>8. Words(text \o said) = Words(text) \o Words(said)
    BY <2>2, WordsConcat
  <2> QED
    BY <2>2, <2>3, <2>4, <2>7, <2>8
<1> HIDE DEF T
<1>3. \A uu \in Seq(SystemText) : uu \in T
  BY <1>1, <1>2, AllSequences
<1> QED
  BY <1>3 DEF T

\* What has been told up to the marks, and up to that of one block more.
LEMMA PrefixOfMore ==
  ASSUME NEW ss \in Seq(SystemText), NEW b \in SystemText
  PROVE  /\ Append(ss, b) \in Seq(SystemText) /\ Len(ss) \in Nat
         /\ DOMAIN ss = 1..Len(ss) /\ DOMAIN Append(ss, b) = 1..(Len(ss) + 1)
         /\ Append(ss, b)[Len(ss) + 1] = b /\ SubSeq(Append(ss, b), 1, Len(ss) + 1) = Append(ss, b)
         /\ \A i \in 1..Len(ss) : /\ Append(ss, b)[i] = ss[i]
                                 /\ SubSeq(Append(ss, b), 1, i) = SubSeq(ss, 1, i)
<1> DEFINE n == Len(ss)
           more == Append(ss, b)
<1>1. more \in Seq(SystemText) /\ n \in Nat /\ DOMAIN ss = 1..n /\ DOMAIN more = 1..(n + 1)
      /\ Len(more) = n + 1 /\ more[n + 1] = b /\ \A i \in 1..n : more[i] = ss[i]
  OBVIOUS
<1>2. ASSUME NEW i \in 1..n PROVE SubSeq(more, 1, i) = SubSeq(ss, 1, i)
  <2>1. i \in Nat /\ i <= n /\ i <= n + 1
    BY <1>1
  <2>2. /\ SubSeq(more, 1, i) = [j \in 1..i |-> more[j]] /\ SubSeq(ss, 1, i) = [j \in 1..i |-> ss[j]]
    <3> HIDE DEF more
    <3> QED
      BY <1>1, <2>1
  <2>3. \A j \in 1..i : more[j] = ss[j]
    BY <1>1, <2>1
  <2> QED
    BY <2>2, <2>3
<1>3. SubSeq(more, 1, n + 1) = more
  <2> HIDE DEF more
  <2>1. SubSeq(more, 1, n + 1) = [j \in 1..(n + 1) |-> more[j]]
    BY <1>1
  <2>2. [j \in 1..(n + 1) |-> more[j]] = more
    BY <1>1
  <2> QED
    BY <2>1, <2>2
<1> QED
  BY <1>1, <1>2, <1>3

\* The breakpoints of a prompt, each as the text it ends, in blocks and in one text.
Marks(ss) == Breakpoints(ss, Text)
OneTextMarks(ss) == Breakpoints(ss, OneText)

\* The marked texts that are not empty, and those of one block more.
Marked(ss) == {j \in DOMAIN ss : ss[j].mark /\ ss[j].text # <<>>}

\* Breakpoints are told where a block is marked.
LEMMA MarkedOf ==
  /\ Marked(<<>>) = {}
  /\ \A ss : Marks(ss) = {Text(SubSeq(ss, 1, i)) : i \in Marked(ss)}
  /\ \A ss : OneTextMarks(ss) = {OneText(SubSeq(ss, 1, i)) : i \in Marked(ss)}
  /\ \A ss \in Seq(SystemText), b \in SystemText :
       Marked(Append(ss, b)) = Marked(ss) \cup (IF b.mark /\ b.text # <<>> THEN {Len(ss) + 1} ELSE {})
<1>1. Marked(<<>>) = {}
  BY DEF Marked
<1>2. ASSUME NEW ss PROVE Marks(ss) = {Text(SubSeq(ss, 1, i)) : i \in Marked(ss)}
  BY DEF Marks, Breakpoints, Marked
<1>3. ASSUME NEW ss PROVE OneTextMarks(ss) = {OneText(SubSeq(ss, 1, i)) : i \in Marked(ss)}
  BY DEF OneTextMarks, Breakpoints, Marked
<1>4. ASSUME NEW ss \in Seq(SystemText), NEW b \in SystemText
      PROVE  Marked(Append(ss, b)) = Marked(ss) \cup (IF b.mark /\ b.text # <<>> THEN {Len(ss) + 1} ELSE {})
  <2> DEFINE n == Len(ss)
             more == Append(ss, b)
  <2>1. /\ n \in Nat /\ DOMAIN ss = 1..n /\ DOMAIN more = 1..(n + 1) /\ more[n + 1] = b
        /\ \A i \in 1..n : more[i] = ss[i]
    BY PrefixOfMore
  <2> HIDE DEF n, more
  <2>2. Marked(more) = Marked(ss) \cup (IF b.mark /\ b.text # <<>> THEN {n + 1} ELSE {})
    BY <2>1 DEF Marked
  <2> QED
    BY <2>2 DEF n, more
<1> QED
  BY <1>1, <1>2, <1>3, <1>4

\* The breakpoints in a prompt of no block, and of one block more.
LEMMA BreakpointsOf ==
  /\ Marks(<<>>) = {} /\ OneTextMarks(<<>>) = {}
  /\ \A ss \in Seq(SystemText), b \in SystemText :
       /\ Marks(Append(ss, b)) = Marks(ss) \cup
            (IF b.mark /\ b.text # <<>> THEN {Text(Append(ss, b))} ELSE {})
       /\ OneTextMarks(Append(ss, b)) = OneTextMarks(ss) \cup
            (IF b.mark /\ b.text # <<>> THEN {OneText(Append(ss, b))} ELSE {})
<1>1. Marks(<<>>) = {} /\ OneTextMarks(<<>>) = {}
  BY MarkedOf
<1>2. ASSUME NEW ss \in Seq(SystemText), NEW b \in SystemText
      PROVE  /\ Marks(Append(ss, b)) = Marks(ss) \cup
                  (IF b.mark /\ b.text # <<>> THEN {Text(Append(ss, b))} ELSE {})
             /\ OneTextMarks(Append(ss, b)) = OneTextMarks(ss) \cup
                  (IF b.mark /\ b.text # <<>> THEN {OneText(Append(ss, b))} ELSE {})
  <2> DEFINE n == Len(ss)
             more == Append(ss, b)
             here == Marked(ss)
             now == IF b.mark /\ b.text # <<>> THEN {n + 1} ELSE {}
  <2>1. /\ n \in Nat /\ SubSeq(more, 1, n + 1) = more
        /\ \A i \in 1..n : SubSeq(more, 1, i) = SubSeq(ss, 1, i)
    BY PrefixOfMore
  <2>3. here \subseteq 1..n
    BY DEF Marked
  <2>2. Marked(more) = here \cup now
    BY MarkedOf
  <2>4. \A i \in here : SubSeq(more, 1, i) = SubSeq(ss, 1, i)
    BY <2>1, <2>3
  <2>5. Marks(more) = {Text(SubSeq(more, 1, i)) : i \in here \cup now} /\ Marks(ss) = {Text(SubSeq(ss, 1, i)) : i \in here}
    BY <2>2, MarkedOf
  <2>6. OneTextMarks(more) = {OneText(SubSeq(more, 1, i)) : i \in here \cup now} /\ OneTextMarks(ss) = {OneText(SubSeq(ss, 1, i)) : i \in here}
    BY <2>2, MarkedOf
  <2> DEFINE part(i) == SubSeq(more, 1, i)
             past(i) == SubSeq(ss, 1, i)
  <2>7. part(n + 1) = more /\ \A i \in here : part(i) = past(i)
    BY <2>1, <2>4
  <2>8. /\ Marks(more) = {Text(part(i)) : i \in here \cup now} /\ Marks(ss) = {Text(past(i)) : i \in here}
        /\ OneTextMarks(more) = {OneText(part(i)) : i \in here \cup now}
        /\ OneTextMarks(ss) = {OneText(past(i)) : i \in here}
    BY <2>5, <2>6
  <2> HIDE DEF part, past, here, more
  <2>9. CASE b.mark /\ b.text # <<>>
    <3>1. now = {n + 1}
      BY <2>9
    <3> HIDE DEF now, n
    <3> QED
      BY <2>7, <2>8, <2>9, <3>1 DEF more
  <2>10. CASE ~(b.mark /\ b.text # <<>>)
    <3>1. now = {}
      BY <2>10
    <3> HIDE DEF now, n
    <3> QED
      BY <2>7, <2>8, <2>10, <3>1 DEF more
  <2> QED
    BY <2>9, <2>10
<1> QED
  BY <1>1, <1>2

\* Empty blocks say nothing and mark nothing.
LEMMA FullOf ==
  /\ Full(<<>>) = <<>>
  /\ \A ss \in Seq(SystemText) : Full(ss) \in Seq(SystemText)
  /\ \A ss \in Seq(SystemText), b \in SystemText :
       Full(Append(ss, b)) = IF b.text # <<>> THEN Append(Full(ss), b) ELSE Full(ss)
<1> DEFINE some(b) == IF b.text # <<>> THEN <<b>> ELSE <<>>
<1>w. \A b \in SystemText : some(b) \in Seq(SystemText)
  OBVIOUS
<1>1. Full(<<>>) = <<>>
  <2>1. [i \in DOMAIN <<>> |-> some(<<>>[i])] = <<>>
    OBVIOUS
  <2> QED
    BY <2>1, FlattenEmpty DEF Full
<1>2. ASSUME NEW ss \in Seq(SystemText) PROVE [i \in DOMAIN ss |-> some(ss[i])] \in Seq(Seq(SystemText))
  <2> HIDE DEF some
  <2>1. \A i \in DOMAIN ss : some(ss[i]) \in Seq(SystemText)
    BY <1>w
  <2>2. DOMAIN ss = 1..Len(ss) /\ Len(ss) \in Nat
    OBVIOUS
  <2> QED
    BY <2>1, <2>2
<1>3. ASSUME NEW ss \in Seq(SystemText) PROVE Full(ss) \in Seq(SystemText)
  BY <1>2, FlattenType DEF Full
<1>4. ASSUME NEW ss \in Seq(SystemText), NEW b \in SystemText
      PROVE  Full(Append(ss, b)) = Full(ss) \o some(b)
  <2> DEFINE n == Len(ss)
             more == Append(ss, b)
             f == [i \in DOMAIN more |-> some(more[i])]
             g == [i \in DOMAIN ss |-> some(ss[i])]
  <2>1. n \in Nat /\ DOMAIN ss = 1..n /\ DOMAIN more = 1..(n + 1)
        /\ more[n + 1] = b /\ \A i \in 1..n : more[i] = ss[i]
    OBVIOUS
  <2>2. more \in Seq(SystemText)
    OBVIOUS
  <2>5. f \in Seq(Seq(SystemText)) /\ g \in Seq(Seq(SystemText))
    BY <1>2, <2>2
  <2> HIDE DEF some
  <2>6. DOMAIN f = 1..(n + 1) /\ f[n + 1] = some(b) /\ g = [i \in 1..n |-> f[i]]
    BY <2>1
  <2> HIDE DEF f, n
  <2>8. f = Append(g, some(b))
    BY <2>1, <2>5, <2>6, MapAppend
  <2> HIDE DEF g
  <2>9. FlattenSeq(f) = FlattenSeq(g) \o some(b)
    BY <1>w, <2>5, <2>8, FlattenAppend
  <2> QED
    BY <2>9 DEF Full, f, g, some
<1>5. ASSUME NEW ss \in Seq(SystemText), NEW b \in SystemText
      PROVE  Full(Append(ss, b)) = IF b.text # <<>> THEN Append(Full(ss), b) ELSE Full(ss)
  <2>1. Full(ss) \in Seq(SystemText)
    BY <1>3
  <2>2. Full(ss) \o <<b>> = Append(Full(ss), b) /\ Full(ss) \o <<>> = Full(ss)
    BY <2>1, AppendIsConcat, ConcatEmptySeq
  <2> QED
    BY <1>4, <2>2
<1> QED
  BY <1>1, <1>3, <1>5

\* Full leaves out nothing that is told.
LEMMA FullKeeps ==
  ASSUME NEW ss \in Seq(SystemText)
  PROVE  Text(Full(ss)) = Text(ss) /\ Marks(Full(ss)) = Marks(ss)
<1> DEFINE T == {uu \in Seq(SystemText) :
                   Text(Full(uu)) = Text(uu) /\ Marks(Full(uu)) = Marks(uu)}
<1>1. <<>> \in T
  <2>1. <<>> \in Seq(SystemText)
    OBVIOUS
  <2> QED
    BY <2>1, FullOf
<1>2. ASSUME NEW uu \in Seq(SystemText) \cap T, NEW b \in SystemText PROVE Append(uu, b) \in T
  <2>1. Append(uu, b) \in Seq(SystemText) /\ Full(uu) \in Seq(SystemText)
    BY FullOf
  <2>2. CASE b.text # <<>>
    <3>1. Full(Append(uu, b)) = Append(Full(uu), b)
      BY <2>2, FullOf
    <3>2. Text(Append(Full(uu), b)) = Text(Append(uu, b))
      BY <1>2, <2>1, TextOf
    <3>3. Marks(Append(Full(uu), b)) = Marks(Append(uu, b))
      <4>1. /\ Marks(Append(Full(uu), b)) = Marks(Full(uu)) \cup
                 (IF b.mark /\ b.text # <<>> THEN {Text(Append(Full(uu), b))} ELSE {})
            /\ Marks(Append(uu, b)) = Marks(uu) \cup
                 (IF b.mark /\ b.text # <<>> THEN {Text(Append(uu, b))} ELSE {})
        BY <2>1, BreakpointsOf
      <4>2. Marks(Full(uu)) = Marks(uu)
        BY <1>2
      <4> QED
        BY <3>2, <4>1, <4>2
    <3> QED
      BY <2>1, <3>1, <3>2, <3>3
  <2>3. CASE b.text = <<>>
    <3>1. Full(Append(uu, b)) = Full(uu)
      BY <2>3, FullOf
    <3>2. Text(Append(uu, b)) = Text(uu)
      <4>1. Text(uu) \in Seq(Nat) /\ Text(Append(uu, b)) = Text(uu) \o <<>>
        BY <2>3, TextOf
      <4> QED
        BY <4>1, ConcatEmptySeq
    <3>3. Marks(Append(uu, b)) = Marks(uu)
      BY <2>3, BreakpointsOf
    <3> QED
      BY <1>2, <2>1, <3>1, <3>2, <3>3
  <2> QED
    BY <2>2, <2>3
<1> HIDE DEF T
<1>3. \A uu \in Seq(SystemText) : uu \in T
  BY <1>1, <1>2, AllSequences
<1> QED
  BY <1>3 DEF T

-----------------------------------------------------------------------------
(* RequestOptions: the blocks that marked messages close *)

\* What is kept while messages become blocks, and what comes of one more.
Assembly == [blocks : Seq(SystemText), current : Seq(Nat), open : BOOLEAN, sep : BOOLEAN]
Assembling(ss) == FoldLeft(AddMessage, NoBlocks, ss)

\* Words that a message adds: a separator comes before, unless it is the first.
Owed(a, m) == (IF a.open \/ a.sep THEN <<Separator>> ELSE <<>>) \o m.text

\* A text that is said leaves no text empty.
LEMMA NotEmpty == \A s, t \in Seq(Nat) : t # <<>> => s \o t # <<>>
<1> TAKE s, t \in Seq(Nat)
<1>1. Len(s \o t) = Len(s) + Len(t) /\ Len(s) \in Nat /\ Len(t) \in Nat /\ Len(<<>>) = 0
  OBVIOUS
<1>2. t # <<>> => Len(t) # 0
  OBVIOUS
<1>3. t # <<>> => Len(s \o t) # Len(<<>>)
  BY <1>1, <1>2
<1> QED
  BY <1>3

\* AddMessage keeps what it is given, and adds what the message owes.
LEMMA MessageAdded ==
  ASSUME NEW a \in Assembly, NEW m \in SystemText
  PROVE  /\ AddMessage(a, m) \in Assembly
         /\ Owed(a, m) \in Seq(Nat)
         /\ m.mark /\ m.text # <<>> =>
              \E now \in SystemText :
                /\ now.text = (IF a.open /\ ~a.sep THEN a.current ELSE <<>>) \o Owed(a, m)
                /\ now.mark /\ now.text # <<>>
                /\ AddMessage(a, m) = [blocks |-> Append(a.blocks, now), current |-> <<>>,
                                       open |-> FALSE, sep |-> TRUE]
         /\ ~(m.mark /\ m.text # <<>>) =>
              AddMessage(a, m) =
                [blocks |-> a.blocks, open |-> TRUE, sep |-> FALSE,
                 current |-> (IF a.open /\ ~a.sep THEN a.current ELSE <<>>) \o Owed(a, m)]
<1> DEFINE kept == IF a.open /\ ~a.sep THEN a.current ELSE <<>>
           owed == Owed(a, m)
           current == IF a.sep THEN <<Separator>> \o m.text
                      ELSE IF a.open THEN a.current \o <<Separator>> \o m.text ELSE m.text
<1>1. /\ a.blocks \in Seq(SystemText) /\ a.current \in Seq(Nat) /\ a.open \in BOOLEAN /\ a.sep \in BOOLEAN
      /\ m.text \in Seq(Nat) /\ m.mark \in BOOLEAN /\ <<Separator>> \in Seq(Nat) /\ <<>> \in Seq(Nat)
      /\ a = [blocks |-> a.blocks, current |-> a.current, open |-> a.open, sep |-> a.sep]
  BY DEF Assembly, SystemText, Separator
<1>2. <<>> \o m.text = m.text /\ <<>> \o (<<Separator>> \o m.text) = <<Separator>> \o m.text
  <2>1. <<Separator>> \o m.text \in Seq(Nat)
    BY <1>1
  <2> QED
    BY <1>1, <2>1, ConcatEmptySeq
<1>3. (a.current \o <<Separator>>) \o m.text = a.current \o (<<Separator>> \o m.text)
  BY <1>1, TextsAssociate
<1>4. /\ current = kept \o owed /\ owed \in Seq(Nat) /\ current \in Seq(Nat)
      /\ m.text # <<>> => current # <<>>
  <2>1. owed = (IF a.open \/ a.sep THEN <<Separator>> ELSE <<>>) \o m.text
    BY DEF Owed
  <2> DEFINE said == <<Separator>> \o m.text
  <2>2. CASE a.sep
    <3>1. owed = said /\ kept = <<>> /\ current = said
      BY <2>1, <2>2
    <3>2. said \in Seq(Nat) /\ said # <<>> /\ <<>> \o said = said
      BY <1>1, <1>2
    <3> HIDE DEF owed, kept, current, said
    <3> QED
      BY <3>1, <3>2
  <2>3. CASE ~a.sep /\ a.open
    <3>1. owed = said /\ kept = a.current /\ current = (a.current \o <<Separator>>) \o m.text
      BY <2>1, <2>3
    <3> HIDE DEF owed, kept, current
    <3>2. current = a.current \o said /\ said \in Seq(Nat) /\ said # <<>>
      <4>1. current = a.current \o said
        BY <1>3, <3>1, Zenon
      <4>2. said \in Seq(Nat) /\ said # <<>>
        BY <1>1
      <4> QED
        BY <4>1, <4>2
    <3> HIDE DEF said
    <3>3. a.current \o said \in Seq(Nat) /\ a.current \o said # <<>>
      BY <1>1, <3>2, NotEmpty
    <3> QED
      BY <3>1, <3>2, <3>3
  <2>4. CASE ~a.sep /\ ~a.open
    <3>1. owed = <<>> \o m.text /\ kept = <<>> /\ current = m.text
      BY <2>1, <2>4
    <3> HIDE DEF owed, kept, current
    <3> QED
      BY <1>1, <1>2, <3>1
  <2> QED
    BY <1>1, <2>2, <2>3, <2>4
<1>5. AddMessage(a, m) =
        IF m.mark /\ m.text # <<>>
        THEN [blocks |-> Append(a.blocks, [text |-> current, mark |-> TRUE]),
              current |-> <<>>, open |-> FALSE, sep |-> TRUE]
        ELSE [blocks |-> a.blocks, current |-> current, open |-> TRUE, sep |-> FALSE]
  BY DEF AddMessage
<1>6. m.text # <<>> => current # <<>>
  BY <1>4
<1> HIDE DEF current, owed, kept
<1>7. [text |-> current, mark |-> TRUE] \in SystemText
  BY <1>4 DEF SystemText
<1>8. AddMessage(a, m) \in Assembly
  <2>1. Append(a.blocks, [text |-> current, mark |-> TRUE]) \in Seq(SystemText)
    BY <1>1, <1>7
  <2> QED
    BY <1>1, <1>4, <1>5, <2>1 DEF Assembly
<1>9. ASSUME m.mark /\ m.text # <<>>
      PROVE  \E now \in SystemText :
                /\ now.text = kept \o owed
                /\ now.mark /\ now.text # <<>>
                /\ AddMessage(a, m) = [blocks |-> Append(a.blocks, now), current |-> <<>>,
                                       open |-> FALSE, sep |-> TRUE]
  <2> DEFINE now == [text |-> current, mark |-> TRUE]
  <2>1. now \in SystemText /\ now.text = current /\ now.mark
    BY <1>7
  <2>2. AddMessage(a, m) = [blocks |-> Append(a.blocks, now), current |-> <<>>, open |-> FALSE, sep |-> TRUE]
    BY <1>5, <1>9
  <2> HIDE DEF now
  <2> QED
    BY <1>4, <1>6, <1>9, <2>1, <2>2
<1>10. ~(m.mark /\ m.text # <<>>) =>
         AddMessage(a, m) = [blocks |-> a.blocks, open |-> TRUE, sep |-> FALSE, current |-> kept \o owed]
  BY <1>4, <1>5
<1> QED
  BY <1>4, <1>8, <1>9, <1>10 DEF owed, kept

\* One turn of that fold, and what the first k messages come to.
Adding(ss, f) ==
  [s \in SUBSET DOMAIN ss |-> IF s = {} THEN NoBlocks ELSE AddMessage(f[s \ {Max(s)}], ss[Max(s)])]
AddedTo(ss) == [k \in 0..Len(ss) |-> (CHOOSE f : f = Adding(ss, f))[1..k]]

\* The messages become blocks one by one.
LEMMA AddedBy ==
  ASSUME NEW ss \in Seq(SystemText)
  PROVE  /\ Assembling(ss) = AddedTo(ss)[Len(ss)] /\ AddedTo(ss)[0] = NoBlocks
         /\ \A k \in 1..Len(ss) : AddedTo(ss)[k] = AddMessage(AddedTo(ss)[k - 1], ss[k])
<1> DEFINE len == Len(ss)
           fold == CHOOSE f : f = Adding(ss, f)
           Next1 == [p \in Assembly \X (1..len) |-> AddMessage(p[1], ss[p[2]])]
<1>1. len \in Nat /\ DOMAIN ss = 1..len /\ \A i \in 1..len : ss[i] \in SystemText
  OBVIOUS
<1>2. Assembling(ss) = fold[DOMAIN ss]
  BY Zenon DEF Assembling, FoldLeft, MapThenFoldSet, Adding
<1>3. Next1 \in [Assembly \X (1..len) -> Assembly]
  <2> HIDE DEF len
  <2>1. \A a \in Assembly, i \in 1..len : AddMessage(a, ss[i]) \in Assembly
    BY <1>1, MessageAdded
  <2> QED
    BY <2>1
<1>4. PICK h \in [SUBSET (1..len) -> Assembly] : h = FoldTurn(Next1, NoBlocks, h, len)
  <2> HIDE DEF Next1, len, fold
  <2>1. len \in Nat /\ NoBlocks \in Assembly
    BY <1>1 DEF NoBlocks, Assembly
  <2>2. \A m \in Nat : \A g \in [Assembly \X (1..m) -> Assembly] :
          \E h \in [SUBSET (1..m) -> Assembly] : h = FoldTurn(g, NoBlocks, h, m)
    BY <2>1, FoldExists, Zenon
  <2> QED
    BY <1>3, <2>1, <2>2, Zenon
<1>5. ASSUME NEW s \in SUBSET (1..len), s # {} PROVE Max(s) \in 1..len
  BY <1>1, <1>5, MaxIn
<1>6. h = Adding(ss, h)
  <2>1. \A s \in SUBSET (1..len) : s # {} =>
          Next1[<<h[s \ {Max(s)}], Max(s)>>] = AddMessage(h[s \ {Max(s)}], ss[Max(s)])
    BY <1>5
  <2> HIDE DEF Next1
  <2> QED
    BY <1>1, <1>4, <2>1 DEF FoldTurn, Adding
<1>7. fold = Adding(ss, fold)
  BY <1>6, Zenon
<1> HIDE DEF fold, Next1
<1>8. fold[{}] = NoBlocks
  BY <1>7 DEF Adding
<1>9. ASSUME NEW k \in 1..len PROVE fold[1..k] = AddMessage(fold[1..(k - 1)], ss[k])
  <2>1. k \in Nat \ {0} /\ 1..k \in SUBSET (1..len) /\ k \in 1..k
    BY <1>1
  <2>2. Max(1..k) = k /\ (1..k) \ {k} = 1..(k - 1) /\ 1..k # {}
    BY <2>1, MaxTo
  <2> QED
    BY <1>1, <1>7, <2>1, <2>2 DEF Adding
<1>10. \A k \in 0..len : AddedTo(ss)[k] = fold[1..k]
  BY DEF AddedTo, fold
<1>11. /\ AddedTo(ss)[0] = NoBlocks
       /\ \A k \in 1..len : AddedTo(ss)[k] = AddMessage(AddedTo(ss)[k - 1], ss[k])
  BY <1>1, <1>8, <1>9, <1>10
<1>12. Assembling(ss) = AddedTo(ss)[len]
  BY <1>1, <1>2, <1>10
<1> QED
  BY <1>11, <1>12

\* No message makes no block, and one more is added to what there is.
LEMMA AssemblingOf ==
  /\ Assembling(<<>>) = NoBlocks
  /\ \A ss \in Seq(SystemText), m \in SystemText :
       Assembling(Append(ss, m)) = AddMessage(Assembling(ss), m)
<1>1. Assembling(<<>>) = NoBlocks
  <2>1. <<>> \in Seq(SystemText) /\ Len(<<>>) = 0
    OBVIOUS
  <2> QED
    BY <2>1, AddedBy
<1>2. ASSUME NEW ss \in Seq(SystemText), NEW m \in SystemText
      PROVE  Assembling(Append(ss, m)) = AddMessage(Assembling(ss), m)
  <2> DEFINE both == Append(ss, m)
             len == Len(ss)
  <2>1. both \in Seq(SystemText) /\ Len(both) = len + 1 /\ both[len + 1] = m /\ len \in Nat
    OBVIOUS
  <2>2. \A i \in 1..len : both[i] = ss[i]
    OBVIOUS
  <2> HIDE DEF both
  <2>3. /\ Assembling(both) = AddedTo(both)[len + 1] /\ AddedTo(both)[0] = NoBlocks
        /\ \A k \in 1..(len + 1) : AddedTo(both)[k] = AddMessage(AddedTo(both)[k - 1], both[k])
    BY <2>1, AddedBy
  <2>4. /\ Assembling(ss) = AddedTo(ss)[len] /\ AddedTo(ss)[0] = NoBlocks
        /\ \A k \in 1..len : AddedTo(ss)[k] = AddMessage(AddedTo(ss)[k - 1], ss[k])
    BY AddedBy
  <2> HIDE DEF len
  <2>5. \A k \in 0..len : AddedTo(both)[k] = AddedTo(ss)[k]
    <3> DEFINE T == {k \in 0..len : AddedTo(both)[k] = AddedTo(ss)[k]}
    <3>1. 0 \in T
      BY <2>1, <2>3, <2>4
    <3>2. ASSUME NEW k \in 1..len, k - 1 \in T PROVE k \in T
      <4>1. AddedTo(both)[k - 1] = AddedTo(ss)[k - 1] /\ both[k] = ss[k] /\ k \in 1..(len + 1)
        BY <2>1, <2>2, <3>2
      <4>2. AddedTo(both)[k] = AddMessage(AddedTo(both)[k - 1], both[k])
        BY <2>3, <4>1
      <4>3. AddedTo(ss)[k] = AddMessage(AddedTo(ss)[k - 1], ss[k])
        BY <2>4
      <4> QED
        BY <4>1, <4>2, <4>3
    <3> HIDE DEF T
    <3>3. \A k \in 0..len : k \in T
      BY <2>1, <3>1, <3>2, UpTo
    <3> QED
      BY <3>3 DEF T
  <2>6. len + 1 \in 1..(len + 1) /\ (len + 1) - 1 = len /\ len \in 0..len
    BY <2>1
  <2>7. AddedTo(both)[len + 1] = AddMessage(AddedTo(both)[(len + 1) - 1], both[len + 1])
    BY <2>3, <2>6
  <2> QED
    BY <2>1, <2>3, <2>4, <2>5, <2>6, <2>7 DEF both
<1> QED
  BY <1>1, <1>2

\* What has become blocks and what is still open are the one text, and a block bears a
\* breakpoint where a message does.
AssembledAs(ss, a) ==
  /\ a \in Assembly
  /\ Text(a.blocks) \o a.current = OneText(ss)
  /\ (a.open \/ a.sep) = (ss # <<>>)
  /\ a.sep => ~a.open
  /\ ~a.open => a.current = <<>>
  /\ Marks(a.blocks) = OneTextMarks(ss)

\* So it stays with one message more.
LEMMA AssembledMore ==
  ASSUME NEW ss \in Seq(SystemText), NEW a, AssembledAs(ss, a), NEW m \in SystemText
  PROVE  AssembledAs(Append(ss, m), AddMessage(a, m))
<1> DEFINE more == Append(ss, m)
           owed == Owed(a, m)
           full == m.mark /\ m.text # <<>>
           next == AddMessage(a, m)
<1>1. /\ a \in Assembly /\ Text(a.blocks) \o a.current = OneText(ss)
      /\ (a.open \/ a.sep) = (ss # <<>>) /\ (a.sep => ~a.open) /\ (~a.open => a.current = <<>>)
      /\ Marks(a.blocks) = OneTextMarks(ss)
  BY DEF AssembledAs
<1>2. a.blocks \in Seq(SystemText) /\ a.current \in Seq(Nat) /\ Text(a.blocks) \in Seq(Nat)
  <2>1. a.blocks \in Seq(SystemText) /\ a.current \in Seq(Nat)
    BY <1>1 DEF Assembly
  <2> QED
    BY <2>1, TextOf
<1>3. owed \in Seq(Nat) /\ next \in Assembly
  BY <1>1, MessageAdded
<1>4. (IF a.open /\ ~a.sep THEN a.current ELSE <<>>) = a.current
  BY <1>1
<1>5. OneText(more) = OneText(ss) \o owed
  <2>1. OneText(more) = OneText(ss) \o ((IF ss = <<>> THEN <<>> ELSE <<Separator>>) \o m.text)
    BY OneTextOf
  <2>2. (IF ss = <<>> THEN <<>> ELSE <<Separator>>) = IF a.open \/ a.sep THEN <<Separator>> ELSE <<>>
    BY <1>1
  <2> QED
    BY <2>1, <2>2 DEF Owed
<1>6. Text(a.blocks) \o (a.current \o owed) = OneText(more) /\ OneText(more) \in Seq(Nat)
  <2>1. (Text(a.blocks) \o a.current) \o owed = Text(a.blocks) \o (a.current \o owed)
    BY <1>2, <1>3, TextsAssociate
  <2>2. more \in Seq(SystemText)
    OBVIOUS
  <2> QED
    BY <1>1, <1>5, <2>1, <2>2, OneTextOf
<1>7. more # <<>>
  <2>1. Len(more) = Len(ss) + 1 /\ Len(ss) \in Nat /\ Len(<<>>) = 0
    OBVIOUS
  <2> HIDE DEF more
  <2>2. Len(more) # 0
    BY <2>1
  <2> QED
    BY <2>1, <2>2
<1>8. OneTextMarks(more) = OneTextMarks(ss) \cup (IF full THEN {OneText(more)} ELSE {})
  BY BreakpointsOf
<1>9. CASE full
  <2>1. PICK now \in SystemText :
          /\ now.text = (IF a.open /\ ~a.sep THEN a.current ELSE <<>>) \o owed
          /\ now.mark /\ now.text # <<>>
          /\ next = [blocks |-> Append(a.blocks, now), current |-> <<>>, open |-> FALSE, sep |-> TRUE]
    BY <1>1, <1>9, MessageAdded
  <2>2. now.text = a.current \o owed
    BY <1>4, <2>1
  <2> HIDE DEF more, owed, full, next
  <2>3. next.blocks = Append(a.blocks, now) /\ next.current = <<>> /\ next.open = FALSE /\ next.sep = TRUE
    BY <2>1
  <2>4. Text(next.blocks) = OneText(more)
    <3>1. Text(Append(a.blocks, now)) = Text(a.blocks) \o now.text
      BY <1>2, TextOf
    <3> QED
      BY <1>6, <2>2, <2>3, <3>1
  <2>5. OneText(more) \o <<>> = OneText(more)
    BY <1>6, ConcatEmptySeq
  <2>6. Marks(next.blocks) = Marks(a.blocks) \cup {Text(next.blocks)}
    <3>1. Marks(Append(a.blocks, now)) = Marks(a.blocks) \cup
            (IF now.mark /\ now.text # <<>> THEN {Text(Append(a.blocks, now))} ELSE {})
      BY <1>2, BreakpointsOf
    <3> QED
      BY <2>1, <2>3, <3>1
  <2>7. Marks(next.blocks) = OneTextMarks(more)
    BY <1>1, <1>8, <1>9, <2>4, <2>6
  <2>8. AssembledAs(more, next)
    BY <1>3, <1>7, <2>3, <2>4, <2>5, <2>7 DEF AssembledAs
  <2> QED
    BY <2>8 DEF more, next
<1>10. CASE ~full
  <2>1. next = [blocks |-> a.blocks, open |-> TRUE, sep |-> FALSE,
                current |-> (IF a.open /\ ~a.sep THEN a.current ELSE <<>>) \o owed]
    BY <1>1, <1>10, MessageAdded
  <2> HIDE DEF more, owed, full, next
  <2>2. next.blocks = a.blocks /\ next.current = a.current \o owed /\ next.open = TRUE /\ next.sep = FALSE
    BY <1>4, <2>1
  <2>3. Marks(next.blocks) = OneTextMarks(more)
    BY <1>1, <1>8, <1>10, <2>2
  <2>4. AssembledAs(more, next)
    BY <1>3, <1>6, <1>7, <2>2, <2>3 DEF AssembledAs
  <2> QED
    BY <2>4 DEF more, next
<1> QED
  BY <1>9, <1>10

\* The blocks that marked messages become say what they say, and mark what they mark.
LEMMA BlocksFromMessages ==
  ASSUME NEW ss \in Seq(SystemText)
  PROVE  /\ SystemBlocksFromMessages(ss) \in Seq(SystemText)
         /\ Text(SystemBlocksFromMessages(ss)) = OneText(ss)
         /\ Marks(SystemBlocksFromMessages(ss)) = OneTextMarks(ss)
<1> DEFINE T == {uu \in Seq(SystemText) : AssembledAs(uu, Assembling(uu))}
           end == Assembling(ss)
           last == [text |-> end.current, mark |-> FALSE]
<1>1. <<>> \in T
  <2>1. NoBlocks \in Assembly /\ NoBlocks.blocks = <<>> /\ NoBlocks.current = <<>>
        /\ NoBlocks.open = FALSE /\ NoBlocks.sep = FALSE
    BY DEF NoBlocks, Assembly
  <2>2. <<>> \o <<>> = <<>> /\ <<>> \in Seq(SystemText)
    OBVIOUS
  <2>3. AssembledAs(<<>>, NoBlocks)
    BY <2>1, <2>2, TextOf, OneTextOf, BreakpointsOf DEF AssembledAs
  <2> QED
    BY <2>2, <2>3, AssemblingOf
<1>2. ASSUME NEW uu \in Seq(SystemText) \cap T, NEW m \in SystemText PROVE Append(uu, m) \in T
  <2>1. Append(uu, m) \in Seq(SystemText) /\ uu \in Seq(SystemText) /\ AssembledAs(uu, Assembling(uu))
    BY <1>2
  <2>2. AssembledAs(Append(uu, m), AddMessage(Assembling(uu), m))
    BY <2>1, AssembledMore
  <2>3. Assembling(Append(uu, m)) = AddMessage(Assembling(uu), m)
    BY <2>1, AssemblingOf
  <2> QED
    BY <2>1, <2>2, <2>3
<1> HIDE DEF T
<1>3. \A uu \in Seq(SystemText) : uu \in T
  BY <1>1, <1>2, AllSequences
<1>4. AssembledAs(ss, end)
  BY <1>3 DEF T
<1>5. SystemBlocksFromMessages(ss) = IF end.open \/ end.blocks = <<>> THEN Append(end.blocks, last) ELSE end.blocks
  BY DEF SystemBlocksFromMessages, Assembling
<1> HIDE DEF end
<1>6. /\ end.blocks \in Seq(SystemText) /\ end.current \in Seq(Nat) /\ end.open \in BOOLEAN
      /\ Text(end.blocks) \o end.current = OneText(ss)
      /\ (~end.open => end.current = <<>>) /\ Marks(end.blocks) = OneTextMarks(ss)
  BY <1>4 DEF AssembledAs, Assembly
<1>7. last \in SystemText /\ last.text = end.current /\ last.mark = FALSE
  BY <1>6 DEF SystemText
<1> HIDE DEF last
<1>8. CASE end.open \/ end.blocks = <<>>
  <2>1. SystemBlocksFromMessages(ss) = Append(end.blocks, last)
    BY <1>5, <1>8
  <2>2. Text(Append(end.blocks, last)) = OneText(ss)
    BY <1>6, <1>7, TextOf
  <2>3. Marks(Append(end.blocks, last)) = OneTextMarks(ss)
    <3>1. Marks(Append(end.blocks, last)) = Marks(end.blocks) \cup
            (IF last.mark /\ last.text # <<>> THEN {Text(Append(end.blocks, last))} ELSE {})
      BY <1>6, <1>7, BreakpointsOf
    <3> QED
      BY <1>6, <1>7, <3>1
  <2> QED
    BY <1>6, <1>7, <2>1, <2>2, <2>3
<1>9. CASE ~(end.open \/ end.blocks = <<>>)
  <2>1. Text(end.blocks) = OneText(ss)
    <3>1. Text(end.blocks) \in Seq(Nat) /\ end.current = <<>>
      BY <1>6, <1>9, TextOf
    <3>2. Text(end.blocks) \o <<>> = Text(end.blocks)
      BY <3>1, ConcatEmptySeq
    <3> QED
      BY <1>6, <3>1, <3>2
  <2> QED
    BY <1>5, <1>6, <1>9, <2>1
<1> QED
  BY <1>8, <1>9

-----------------------------------------------------------------------------
(* RequestOptions: the prompt, from the client to the upstream *)

\* A prompt as it is numbered is one of texts.
LEMMA NumberedTexts ==
  ASSUME NEW s \in SystemTexts
  PROVE  Numbered(s) \in Seq(SystemText)
<1>1. PICK n \in 0..MaxSystem : s \in [1..n -> [full : BOOLEAN, mark : BOOLEAN]]
  BY DEF SystemTexts
<1>2. n \in Nat
  BY OptionsAssumption
<1>3. \A i \in 1..n : s[i].mark \in BOOLEAN /\ (IF s[i].full THEN <<i>> ELSE <<>>) \in Seq(Nat)
  BY <1>1, <1>2
<1>4. \A i \in 1..n :
        [text |-> IF s[i].full THEN <<i>> ELSE <<>>, mark |-> s[i].mark] \in SystemText
  BY <1>3 DEF SystemText
<1>5. DOMAIN s = 1..n
  BY <1>1
<1>6. Numbered(s) = [i \in 1..n |-> [text |-> IF s[i].full THEN <<i>> ELSE <<>>, mark |-> s[i].mark]]
  BY <1>5 DEF Numbered
<1> QED
  BY <1>2, <1>4, <1>6

\* One block without a breakpoint.
LEMMA OneBlock ==
  ASSUME NEW t \in Seq(Nat)
  PROVE  LET one == <<[text |-> t, mark |-> FALSE]>>
         IN  /\ one \in Seq(SystemText) /\ one # <<>>
             /\ Text(one) = t /\ OneText(one) = t
             /\ Marked(one) = {}
<1> DEFINE b == [text |-> t, mark |-> FALSE]
           one == <<b>>
<1>1. b \in SystemText /\ b.text = t /\ b.mark = FALSE
  BY DEF SystemText
<1> HIDE DEF b
<1>2. one = Append(<<>>, b) /\ <<>> \in Seq(SystemText) /\ one \in Seq(SystemText) /\ one # <<>>
  BY <1>1
<1>3. <<>> \o t = t /\ (<<>> \o (<<>> \o t)) = t
  <2>1. <<>> \o t = t
    BY ConcatEmptySeq
  <2> QED
    BY <2>1
<1>4. Text(Append(<<>>, b)) = t
  BY <1>1, <1>2, <1>3, TextOf
<1>5. OneText(Append(<<>>, b)) = t
  <2>1. OneText(Append(<<>>, b)) = OneText(<<>>) \o ((IF <<>> = <<>> THEN <<>> ELSE <<Separator>>) \o b.text)
    BY <1>1, <1>2, OneTextOf
  <2>2. (IF <<>> = <<>> THEN <<>> ELSE <<Separator>>) = <<>> /\ OneText(<<>>) = <<>>
    BY OneTextOf
  <2> QED
    BY <1>1, <1>3, <2>1, <2>2
<1>6. Marked(Append(<<>>, b)) = {}
  <2>1. Marked(Append(<<>>, b)) = Marked(<<>>) \cup (IF b.mark /\ b.text # <<>> THEN {Len(<<>>) + 1} ELSE {})
    BY <1>1, <1>2, MarkedOf
  <2> QED
    BY <1>1, <2>1, MarkedOf
<1>7. one \in Seq(SystemText) /\ one # <<>> /\ Text(one) = t /\ OneText(one) = t /\ Marked(one) = {}
  BY <1>2, <1>4, <1>5, <1>6
<1> QED
  BY <1>7 DEF b

\* Where nothing is marked there is no breakpoint.
LEMMA Unmarked ==
  ASSUME NEW ss, Marked(ss) = {}
  PROVE  Marks(ss) = {} /\ OneTextMarks(ss) = {}
BY MarkedOf

\* A text that bears a breakpoint is one of those that are marked.
LEMMA SomeMarked ==
  ASSUME NEW ss \in Seq(SystemText)
  PROVE  (\E m \in ToSet(ss) : m.mark /\ m.text # <<>>) <=> Marked(ss) # {}
BY DEF Marked, ToSet

\* Anthropic is told the messages that are the prompt, when there are no blocks beside.
LEMMA AnthropicIsTold ==
  ASSUME NEW q, q.system \in Seq(SystemText), q.system_blocks = <<>>
  PROVE  /\ AnthropicSystem(q) \in Seq(SystemText)
         /\ Text(AnthropicSystem(q)) = OneText(q.system)
         /\ Marks(AnthropicSystem(q)) = OneTextMarks(q.system)
<1> DEFINE ss == q.system
           one == <<[text |-> OneText(ss), mark |-> FALSE]>>
<1>1. CASE ss = <<>>
  <2>1. AnthropicSystem(q) = <<>>
    BY <1>1 DEF AnthropicSystem
  <2> QED
    BY <1>1, <2>1, TextOf, OneTextOf, BreakpointsOf
<1>2. CASE ss # <<>> /\ Marked(ss) # {}
  <2>1. \E m \in ToSet(ss) : m.mark /\ m.text # <<>>
    BY <1>2, SomeMarked
  <2>2. AnthropicSystem(q) = SystemBlocksFromMessages(ss)
    BY <1>2, <2>1 DEF AnthropicSystem
  <2> QED
    BY <2>2, BlocksFromMessages
<1>3. CASE ss # <<>> /\ Marked(ss) = {}
  <2>1. ~\E m \in ToSet(ss) : m.mark /\ m.text # <<>>
    BY <1>3, SomeMarked
  <2>2. AnthropicSystem(q) = one
    BY <1>3, <2>1 DEF AnthropicSystem
  <2>3. one \in Seq(SystemText) /\ Text(one) = OneText(ss) /\ Marked(one) = {}
    BY OneTextOf, OneBlock
  <2>4. Marks(one) = {} /\ OneTextMarks(ss) = {}
    BY <1>3, <2>3, Unmarked
  <2> QED
    BY <2>2, <2>3, <2>4
<1> QED
  BY <1>1, <1>2, <1>3

\* Anthropic is told the client's blocks, when they are Anthropic's.
LEMMA BlocksAreTold ==
  ASSUME NEW s \in SystemTexts, NEW q,
         q.system = FlattenSystem(s), q.system_blocks = SystemBlocks(s)
  PROVE  /\ q.system \in Seq(SystemText)
         /\ AnthropicSystem(q) \in Seq(SystemText)
         /\ Words(Text(AnthropicSystem(q))) = Words(OneText(q.system))
         /\ q.system_blocks = <<>> => Text(AnthropicSystem(q)) = OneText(q.system)
         /\ Marks(AnthropicSystem(q)) = Marks(Numbered(s))
<1> DEFINE full == FullBlocks(s)
           built == AnthropicSystem(q)
<1>1. full \in Seq(SystemText) /\ Marks(full) = Marks(Numbered(s)) /\ Text(full) \in Seq(Nat)
  <2>1. full = Full(Numbered(s)) /\ Numbered(s) \in Seq(SystemText)
    BY NumberedTexts DEF FullBlocks
  <2> QED
    BY <2>1, FullOf, FullKeeps, TextOf
<1>2. q.system = IF full = <<>> THEN <<>> ELSE <<[text |-> Text(full), mark |-> FALSE]>>
  BY DEF FlattenSystem
<1>3. q.system_blocks = IF \E b \in ToSet(full) : b.mark THEN full ELSE <<>>
  BY DEF SystemBlocks
<1> HIDE DEF full
<1>4. q.system \in Seq(SystemText) /\ OneText(q.system) = Text(full) /\ Marked(q.system) = {}
  <2>1. CASE full = <<>>
    <3>1. q.system = <<>> /\ <<>> \in Seq(SystemText)
      BY <1>2, <2>1
    <3> QED
      BY <2>1, <3>1, TextOf, OneTextOf, MarkedOf
  <2>2. CASE full # <<>>
    <3>1. q.system = <<[text |-> Text(full), mark |-> FALSE]>>
      BY <1>2, <2>2
    <3> QED
      BY <1>1, <3>1, OneBlock
  <2> QED
    BY <2>1, <2>2
<1>5. CASE q.system_blocks = <<>>
  <2>1. built \in Seq(SystemText) /\ Text(built) = OneText(q.system) /\ Marks(built) = OneTextMarks(q.system)
    BY <1>4, <1>5, AnthropicIsTold
  <2>2. Marked(full) = {}
    <3>1. CASE full = <<>>
      BY <3>1, MarkedOf
    <3>2. CASE full # <<>>
      <4>1. ~\E b \in ToSet(full) : b.mark
        BY <1>3, <1>5, <3>2
      <4> QED
        BY <1>1, <4>1, SomeMarked
    <3> QED
      BY <3>1, <3>2
  <2>3. Marks(full) = {} /\ OneTextMarks(q.system) = {}
    BY <1>4, <2>2, Unmarked
  <2> QED
    BY <1>1, <1>4, <2>1, <2>3
<1>6. CASE q.system_blocks # <<>>
  <2>1. q.system_blocks = full
    BY <1>3, <1>6
  <2>2. built = full
    BY <1>6, <2>1 DEF AnthropicSystem
  <2> QED
    BY <1>1, <1>4, <1>6, <2>2
<1> QED
  BY <1>5, <1>6

\* Gemini is told one text, the others the messages.
LEMMA OthersAreTold ==
  ASSUME NEW q, q.system \in Seq(SystemText)
  PROVE  /\ OneText(GeminiPayload(q).system) = OneText(q.system)
         /\ OneText(OpenAIPayload(q).system) = OneText(q.system)
         /\ OneText(OllamaPayload(q).system) = OneText(q.system)
<1>1. CASE q.system = <<>>
  BY <1>1 DEF GeminiPayload, OpenAIPayload, OllamaPayload
<1>2. CASE q.system # <<>>
  <2>1. GeminiPayload(q).system = <<[text |-> OneText(q.system), mark |-> FALSE]>>
    BY <1>2 DEF GeminiPayload
  <2>2. OneText(q.system) \in Seq(Nat)
    BY OneTextOf
  <2> QED
    BY <2>1, <2>2, OneBlock DEF OpenAIPayload, OllamaPayload
<1> QED
  BY <1>1, <1>2

\* The prompt that the pipeline has of a request.
LEMMA PromptReceived ==
  ASSUME asked \in Requests
  PROVE  LET q == Received(asked)
         IN  \/ asked.dialect = "openai" /\ q.system = <<>> /\ q.system_blocks = <<>>
             \/ /\ asked.dialect = "anthropic" /\ asked.system \in SystemTexts
                /\ q.system = FlattenSystem(asked.system)
                /\ q.system_blocks = SystemBlocks(asked.system)
             \/ /\ asked.dialect = "native" /\ asked.system \in SystemTexts
                /\ q.system = Numbered(asked.system) /\ q.system_blocks = <<>>
<1>1. <<>> \in SystemTexts
  <2>1. 0 \in 0..MaxSystem
    BY OptionsAssumption
  <2>2. <<>> \in [1..0 -> [full : BOOLEAN, mark : BOOLEAN]]
    OBVIOUS
  <2> QED
    BY <2>1, <2>2 DEF SystemTexts
<1>2. ASSUME asked.dialect = "openai"
      PROVE  Received(asked).system = <<>> /\ Received(asked).system_blocks = <<>>
  BY <1>2 DEF Received, OpenAIToChatRequest, ChatRequest
<1>3. ASSUME asked.dialect = "anthropic"
      PROVE  /\ Received(asked).system = FlattenSystem(asked.system)
             /\ Received(asked).system_blocks = SystemBlocks(asked.system)
  BY <1>3 DEF Received, AnthropicToChatRequest, ChatRequest
<1>4. ASSUME NEW s, asked = [ChatRequest EXCEPT !.system = s]
      PROVE  /\ asked.dialect = "native" /\ asked.system = s
             /\ Received(asked).system = Numbered(s) /\ Received(asked).system_blocks = <<>>
  BY <1>4 DEF Received, ChatRequest
<1>5. ASSUME NEW ts, NEW c, NEW par, NEW f, NEW m, NEW mc, asked = WithTools(ts, c, par, f, m, mc)
      PROVE  asked.dialect = "openai"
  BY <1>5 DEF WithTools, ChatCompletionsRequest
<1>6. ASSUME NEW fs, NEW c, NEW ts, NEW tc, asked = WithFunctions(fs, c, ts, tc)
      PROVE  asked.dialect = "openai"
  BY <1>6 DEF WithFunctions, ChatCompletionsRequest
<1>7. ASSUME NEW ts, NEW c, NEW d, asked = Messages(ts, c, d)
      PROVE  asked.dialect = "anthropic" /\ asked.system = <<>>
  BY <1>7 DEF Messages, AnthropicMessagesRequest
<1>8. ASSUME NEW f, NEW d, asked = MessagesForcing(f, d)
      PROVE  asked.dialect = "anthropic" /\ asked.system = <<>>
  BY <1>8 DEF MessagesForcing, Messages, AnthropicMessagesRequest
<1>9. ASSUME NEW s, asked = [AnthropicMessagesRequest EXCEPT !.system = s]
      PROVE  asked.dialect = "anthropic" /\ asked.system = s
  BY <1>9 DEF AnthropicMessagesRequest
<1>10. \/ asked.dialect = "openai"
       \/ asked.dialect = "anthropic" /\ asked.system \in SystemTexts
       \/ \E s \in SystemTexts : asked = [ChatRequest EXCEPT !.system = s]
  BY <1>1, <1>5, <1>6, <1>7, <1>8, <1>9, RequestKinds
<1> QED
  BY <1>2, <1>3, <1>4, <1>10

\* The system prompt reaches every upstream whole and in order, and Anthropic with a cache
\* breakpoint at the end of each text that bears one, and nowhere else (_flatten_system and
\* _system_blocks of anthropic_compat.py, _system_blocks_from_messages of
\* providers/anthropic.py, _build_payload of every provider).
THEOREM SystemStaysWhole == OptionsSpec => []SystemKept
<1>1. AskedOK => SystemKept
  <2> SUFFICES ASSUME AskedOK, IsAsked PROVE SystemKept
    BY DEF SystemKept
  <2> DEFINE q == Received(asked)
             built == Built("anthropic").system
  <2>1. asked \in Requests
    BY DEF AskedOK, IsAsked
  <2>2. /\ built = AnthropicSystem(q)
        /\ Built("openai").system = OpenAIPayload(q).system
        /\ Built("gemini").system = GeminiPayload(q).system
        /\ Built("ollama").system = OllamaPayload(q).system
    BY DEF Built, BuildPayload, AnthropicPayload
  <2>3. \/ asked.dialect = "openai" /\ q.system = <<>> /\ q.system_blocks = <<>>
        \/ /\ asked.dialect = "anthropic" /\ asked.system \in SystemTexts
           /\ q.system = FlattenSystem(asked.system)
           /\ q.system_blocks = SystemBlocks(asked.system)
        \/ /\ asked.dialect = "native" /\ asked.system \in SystemTexts
           /\ q.system = Numbered(asked.system) /\ q.system_blocks = <<>>
    BY <2>1, PromptReceived
  <2> HIDE DEF q, built
  <2>4. /\ q.system \in Seq(SystemText) /\ built \in Seq(SystemText)
        /\ Words(Text(built)) = Words(OneText(q.system))
        /\ q.system_blocks = <<>> => Text(built) = OneText(q.system)
        /\ asked.dialect = "native" => Marks(built) = OneTextMarks(q.system)
        /\ asked.dialect = "anthropic" => Marks(built) = Marks(Numbered(asked.system))
    <3>1. CASE asked.dialect = "openai" /\ q.system = <<>> /\ q.system_blocks = <<>>
      <4>1. q.system \in Seq(SystemText)
        BY <3>1
      <4> QED
        BY <2>2, <3>1, <4>1, AnthropicIsTold
    <3>2. CASE /\ asked.dialect = "anthropic" /\ asked.system \in SystemTexts
               /\ q.system = FlattenSystem(asked.system)
               /\ q.system_blocks = SystemBlocks(asked.system)
      BY <2>2, <3>2, BlocksAreTold
    <3>3. CASE /\ asked.dialect = "native" /\ asked.system \in SystemTexts
               /\ q.system = Numbered(asked.system) /\ q.system_blocks = <<>>
      <4>1. q.system \in Seq(SystemText)
        BY <3>3, NumberedTexts
      <4> QED
        BY <2>2, <3>3, <4>1, AnthropicIsTold
    <3> QED
      BY <2>3, <3>1, <3>2, <3>3
  <2>5. ASSUME NEW p \in Backends PROVE Words(OneText(Built(p).system)) = Words(OneText(q.system))
    <3>1. Words(OneText(built)) = Words(OneText(q.system))
      BY <2>4, SameWords
    <3>2. p \in {"anthropic", "openai", "gemini", "ollama"}
      BY DEF Backends
    <3> QED
      BY <2>2, <2>4, <3>1, <3>2, OthersAreTold DEF built
  <2>6. /\ \A p \in Backends : Words(OneText(Built(p).system)) = Words(OneText(q.system))
        /\ q.system_blocks = <<>> => Text(built) = OneText(q.system)
        /\ asked.dialect = "native" => Breakpoints(built, Text) = Breakpoints(q.system, OneText)
        /\ asked.dialect = "anthropic" =>
             Breakpoints(built, Text) = Breakpoints(Numbered(asked.system), Text)
    BY <2>4, <2>5 DEF Marks, OneTextMarks
  <2> QED
    BY <2>6 DEF SystemKept, q, built
<1> QED
  BY <1>1, OptionsInvariant, PTL

-----------------------------------------------------------------------------
(* StreamAdapters: the order of an adapter's events *)

\* What may be open after some events, and what is after one more.
Lefts == {"none", "text", "thinking", "extra", "wrong"}
Then(a, b, k) == IF b = "wrong" THEN b ELSE BlockAfter(a, b, k)

\* BlockAfter leaves one of these open, whatever the event.
LEMMA ThenLeaves ==
  ASSUME NEW a, NEW b \in Lefts, NEW k
  PROVE  Then(a, b, k) \in Lefts
<1>1. \/ k = "text" \/ k \in {"refusal", "citation"} \/ k = "thinking" \/ k = "signature"
      \/ k = "thinking_block" \/ k \in {"note", "fields"} \/ k = "extra_start"
      \/ k = "extra_delta" \/ k = "extra"
      \/ BlockAfter(a, b, k) = b
  BY DEF BlockAfter
<1> QED
  BY <1>1 DEF Then, BlockAfter, Lefts

\* One turn of the fold in LeftOpen, and what the first k events leave open.
Leaving(a, es, f) ==
  [s \in SUBSET DOMAIN es |-> IF s = {} THEN "none" ELSE Then(a, f[s \ {Max(s)}], es[Max(s)].kind)]
LeftTo(a, es) == [k \in 0..Len(es) |-> (CHOOSE f : f = Leaving(a, es, f))[1..k]]

\* LeftOpen is turned event by event.
LEMMA LeftBy ==
  ASSUME NEW a, NEW S, NEW es \in Seq(S)
  PROVE  /\ LeftOpen(a, es) = LeftTo(a, es)[Len(es)] /\ LeftTo(a, es)[0] = "none"
         /\ \A k \in 1..Len(es) : LeftTo(a, es)[k] = Then(a, LeftTo(a, es)[k - 1], es[k].kind)
<1> DEFINE len == Len(es)
           fold == CHOOSE f : f = Leaving(a, es, f)
           Next1 == [p \in Lefts \X (1..len) |-> Then(a, p[1], es[p[2]].kind)]
<1>1. len \in Nat /\ DOMAIN es = 1..len
  OBVIOUS
<1>2. LeftOpen(a, es) = fold[DOMAIN es]
  BY Zenon DEF LeftOpen, FoldLeft, MapThenFoldSet, Leaving, Then
<1>3. Next1 \in [Lefts \X (1..len) -> Lefts]
  BY ThenLeaves
<1>4. PICK h \in [SUBSET (1..len) -> Lefts] : h = FoldTurn(Next1, "none", h, len)
  <2> HIDE DEF Next1, len, fold
  <2>1. len \in Nat /\ "none" \in Lefts
    BY <1>1 DEF Lefts
  <2>2. \A m \in Nat : \A g \in [Lefts \X (1..m) -> Lefts] :
          \E h \in [SUBSET (1..m) -> Lefts] : h = FoldTurn(g, "none", h, m)
    BY <2>1, FoldExists, Zenon
  <2> QED
    BY <1>3, <2>1, <2>2, Zenon
<1>5. ASSUME NEW s \in SUBSET (1..len), s # {} PROVE Max(s) \in 1..len
  BY <1>1, <1>5, MaxIn
<1>6. h = Leaving(a, es, h)
  <2>1. \A s \in SUBSET (1..len) : s # {} =>
          Next1[<<h[s \ {Max(s)}], Max(s)>>] = Then(a, h[s \ {Max(s)}], es[Max(s)].kind)
    BY <1>5
  <2> HIDE DEF Next1
  <2> QED
    BY <1>1, <1>4, <2>1 DEF FoldTurn, Leaving
<1>7. fold = Leaving(a, es, fold)
  BY <1>6, Zenon
<1> HIDE DEF fold, Next1
<1>8. fold[{}] = "none"
  BY <1>7 DEF Leaving
<1>9. ASSUME NEW k \in 1..len PROVE fold[1..k] = Then(a, fold[1..(k - 1)], es[k].kind)
  <2>1. k \in Nat \ {0} /\ 1..k \in SUBSET (1..len) /\ k \in 1..k
    BY <1>1
  <2>2. Max(1..k) = k /\ (1..k) \ {k} = 1..(k - 1) /\ 1..k # {}
    BY <2>1, MaxTo
  <2> QED
    BY <1>1, <1>7, <2>1, <2>2 DEF Leaving
<1>10. \A k \in 0..len : LeftTo(a, es)[k] = fold[1..k]
  BY DEF LeftTo, fold
<1>11. /\ LeftTo(a, es)[0] = "none"
       /\ \A k \in 1..len : LeftTo(a, es)[k] = Then(a, LeftTo(a, es)[k - 1], es[k].kind)
  BY <1>1, <1>8, <1>9, <1>10
<1>12. LeftOpen(a, es) = LeftTo(a, es)[len]
  BY <1>1, <1>2, <1>10
<1> QED
  BY <1>11, <1>12

\* An event more is a turn more.
LEMMA LeftByMore ==
  ASSUME NEW a, NEW S, NEW es \in Seq(S), NEW e \in S
  PROVE  LeftOpen(a, Append(es, e)) = Then(a, LeftOpen(a, es), e.kind)
<1> DEFINE both == Append(es, e)
           len == Len(es)
<1>1. both \in Seq(S) /\ Len(both) = len + 1 /\ both[len + 1] = e /\ len \in Nat
  OBVIOUS
<1>2. \A i \in 1..len : both[i] = es[i]
  OBVIOUS
<1> HIDE DEF both
<1>3. /\ LeftOpen(a, both) = LeftTo(a, both)[len + 1] /\ LeftTo(a, both)[0] = "none"
      /\ \A k \in 1..(len + 1) : LeftTo(a, both)[k] = Then(a, LeftTo(a, both)[k - 1], both[k].kind)
  BY <1>1, LeftBy
<1>4. /\ LeftOpen(a, es) = LeftTo(a, es)[len] /\ LeftTo(a, es)[0] = "none"
      /\ \A k \in 1..len : LeftTo(a, es)[k] = Then(a, LeftTo(a, es)[k - 1], es[k].kind)
  BY LeftBy
<1> HIDE DEF len
<1>5. \A k \in 0..len : LeftTo(a, both)[k] = LeftTo(a, es)[k]
  <2> DEFINE T == {k \in 0..len : LeftTo(a, both)[k] = LeftTo(a, es)[k]}
  <2>1. 0 \in T
    BY <1>1, <1>3, <1>4
  <2>2. ASSUME NEW k \in 1..len, k - 1 \in T PROVE k \in T
    <3>1. LeftTo(a, both)[k - 1] = LeftTo(a, es)[k - 1] /\ both[k] = es[k] /\ k \in 1..(len + 1)
      BY <1>1, <1>2, <2>2
    <3>2. LeftTo(a, both)[k] = Then(a, LeftTo(a, both)[k - 1], both[k].kind)
      BY <1>3, <3>1
    <3>3. LeftTo(a, es)[k] = Then(a, LeftTo(a, es)[k - 1], es[k].kind)
      BY <1>4
    <3> QED
      BY <3>1, <3>2, <3>3
  <2> HIDE DEF T
  <2>3. \A k \in 0..len : k \in T
    BY <1>1, <2>1, <2>2, UpTo
  <2> QED
    BY <2>3 DEF T
<1>6. len + 1 \in 1..(len + 1) /\ (len + 1) - 1 = len /\ len \in 0..len
  BY <1>1
<1>7. LeftTo(a, both)[len + 1] = Then(a, LeftTo(a, both)[(len + 1) - 1], both[len + 1].kind)
  BY <1>3, <1>6
<1> QED
  BY <1>1, <1>3, <1>4, <1>5, <1>6, <1>7 DEF both

\* No event leaves anything open.
LEMMA NothingLeft == ASSUME NEW a PROVE LeftOpen(a, <<>>) = "none"
<1>1. <<>> \in Seq({}) /\ Len(<<>>) = 0
  OBVIOUS
<1> QED
  BY <1>1, LeftBy

\* What an adapter may have open.
Opens == {"none", "text", "thinking", "signed", "call", "extra"}

\* What StreamChat has open when adapter a has o open.
Fitting(a, o) ==
  IF a = "ollama" THEN {"none", "text", "thinking"}
  ELSE IF a # "anthropic" THEN {"none", "text"}
  ELSE IF o = "extra" THEN {"extra"}
  ELSE IF o = "signed" THEN {"none"}
  ELSE IF o = "thinking" THEN {"none", "text", "thinking"}
  ELSE {"none", "text"}

\* What ArrivesAsAssumed rests on: while a stream is read, the two agree on what is open.
ArrivalInv ==
  /\ items \in Nat /\ open \in Opens
  /\ \E S : events \in Seq(S)
  /\ adapter # "anthropic" => open = "none"
  /\ items = 0 /\ phase = "reading" => open = "none" /\ events = <<>>
  /\ \A i \in DOMAIN events : events[i].kind = "fields" => i = 1
  /\ LeftOpen(adapter, events) # "wrong"
  /\ phase = "reading" => LeftOpen(adapter, events) \in Fitting(adapter, open)

\* A stream is read on, and es is yielded.
Yields(es) ==
  /\ phase = "reading" /\ phase' = phase /\ adapter' = adapter
  /\ items' \in Nat \ {0}
  /\ events' = events \o es

\* What comes is read, and yielded.
LEMMA ComesYields ==
  ASSUME ArrivalInv, NEW a, NEW es, Comes(a, es)
  PROVE  adapter = a /\ Yields(es)
<1>1. items \in Nat /\ items' = items + 1
  BY DEF ArrivalInv, Comes, Item
<1>2. items' \in Nat \ {0}
  BY <1>1
<1> QED
  BY <1>2 DEF Comes, Yields

\* Nothing is yielded.
LEMMA QuietStep ==
  ASSUME ArrivalInv, Yields(<<>>), open' \in Opens, adapter # "anthropic" => open' = "none",
         Fitting(adapter, open) \subseteq Fitting(adapter, open')
  PROVE  ArrivalInv'
<1>1. PICK S : events \in Seq(S)
  BY DEF ArrivalInv
<1>2. events' = events
  BY <1>1, ConcatEmptySeq DEF Yields
<1>3. adapter' = adapter /\ phase' = phase /\ phase = "reading" /\ items' \in Nat \ {0}
  BY DEF Yields
<1> QED
  BY <1>2, <1>3 DEF ArrivalInv

\* An event is.
LEMMA SaidStep ==
  ASSUME ArrivalInv, NEW e, Yields(<<e>>), open' \in Opens,
         adapter # "anthropic" => open' = "none", e.kind = "fields" => events = <<>>,
         \A b \in Fitting(adapter, open) : BlockAfter(adapter, b, e.kind) \in Fitting(adapter, open')
  PROVE  ArrivalInv'
<1>1. PICK S0 : events \in Seq(S0)
  BY DEF ArrivalInv
<1> DEFINE S == S0 \cup {e}
<1>2. events \in Seq(S) /\ e \in S
  BY <1>1
<1> HIDE DEF S
<1>3. events' = Append(events, e)
  BY <1>2 DEF Yields
<1>4. adapter' = adapter /\ phase' = phase /\ phase = "reading" /\ items' \in Nat \ {0}
  BY DEF Yields
<1>6. events' \in Seq(S)
  BY <1>2, <1>3
<1>7. \A i \in DOMAIN events' : events'[i].kind = "fields" => i = 1
  <2> SUFFICES ASSUME NEW i \in DOMAIN events', events'[i].kind = "fields" PROVE i = 1
    OBVIOUS
  <2>1. Len(events) \in Nat /\ DOMAIN events = 1..Len(events) /\ DOMAIN events' = 1..(Len(events) + 1)
        /\ events'[Len(events) + 1] = e /\ \A j \in 1..Len(events) : events'[j] = events[j]
    BY <1>2, <1>3
  <2>2. CASE i \in 1..Len(events)
    BY <2>1, <2>2 DEF ArrivalInv
  <2>3. CASE i = Len(events) + 1
    <3>1. events = <<>>
      BY <2>1, <2>3
    <3>2. Len(events) = 0
      BY <3>1
    <3> QED
      BY <2>3, <3>2
  <2> QED
    BY <2>1, <2>2, <2>3
<1>8. LeftOpen(adapter, events') = Then(adapter, LeftOpen(adapter, events), e.kind)
  BY <1>2, <1>3, LeftByMore
<1>9. LeftOpen(adapter, events) \in Fitting(adapter, open) /\ LeftOpen(adapter, events) # "wrong"
  BY <1>4 DEF ArrivalInv
<1>10. LeftOpen(adapter, events') \in Fitting(adapter, open')
  BY <1>8, <1>9 DEF Then
<1>11. "wrong" \notin Fitting(adapter, open')
  BY DEF Fitting
<1>12. LeftOpen(adapter', events') # "wrong" /\ LeftOpen(adapter', events') \in Fitting(adapter', open')
  BY <1>4, <1>10, <1>11
<1> QED
  BY <1>4, <1>6, <1>7, <1>12 DEF ArrivalInv

\* Anthropic's blocks are passed on as they start, grow and stop.
LEMMA AnthropicArrives ==
  ASSUME ArrivalInv, Anthropic
  PROVE  ArrivalInv'
<1>0. open \in Opens
  BY DEF ArrivalInv
<1>a. \A o \in Opens : Fitting("anthropic", o) = IF o = "extra" THEN {"extra"}
                ELSE IF o = "signed" THEN {"none"}
                ELSE IF o = "thinking" THEN {"none", "text", "thinking"}
                ELSE {"none", "text"}
  BY DEF Fitting
<1>1. CASE MessageStart
  <2>1. PICK extra \in BOOLEAN : Comes("anthropic", IF extra THEN Says("fields") ELSE <<>>)
    BY <1>1 DEF MessageStart
  <2>2. items = 0 /\ open' = open
    BY <1>1 DEF MessageStart
  <2>3. CASE extra
    <3> DEFINE e == [kind |-> "fields", body |-> <<Item>>]
    <3>1. adapter = "anthropic" /\ Yields(<<e>>) /\ e.kind = "fields"
      BY <2>1, <2>3, ComesYields DEF Says
    <3> HIDE DEF e
    <3>2. events = <<>> /\ open = "none"
      BY <2>2, <3>1 DEF ArrivalInv, Yields
    <3>3. \A b \in {"none", "text"} : BlockAfter("anthropic", b, "fields") = b
      BY DEF BlockAfter
    <3> QED
      BY <1>0, <1>a, <2>2, <3>1, <3>2, <3>3, SaidStep
  <2>4. CASE ~extra
    <3>1. adapter = "anthropic" /\ Yields(<<>>)
      BY <2>1, <2>4, ComesYields
    <3> QED
      BY <1>0, <2>2, <3>1, QuietStep
  <2> QED
    BY <2>3, <2>4
<1>2. ASSUME NEW k \in {"text", "thinking", "redacted", "call", "extra"}, BlockStart(k)
      PROVE  ArrivalInv'
  <2>1. /\ open = "none" /\ open' = IF k = "redacted" THEN "none" ELSE k
        /\ open' \in Opens
    BY <1>2 DEF BlockStart, Opens
  <2>2. CASE k = "redacted"
    <3> DEFINE e == [kind |-> "thinking_block", body |-> <<Item>>]
    <3>1. adapter = "anthropic" /\ Yields(<<e>>) /\ e.kind = "thinking_block"
      BY <1>2, <2>2, ComesYields DEF BlockStart, Says
    <3> HIDE DEF e
    <3>2. \A b \in {"none", "text"} : BlockAfter("anthropic", b, "thinking_block") = "none"
      BY DEF BlockAfter
    <3> QED
      BY <1>0, <1>a, <2>1, <2>2, <3>1, <3>2, SaidStep
  <2>3. CASE k = "extra"
    <3> DEFINE e == [kind |-> "extra_start", body |-> <<Item>>]
    <3>1. adapter = "anthropic" /\ Yields(<<e>>) /\ e.kind = "extra_start"
      BY <1>2, <2>3, ComesYields DEF BlockStart, Says
    <3> HIDE DEF e
    <3>2. \A b \in {"none", "text"} : BlockAfter("anthropic", b, "extra_start") = "extra"
      BY DEF BlockAfter
    <3> QED
      BY <1>0, <1>a, <2>1, <2>3, <3>1, <3>2, SaidStep
  <2>4. CASE k \in {"text", "thinking", "call"}
    <3>1. adapter = "anthropic" /\ Yields(<<>>)
      BY <1>2, <2>4, ComesYields DEF BlockStart
    <3>2. Fitting(adapter, open) \subseteq Fitting(adapter, open')
      <4>1. Fitting("anthropic", open) = {"none", "text"} /\ open' = k
        BY <1>0, <1>a, <2>1, <2>4
      <4>2. k # "extra" /\ k # "signed" /\ k \in Opens
        BY <2>4 DEF Opens
      <4>3. {"none", "text"} \subseteq Fitting("anthropic", k)
        BY <4>2 DEF Fitting
      <4> QED
        BY <3>1, <4>1, <4>3
    <3> QED
      BY <2>1, <3>1, <3>2, QuietStep
  <2> QED
    BY <2>2, <2>3, <2>4
<1>3. CASE BlockDelta
  <2>1. open' = open /\ open \in {"text", "thinking", "call", "extra"}
    BY <1>3 DEF BlockDelta
  <2>2. CASE open = "text" \/ (open = "call" /\ emulating)
    <3> DEFINE e == [kind |-> "text", body |-> <<Item>>]
    <3>1. adapter = "anthropic" /\ Yields(<<e>>) /\ e.kind = "text"
      BY <1>3, <2>2, ComesYields DEF BlockDelta, Says
    <3> HIDE DEF e
    <3>2. \A b \in {"none", "text"} : BlockAfter("anthropic", b, "text") = "text"
      BY DEF BlockAfter
    <3> QED
      BY <1>0, <1>a, <2>1, <2>2, <3>1, <3>2, SaidStep
  <2>3. CASE open = "thinking"
    <3> DEFINE e == [kind |-> "thinking", body |-> <<Item>>]
    <3>1. adapter = "anthropic" /\ Yields(<<e>>) /\ e.kind = "thinking"
      BY <1>3, <2>3, ComesYields DEF BlockDelta, Says
    <3> HIDE DEF e
    <3>2. \A b \in {"none", "text", "thinking"} : BlockAfter("anthropic", b, "thinking") = "thinking"
      BY DEF BlockAfter
    <3> QED
      BY <1>0, <1>a, <2>1, <2>3, <3>1, <3>2, SaidStep
  <2>4. CASE open = "extra"
    <3> DEFINE e == [kind |-> "extra_delta", body |-> <<Item>>]
    <3>1. adapter = "anthropic" /\ Yields(<<e>>) /\ e.kind = "extra_delta"
      BY <1>3, <2>4, ComesYields DEF BlockDelta, Says
    <3> HIDE DEF e
    <3>2. BlockAfter("anthropic", "extra", "extra_delta") = "extra"
      BY DEF BlockAfter
    <3> QED
      BY <1>0, <1>a, <2>1, <2>4, <3>1, <3>2, SaidStep
  <2>5. CASE open = "call" /\ ~emulating
    <3>1. adapter = "anthropic" /\ Yields(<<>>)
      BY <1>3, <2>5, ComesYields DEF BlockDelta
    <3> QED
      BY <1>0, <2>1, <3>1, QuietStep
  <2> QED
    BY <2>1, <2>2, <2>3, <2>4, <2>5
<1>4. CASE Signature
  <2> DEFINE e == [kind |-> "signature", body |-> <<Item>>]
  <2>1. adapter = "anthropic" /\ Yields(<<e>>) /\ e.kind = "signature"
    BY <1>4, ComesYields DEF Signature, Says
  <2> HIDE DEF e
  <2>2. open = "thinking" /\ open' = "signed" /\ open' \in Opens
    BY <1>4 DEF Signature, Opens
  <2>3. \A b \in {"none", "text", "thinking"} : BlockAfter("anthropic", b, "signature") = "none"
    BY DEF BlockAfter
  <2> QED
    BY <1>0, <1>a, <2>1, <2>2, <2>3, SaidStep
<1>5. CASE Citation
  <2> DEFINE e == [kind |-> "citation", body |-> <<Item>>]
  <2>1. adapter = "anthropic" /\ Yields(<<e>>) /\ e.kind = "citation"
    BY <1>5, ComesYields DEF Citation, Says
  <2> HIDE DEF e
  <2>2. open = "text" /\ open' = open
    BY <1>5 DEF Citation
  <2>3. \A b \in {"none", "text"} : BlockAfter("anthropic", b, "citation") = "text"
    BY DEF BlockAfter
  <2> QED
    BY <1>0, <1>a, <2>1, <2>2, <2>3, SaidStep
<1>6. CASE BlockStop
  <2>1. /\ phase = "reading" /\ phase' = phase /\ adapter' = adapter /\ items' = items
        /\ open \in {"text", "signed", "call", "extra"} /\ open' = "none"
    BY <1>6 DEF BlockStop
  <2>2. items' \in Nat \ {0} /\ adapter = "anthropic"
    BY <2>1 DEF ArrivalInv
  <2>3. PICK S0 : events \in Seq(S0)
    BY DEF ArrivalInv
  <2>4. CASE open = "extra"
    <3> DEFINE e == [kind |-> "extra", body |-> extras[Here]]
    <3>1. events' = Append(events, e) /\ e.kind = "extra"
      BY <1>6, <2>4 DEF BlockStop
    <3> HIDE DEF e
    <3> DEFINE S == S0 \cup {e}
    <3>2. events \in Seq(S) /\ e \in S
      BY <2>3
    <3> HIDE DEF S
    <3>3. events \o <<e>> = Append(events, e)
      BY <3>2
    <3>4. Yields(<<e>>)
      BY <2>1, <2>2, <3>1, <3>3 DEF Yields
    <3>5. BlockAfter("anthropic", "extra", "extra") = "none"
      BY DEF BlockAfter
    <3>6. "none" \in Opens
      BY DEF Opens
    <3> QED
      BY <1>0, <1>a, <2>1, <2>2, <2>4, <3>1, <3>4, <3>5, <3>6, SaidStep
  <2>5. CASE open # "extra"
    <3>1. events' = events
      BY <1>6, <2>5 DEF BlockStop
    <3>2. events \o <<>> = events
      BY <2>3, ConcatEmptySeq
    <3>3. Yields(<<>>)
      BY <2>1, <2>2, <3>1, <3>2 DEF Yields
    <3>4. open' \in Opens
      BY <2>1 DEF Opens
    <3>5. Fitting(adapter, open) \subseteq Fitting(adapter, open')
      BY <1>0, <1>a, <2>1, <2>2, <2>5, <3>4
    <3> QED
      BY <2>2, <3>3, <3>4, <3>5, QuietStep
  <2> QED
    BY <2>4, <2>5
<1>7. ASSUME NEW raw, MessageDelta(raw) PROVE ArrivalInv'
  <2>1. adapter = "anthropic" /\ Yields(<<>>)
    BY <1>7, ComesYields DEF MessageDelta
  <2>2. open' = open
    BY <1>7 DEF MessageDelta
  <2> QED
    BY <1>0, <2>1, <2>2, QuietStep
<1> QED
  BY <1>1, <1>2, <1>3, <1>4, <1>5, <1>6, <1>7 DEF Anthropic

\* The others have no blocks.
LEMMA OthersArrive ==
  ASSUME ArrivalInv, OpenAI \/ Parts
  PROVE  ArrivalInv'
<1>0. open \in Opens
  BY DEF ArrivalInv
<1>1. ASSUME NEW a \in Adapters \ {"anthropic"}, Comes(a, <<>>), open' = open PROVE ArrivalInv'
  <2>1. adapter = a /\ Yields(<<>>)
    BY <1>1, ComesYields
  <2>2. open = "none"
    BY <2>1 DEF ArrivalInv
  <2> QED
    BY <1>0, <1>1, <2>1, <2>2, QuietStep
<1>2. ASSUME NEW a \in Adapters \ {"anthropic"}, NEW e, Comes(a, <<e>>), open' = open,
             \/ e.kind \in {"text", "refusal", "note", "end"}
             \/ e.kind = "thinking" /\ a = "ollama",
             e.kind \in {"refusal", "note"} => a = "openai"
      PROVE  ArrivalInv'
  <2>1. adapter = a /\ Yields(<<e>>)
    BY <1>2, ComesYields
  <2>2. open = "none"
    BY <2>1 DEF ArrivalInv
  <2>3. a # "anthropic" /\ Fitting(a, open) = IF a = "ollama" THEN {"none", "text", "thinking"} ELSE {"none", "text"}
    BY DEF Fitting
  <2>4. \A b \in {"none", "text", "thinking"} :
          /\ b # "thinking" \/ a = "ollama" => BlockAfter(a, b, "text") = "text"
          /\ BlockAfter(a, b, "end") = b /\ BlockAfter(a, b, "thinking") = "thinking"
          /\ b # "thinking" => BlockAfter(a, b, "refusal") = "text" /\ BlockAfter(a, b, "note") = b
    BY DEF BlockAfter
  <2>5. \A b \in Fitting(a, open) : BlockAfter(a, b, e.kind) \in Fitting(a, open)
    BY <1>2, <2>3, <2>4
  <2> QED
    BY <1>0, <1>2, <2>1, <2>2, <2>3, <2>5, SaidStep
<1>3. \A k : Says(k) = <<[kind |-> k, body |-> <<Item>>]>> /\ [kind |-> k, body |-> <<Item>>].kind = k
  BY DEF Says
<1>4. \A r, u : Ending(r, u) = <<[kind |-> "end", body |-> [reason |-> r, usage |-> u]]>>
               /\ [kind |-> "end", body |-> [reason |-> r, usage |-> u]].kind = "end"
  BY DEF Ending
<1>5. ASSUME NEW a \in Adapters \ {"anthropic"}, NEW k, Comes(a, Says(k)), open' = open,
             k = "text" \/ (k = "thinking" /\ a = "ollama") \/ (k \in {"refusal", "note"} /\ a = "openai")
      PROVE  ArrivalInv'
  BY <1>2, <1>3, <1>5
<1>6. ASSUME NEW a \in Adapters \ {"anthropic"}, NEW r, NEW u, Comes(a, Ending(r, u)), open' = open
      PROVE  ArrivalInv'
  BY <1>2, <1>4, <1>6
<1>7. "openai" \in Adapters \ {"anthropic"} /\ "gemini" \in Adapters \ {"anthropic"}
      /\ "ollama" \in Adapters \ {"anthropic"} /\ "echo" \in Adapters \ {"anthropic"}
  BY DEF Adapters
<1>8. CASE Note
  BY <1>5, <1>7, <1>8 DEF Note
<1>9. CASE CallChunk
  BY <1>1, <1>7, <1>9 DEF CallChunk
<1>10. CASE UsageChunk
  BY <1>6, <1>7, <1>10 DEF UsageChunk
<1>11. ASSUME NEW k \in {"text", "refusal"}, ContentChunk(k) PROVE ArrivalInv'
  BY <1>5, <1>7, <1>11 DEF ContentChunk
<1>12. ASSUME NEW raw, FinishChunk(raw) PROVE ArrivalInv'
  <2>1. PICK u : Comes("openai", IF OpenAIReason(raw) # "none" THEN Ending(OpenAIReason(raw), <<>>)
                                 ELSE IF u # <<>> THEN Ending("none", u) ELSE <<>>)
    BY <1>12 DEF FinishChunk
  <2>2. open' = open
    BY <1>12 DEF FinishChunk
  <2> QED
    BY <1>1, <1>6, <1>7, <2>1, <2>2
<1>13. ASSUME NEW a \in {"gemini", "ollama"}, NEW k \in {"text", "thinking", "call"}, Part(a, k)
       PROVE  ArrivalInv'
  <2>1. Comes(a, IF k = "call" \/ (k = "thinking" /\ a = "gemini") THEN <<>> ELSE Says(k)) /\ open' = open
    BY <1>13 DEF Part
  <2>2. a \in Adapters \ {"anthropic"}
    BY <1>7
  <2>3. CASE k = "call" \/ (k = "thinking" /\ a = "gemini")
    BY <1>1, <2>1, <2>2, <2>3
  <2>4. CASE ~(k = "call" \/ (k = "thinking" /\ a = "gemini"))
    BY <1>5, <2>1, <2>2, <2>4
  <2> QED
    BY <2>3, <2>4
<1>14. ASSUME NEW raw, GeminiFinish(raw) PROVE ArrivalInv'
  BY <1>1, <1>7, <1>14 DEF GeminiFinish
<1>15. ASSUME NEW raw, OllamaDone(raw) PROVE ArrivalInv'
  <2>1. PICK u : Comes("ollama", IF PartReason(raw) = "none" /\ u = <<>> THEN <<>>
                                 ELSE Ending(PartReason(raw), u))
    BY <1>15 DEF OllamaDone
  <2>2. open' = open
    BY <1>15 DEF OllamaDone
  <2> QED
    BY <1>1, <1>6, <1>7, <2>1, <2>2
<1>16. CASE GeminiUsage
  BY <1>1, <1>7, <1>16 DEF GeminiUsage
<1>17. CASE EchoWord
  BY <1>5, <1>7, <1>17 DEF EchoWord
<1>18. CASE EchoEnd
  BY <1>6, <1>7, <1>18 DEF EchoEnd
<1> QED
  BY <1>8, <1>9, <1>10, <1>11, <1>12, <1>13, <1>14, <1>15, <1>16, <1>17, <1>18 DEF OpenAI, Parts

\* Neither calls nor the reason open or close a block.
LEMMA TailArrives ==
  ASSUME ArrivalInv, UpstreamCloses
  PROVE  ArrivalInv'
<1>1. PICK S0 : events \in Seq(S0)
  BY DEF ArrivalInv
<1>2. \A b \in Lefts, k \in {"calls", "end"} : Then(adapter, b, k) = b
  BY DEF Then, BlockAfter
<1>3. ASSUME NEW e, NEW S, NEW es \in Seq(S), e.kind \in {"calls", "end"},
             \A i \in DOMAIN es : es[i].kind = "fields" => i = 1,
             LeftOpen(adapter, es) \in Lefts
      PROVE  /\ es \o <<e>> \in Seq(S \cup {e})
             /\ LeftOpen(adapter, es \o <<e>>) = LeftOpen(adapter, es)
             /\ \A i \in DOMAIN (es \o <<e>>) : (es \o <<e>>)[i].kind = "fields" => i = 1
  <2>1. es \in Seq(S \cup {e}) /\ e \in S \cup {e} /\ es \o <<e>> = Append(es, e)
    OBVIOUS
  <2>2. LeftOpen(adapter, Append(es, e)) = Then(adapter, LeftOpen(adapter, es), e.kind)
    BY <2>1, LeftByMore
  <2>3. Append(es, e) \in Seq(S \cup {e})
    BY <2>1
  <2>4. Len(es) \in Nat /\ DOMAIN es = 1..Len(es) /\ DOMAIN Append(es, e) = 1..(Len(es) + 1)
        /\ Append(es, e)[Len(es) + 1] = e /\ \A j \in 1..Len(es) : Append(es, e)[j] = es[j]
    BY <2>1
  <2>5. \A i \in DOMAIN Append(es, e) : Append(es, e)[i].kind = "fields" => i = 1
    BY <1>3, <2>4
  <2> QED
    BY <1>2, <1>3, <2>1, <2>2, <2>3, <2>5
<1>4. LeftOpen(adapter, events) \in Lefts /\ LeftOpen(adapter, events) # "wrong"
      /\ \A i \in DOMAIN events : events[i].kind = "fields" => i = 1
  <2>1. phase = "reading"
    BY DEF UpstreamCloses
  <2> QED
    BY <2>1 DEF ArrivalInv, Fitting, Lefts
<1> DEFINE c == [kind |-> "calls", body |-> Assembled]
           d == [kind |-> "end", body |-> [reason |-> latest.reason, usage |-> latest.usage]]
<1>5. c.kind = "calls" /\ d.kind = "end"
  OBVIOUS
<1>6. \/ TailEvents = <<>> \o <<>> \/ TailEvents = <<c>> \o <<>>
      \/ TailEvents = <<>> \o <<d>> \/ TailEvents = <<c>> \o <<d>>
  BY DEF TailEvents, Ending
<1> HIDE DEF c, d
<1>7. /\ <<>> \o <<>> = <<>> /\ <<c>> \o <<>> = <<c>> /\ <<>> \o <<d>> = <<d>>
      /\ events \o <<>> = events
      /\ events \o (<<c>> \o <<d>>) = (events \o <<c>>) \o <<d>>
  <2> DEFINE S == S0 \cup {c, d}
  <2>1. events \in Seq(S) /\ <<c>> \in Seq(S) /\ <<d>> \in Seq(S) /\ <<>> \in Seq(S)
    BY <1>1
  <2> HIDE DEF S
  <2> QED
    BY <2>1, ConcatEmptySeq, ConcatAssociative
<1>8. /\ \E S : events' \in Seq(S)
      /\ LeftOpen(adapter, events') = LeftOpen(adapter, events)
      /\ \A i \in DOMAIN events' : events'[i].kind = "fields" => i = 1
  <2>0. events' = events \o TailEvents
    BY DEF UpstreamCloses
  <2>1. CASE events' = events
    BY <1>1, <1>4, <2>1
  <2>2. CASE events' = events \o <<c>>
    BY <1>1, <1>3, <1>4, <1>5, <2>2
  <2>3. CASE events' = events \o <<d>>
    BY <1>1, <1>3, <1>4, <1>5, <2>3
  <2>4. CASE events' = (events \o <<c>>) \o <<d>>
    <3> DEFINE es == events \o <<c>>
    <3>1. /\ es \in Seq(S0 \cup {c}) /\ LeftOpen(adapter, es) = LeftOpen(adapter, events)
          /\ \A i \in DOMAIN es : es[i].kind = "fields" => i = 1
      BY <1>1, <1>3, <1>4, <1>5
    <3> HIDE DEF es
    <3>2. /\ es \o <<d>> \in Seq((S0 \cup {c}) \cup {d})
          /\ LeftOpen(adapter, es \o <<d>>) = LeftOpen(adapter, es)
          /\ \A i \in DOMAIN (es \o <<d>>) : (es \o <<d>>)[i].kind = "fields" => i = 1
      BY <1>3, <1>4, <1>5, <3>1
    <3> QED
      BY <2>4, <3>1, <3>2 DEF es
  <2> QED
    BY <1>6, <1>7, <2>0, <2>1, <2>2, <2>3, <2>4
<1>9. UNCHANGED <<adapter, items, open>> /\ phase' = "over"
  BY DEF UpstreamCloses
<1> QED
  BY <1>4, <1>8, <1>9 DEF ArrivalInv

\* Every event keeps the adapter and StreamChat in agreement.
LEMMA ArrivalInvariant == AdapterSpec => []ArrivalInv
<1>1. AdapterInit => ArrivalInv
  <2> SUFFICES ASSUME AdapterInit PROVE ArrivalInv
    OBVIOUS
  <2>1. events = <<>> /\ open = "none" /\ items = 0 /\ phase = "reading"
    BY DEF AdapterInit
  <2>2. LeftOpen(adapter, events) = "none"
    BY <2>1, NothingLeft
  <2>3. events \in Seq({}) /\ DOMAIN events = {}
    BY <2>1
  <2> QED
    BY <2>1, <2>2, <2>3 DEF ArrivalInv, Opens, Fitting
<1>2. ArrivalInv /\ [AdapterNext]_adapterVars => ArrivalInv'
  <2> SUFFICES ASSUME ArrivalInv, [AdapterNext]_adapterVars PROVE ArrivalInv'
    OBVIOUS
  <2>1. CASE UpstreamBreaks
    <3>1. UNCHANGED <<adapter, items, open, events>> /\ phase' = "failed"
      BY <2>1 DEF UpstreamBreaks
    <3> QED
      BY <3>1 DEF ArrivalInv
  <2>2. CASE UNCHANGED adapterVars
    BY <2>2 DEF ArrivalInv, adapterVars
  <2> QED
    BY <2>1, <2>2, AnthropicArrives, OthersArrive, TailArrives DEF AdapterNext
<1> QED
  BY <1>1, <1>2, PTL DEF AdapterSpec

\* Whatever an upstream sends, the adapter's events come in an order that the chat stream
\* reads correctly (stream_events).
THEOREM EventsArriveInOrder == AdapterSpec => []ArrivesAsAssumed
<1>1. ArrivalInv => ArrivesAsAssumed
  BY DEF ArrivalInv, ArrivesAsAssumed
<1> QED
  BY <1>1, ArrivalInvariant, PTL

-----------------------------------------------------------------------------
(* StreamAdapters: what is in the blocks of a message and in the events of a stream *)

\* What is of some kinds is a sequence of their bodies.
LEMMA OfType ==
  ASSUME NEW R, NEW B, NEW ks, NEW es \in Seq(R), \A e \in R : e.kind \in ks => e.body \in B
  PROVE  Of(es, ks) \in Seq(B)
<1> DEFINE some(e) == IF e.kind \in ks THEN <<e.body>> ELSE <<>>
<1>1. \A e \in R : some(e) \in Seq(B)
  OBVIOUS
<1>2. DOMAIN es = 1..Len(es) /\ Len(es) \in Nat /\ \A i \in DOMAIN es : es[i] \in R
  OBVIOUS
<1> HIDE DEF some
<1>3. \A i \in DOMAIN es : some(es[i]) \in Seq(B)
  BY <1>1, <1>2
<1>4. [i \in DOMAIN es |-> some(es[i])] \in Seq(Seq(B))
  BY <1>2, <1>3
<1>5. FlattenSeq([i \in DOMAIN es |-> some(es[i])]) \in Seq(B)
  BY <1>4, FlattenType
<1> QED
  BY <1>5 DEF Of, some

\* Nothing is in nothing.
LEMMA OfNothing == ASSUME NEW ks PROVE Of(<<>>, ks) = <<>>
<1>1. [i \in DOMAIN <<>> |-> IF <<>>[i].kind \in ks THEN <<<<>>[i].body>> ELSE <<>>] = <<>>
  OBVIOUS
<1> QED
  BY <1>1, FlattenEmpty DEF Of

\* What one more adds.
LEMMA OfMore ==
  ASSUME NEW R, NEW ks, NEW es \in Seq(R), NEW e \in R
  PROVE  Of(Append(es, e), ks) = Of(es, ks) \o (IF e.kind \in ks THEN <<e.body>> ELSE <<>>)
<1> DEFINE some(x) == IF x.kind \in ks THEN <<x.body>> ELSE <<>>
           B == {x.body : x \in R}
           n == Len(es)
           more == Append(es, e)
           f == [i \in DOMAIN more |-> some(more[i])]
           g == [i \in DOMAIN es |-> some(es[i])]
<1>1. \A x \in R : x.body \in B
  OBVIOUS
<1> HIDE DEF B
<1>2. \A x \in R : some(x) \in Seq(B)
  BY <1>1
<1>3. n \in Nat /\ DOMAIN es = 1..n /\ DOMAIN more = 1..(n + 1) /\ more[n + 1] = e
      /\ (\A i \in 1..n : more[i] = es[i] /\ es[i] \in R) /\ e \in R
  OBVIOUS
<1> HIDE DEF some, more, n
<1>4. DOMAIN f = 1..(n + 1) /\ f[n + 1] = some(e) /\ g = [i \in 1..n |-> f[i]]
  BY <1>3
<1>5. f \in Seq(Seq(B))
  <2>1. \A i \in 1..(n + 1) : some(more[i]) \in Seq(B)
    BY <1>2, <1>3
  <2> QED
    BY <1>3, <2>1
<1> HIDE DEF f
<1>6. f = Append(g, some(e)) /\ g \in Seq(Seq(B))
  BY <1>3, <1>4, <1>5, MapAppend
<1> HIDE DEF g
<1>7. FlattenSeq(f) = FlattenSeq(g) \o some(e)
  BY <1>2, <1>6, FlattenAppend
<1> QED
  BY <1>7 DEF Of, f, g, some, more

\* The same of two that differ elsewhere.
LEMMA OfSame ==
  ASSUME NEW R, NEW ks, NEW es \in Seq(R), NEW fs \in Seq(R), Len(es) = Len(fs),
         \A i \in 1..Len(es) :
           /\ (fs[i].kind \in ks) = (es[i].kind \in ks)
           /\ es[i].kind \in ks => fs[i].body = es[i].body
  PROVE  Of(fs, ks) = Of(es, ks)
<1>1. DOMAIN es = 1..Len(es) /\ DOMAIN fs = DOMAIN es
  OBVIOUS
<1>2. \A i \in DOMAIN es : (IF fs[i].kind \in ks THEN <<fs[i].body>> ELSE <<>>)
                           = IF es[i].kind \in ks THEN <<es[i].body>> ELSE <<>>
  BY <1>1
<1>3. [i \in DOMAIN fs |-> IF fs[i].kind \in ks THEN <<fs[i].body>> ELSE <<>>]
      = [i \in DOMAIN es |-> IF es[i].kind \in ks THEN <<es[i].body>> ELSE <<>>]
  BY <1>1, <1>2
<1> QED
  BY <1>3 DEF Of

\* None of a kind that does not occur.
LEMMA OfNone ==
  ASSUME NEW R, NEW ks, NEW es \in Seq(R), \A i \in 1..Len(es) : es[i].kind \notin ks
  PROVE  Of(es, ks) = <<>>
<1> DEFINE T == {fs \in Seq(R) : (\A i \in 1..Len(fs) : fs[i].kind \notin ks) => Of(fs, ks) = <<>>}
<1>1. <<>> \in T
  BY OfNothing
<1>2. ASSUME NEW fs \in Seq(R) \cap T, NEW e \in R PROVE Append(fs, e) \in T
  <2> DEFINE more == Append(fs, e)
  <2>1. Len(more) = Len(fs) + 1 /\ Len(fs) \in Nat /\ more \in Seq(R)
        /\ more[Len(fs) + 1] = e /\ \A i \in 1..Len(fs) : more[i] = fs[i]
    OBVIOUS
  <2> HIDE DEF more
  <2>2. ASSUME \A i \in 1..Len(more) : more[i].kind \notin ks PROVE Of(more, ks) = <<>>
    <3>1. e.kind \notin ks
      BY <2>1, <2>2
    <3>2. \A i \in 1..Len(fs) : fs[i].kind \notin ks
      BY <2>1, <2>2
    <3>3. Of(fs, ks) = <<>>
      BY <1>2, <3>2
    <3>4. Of(Append(fs, e), ks) = Of(fs, ks) \o (IF e.kind \in ks THEN <<e.body>> ELSE <<>>)
      BY OfMore
    <3>5. <<>> \o <<>> = <<>>
      OBVIOUS
    <3> QED
      BY <3>1, <3>3, <3>4, <3>5 DEF more
  <2> QED
    BY <2>1, <2>2 DEF more
<1> HIDE DEF T
<1>3. \A fs \in Seq(R) : fs \in T
  BY <1>1, <1>2, AllSequences
<1> QED
  BY <1>3 DEF T

\* The last of a sequence that is not none, with one more.
LEMMA LastButMore ==
  ASSUME NEW none
  PROVE  /\ LastBut(<<>>, none) = none
         /\ \A X : \A s \in Seq(X), x \in X :
              LastBut(Append(s, x), none) = IF x # none THEN x ELSE LastBut(s, none)
<1>1. LastBut(<<>>, none) = none
  BY DEF LastBut
<1>2. ASSUME NEW X, NEW s \in Seq(X), NEW x \in X
      PROVE  LastBut(Append(s, x), none) = IF x # none THEN x ELSE LastBut(s, none)
  <2> DEFINE n == Len(s)
             more == Append(s, x)
             kept == {i \in DOMAIN s : s[i] # none}
             now == {i \in DOMAIN more : more[i] # none}
  <2>1. n \in Nat /\ DOMAIN s = 1..n /\ DOMAIN more = 1..(n + 1) /\ more[n + 1] = x
        /\ \A i \in 1..n : more[i] = s[i]
    OBVIOUS
  <2> HIDE DEF more, n
  <2>2. CASE x # none
    <3>1. n + 1 \in now /\ now \subseteq 1..(n + 1)
      BY <2>1, <2>2
    <3>2. Max(now) = n + 1
      BY <2>1, <3>1, MaxTo
    <3> QED
      BY <2>1, <2>2, <3>1, <3>2 DEF LastBut, more
  <2>3. CASE x = none
    <3>1. now = kept
      BY <2>1, <2>3
    <3>2. CASE kept = {}
      BY <2>3, <3>1, <3>2 DEF LastBut, more
    <3>3. CASE kept # {}
      <4>1. Max(kept) \in kept /\ kept \subseteq 1..n
        BY <2>1, <3>3, MaxIn
      <4>2. more[Max(kept)] = s[Max(kept)]
        BY <2>1, <4>1
      <4> HIDE DEF kept, now
      <4>3. LastBut(more, none) = more[Max(now)] /\ LastBut(s, none) = s[Max(kept)]
        BY <3>1, <3>3 DEF LastBut, now, kept
      <4> QED
        BY <2>3, <3>1, <4>2, <4>3 DEF more
    <3> QED
      BY <3>2, <3>3
  <2> QED
    BY <2>2, <2>3
<1> QED
  BY <1>1, <1>2

\* Blocks of a message, which upstream has said in items.
Kinds == {"text", "refusal", "thinking", "thought", "call", "extra"}
Block == [kind : Kinds, body : Seq(Nat)]

\* The answer, which is in the call's arguments when JSON is emulated (e).
Answer(e, bs) ==
  IF e /\ Of(bs, {"call"}) # <<>> THEN Tail(Of(bs, {"call"})[1]) ELSE Joined(bs, {"text"})

\* The extra blocks that are complete: all but the one that is open.
Complete(bs, o) == Of(IF o = "extra" THEN SubSeq(bs, 1, Len(bs) - 1) ELSE bs, {"extra"})

\* The blocks cs say x more than bs, in a block of kind c.
Adds(s, c, x, k) == IF c = k THEN s \o x ELSE s
BlocksGain(e, bs, cs, c, x) ==
  /\ Answer(e, cs) = Adds(Answer(e, bs), c, x, "text")
  /\ Joined(cs, {"refusal"}) = Adds(Joined(bs, {"refusal"}), c, x, "refusal")
  /\ Joined(cs, {"thinking"}) = Adds(Joined(bs, {"thinking"}), c, x, "thinking")

\* What is said in blocks of a kind is a text.
LEMMA BlockTexts ==
  ASSUME NEW bs \in Seq(Block), NEW k
  PROVE  Joined(bs, {k}) \in Seq(Nat) /\ Of(bs, {k}) \in Seq(Seq(Nat))
<1> DEFINE ks == {k}
<1>1. \A x \in Block : x.body \in Seq(Nat)
  BY DEF Block
<1> HIDE DEF ks
<1>2. Of(bs, ks) \in Seq(Seq(Nat))
  BY <1>1, OfType
<1>3. Joined(bs, ks) \in Seq(Nat)
  BY <1>2, FlattenType DEF Joined
<1> QED
  BY <1>2, <1>3 DEF ks

\* What a block more says.
LEMMA BlockMore ==
  ASSUME NEW bs \in Seq(Block), NEW b \in Block, NEW k
  PROVE  /\ Joined(Append(bs, b), {k}) = Adds(Joined(bs, {k}), b.kind, b.body, k)
         /\ Of(Append(bs, b), {k}) = IF b.kind = k THEN Append(Of(bs, {k}), b.body) ELSE Of(bs, {k})
<1> DEFINE ks == {k}
<1>1. \A x \in Block : x.body \in Seq(Nat)
  BY DEF Block
<1>2. b.kind \in ks <=> b.kind = k
  OBVIOUS
<1>3. Joined(bs, ks) \in Seq(Nat) /\ Of(bs, ks) \in Seq(Seq(Nat))
  BY BlockTexts
<1> HIDE DEF ks
<1>5. Of(Append(bs, b), ks) = Of(bs, ks) \o (IF b.kind \in ks THEN <<b.body>> ELSE <<>>)
  BY OfMore
<1>6. b.body \in Seq(Nat)
  BY <1>1
<1>7. Of(bs, ks) \o <<>> = Of(bs, ks) /\ Of(bs, ks) \o <<b.body>> = Append(Of(bs, ks), b.body)
  BY <1>3, <1>6, ConcatEmptySeq, AppendIsConcat
<1>8. CASE b.kind = k
  <2>1. Of(Append(bs, b), ks) = Append(Of(bs, ks), b.body)
    BY <1>2, <1>5, <1>7, <1>8
  <2>2. FlattenSeq(Append(Of(bs, ks), b.body)) = FlattenSeq(Of(bs, ks)) \o b.body
    BY <1>3, <1>6, FlattenAppend
  <2>3. Joined(Append(bs, b), ks) = Joined(bs, ks) \o b.body
    BY <2>1, <2>2 DEF Joined
  <2> QED
    BY <1>8, <2>1, <2>3 DEF Adds, ks
<1>9. CASE b.kind # k
  <2>1. Of(Append(bs, b), ks) = Of(bs, ks)
    BY <1>2, <1>5, <1>7, <1>9
  <2>2. Joined(Append(bs, b), ks) = Joined(bs, ks)
    BY <2>1 DEF Joined
  <2> QED
    BY <1>9, <2>1, <2>2 DEF Adds, ks
<1> QED
  BY <1>8, <1>9

\* What is left of a text without its first item.
LEMMA TailOfOne ==
  /\ \A x : Tail(<<x>>) = <<>>
  /\ \A s \in Seq(Nat), x \in Nat : s # <<>> => Tail(Append(s, x)) = Tail(s) \o <<x>>
<1>3. ASSUME NEW x PROVE Tail(<<x>>) = <<>>
  <2>1. <<x>> \in Seq({x}) /\ <<x>> # <<>> /\ Len(<<x>>) = 1
    OBVIOUS
  <2>2. Tail(<<x>>) \in Seq({x}) /\ Len(Tail(<<x>>)) = 0
    BY <2>1
  <2> QED
    BY <2>2
<1>4. ASSUME NEW s \in Seq(Nat), NEW x \in Nat, s # <<>>
      PROVE  Tail(Append(s, x)) = Tail(s) \o <<x>>
  <2>1. Append(s, x) \in Seq(Nat) /\ Len(Append(s, x)) = Len(s) + 1 /\ Len(s) \in Nat
    OBVIOUS
  <2>2. Tail(s) \in Seq(Nat) /\ Tail(s) \o <<x>> = Append(Tail(s), x)
    BY <1>4
  <2> QED
    BY <1>4, <2>1, <2>2
<1> QED
  BY <1>3, <1>4

\* A message without blocks says nothing.
LEMMA NothingSaid ==
  ASSUME NEW e
  PROVE  Answer(e, <<>>) = <<>> /\ \A k : Joined(<<>>, {k}) = <<>> /\ Of(<<>>, {k}) = <<>>
<1>1. \A k : Joined(<<>>, {k}) = <<>> /\ Of(<<>>, {k}) = <<>>
  BY OfNothing, FlattenEmpty DEF Joined
<1> QED
  BY <1>1 DEF Answer

\* The blocks before the last.
LEMMA BeforeTheLast ==
  ASSUME NEW R, NEW bs \in Seq(R), NEW b \in R
  PROVE  SubSeq(Append(bs, b), 1, Len(Append(bs, b)) - 1) = bs
<1> DEFINE cs == Append(bs, b)
<1>1. Len(cs) = Len(bs) + 1 /\ Len(bs) \in Nat /\ DOMAIN bs = 1..Len(bs)
      /\ (\A i \in 1..Len(bs) : cs[i] = bs[i]) /\ cs \in Seq(R)
  OBVIOUS
<1> HIDE DEF cs
<1>2. SubSeq(cs, 1, Len(cs) - 1) = [i \in 1..Len(bs) |-> cs[i]]
  BY <1>1
<1>3. [i \in 1..Len(bs) |-> cs[i]] = [i \in 1..Len(bs) |-> bs[i]]
  BY <1>1
<1>4. [i \in 1..Len(bs) |-> bs[i]] = bs
  BY <1>1
<1> QED
  BY <1>2, <1>3, <1>4 DEF cs

\* A block that begins.
LEMMA NewBlockGains ==
  ASSUME NEW bs \in Seq(Block), NEW e \in BOOLEAN, NEW b \in Block,
         e => bs = <<>>, e /\ b.kind = "call" => \E x : b.body = <<x>>
  PROVE  /\ BlocksGain(e, bs, Append(bs, b), b.kind, b.body)
         /\ Complete(Append(bs, b), "extra") = Of(bs, {"extra"})
         /\ b.kind # "extra" => Of(Append(bs, b), {"extra"}) = Of(bs, {"extra"})
<1> DEFINE cs == Append(bs, b)
           calls == Of(cs, {"call"})
<1>1. \A k : /\ Joined(cs, {k}) = Adds(Joined(bs, {k}), b.kind, b.body, k)
             /\ Of(cs, {k}) = IF b.kind = k THEN Append(Of(bs, {k}), b.body) ELSE Of(bs, {k})
  BY BlockMore
<1>2. Answer(e, cs) = Adds(Answer(e, bs), b.kind, b.body, "text")
  <2>1. CASE ~e
    BY <1>1, <2>1 DEF Answer
  <2>2. CASE e
    <3>1. Of(bs, {"call"}) = <<>> /\ Answer(e, bs) = <<>> /\ Answer(e, bs) = Joined(bs, {"text"})
      BY <2>2, NothingSaid
    <3>2. CASE b.kind = "call"
      <4>1. calls = <<b.body>> /\ calls # <<>> /\ calls[1] = b.body
        <5>1. calls = Append(<<>>, b.body)
          BY <1>1, <3>1, <3>2
        <5> QED
          BY <5>1
      <4>2. Tail(b.body) = <<>>
        BY <2>2, <3>2, TailOfOne
      <4> HIDE DEF calls
      <4>3. Answer(e, cs) = <<>>
        BY <2>2, <4>1, <4>2 DEF Answer, calls
      <4> QED
        BY <3>1, <3>2, <4>3 DEF Adds
    <3>3. CASE b.kind # "call"
      <4>1. calls = <<>>
        BY <1>1, <3>1, <3>3
      <4> HIDE DEF calls
      <4>2. Answer(e, cs) = Joined(cs, {"text"})
        BY <4>1 DEF Answer, calls
      <4> QED
        BY <1>1, <3>1, <4>2
    <3> QED
      BY <3>2, <3>3
  <2> QED
    BY <2>1, <2>2
<1>3. Complete(cs, "extra") = Of(bs, {"extra"})
  BY BeforeTheLast DEF Complete
<1>4. b.kind # "extra" => Of(cs, {"extra"}) = Of(bs, {"extra"})
  BY <1>1
<1> HIDE DEF cs
<1>5. BlocksGain(e, bs, cs, b.kind, b.body)
  BY <1>1, <1>2 DEF BlocksGain
<1> QED
  BY <1>3, <1>4, <1>5 DEF cs

\* A block that grows, the last one.
LEMMA GrownBlockGains ==
  ASSUME NEW front \in Seq(Block), NEW e \in BOOLEAN, NEW b \in Block, NEW c \in Block, NEW x \in Nat,
         c.kind = b.kind, c.body = Append(b.body, x),
         e => front = <<>> /\ (b.kind = "call" => b.body # <<>>)
  PROVE  /\ BlocksGain(e, Append(front, b), Append(front, c),
                       IF e /\ b.kind = "call" THEN "text" ELSE b.kind, <<x>>)
         /\ Complete(Append(front, c), "extra") = Complete(Append(front, b), "extra")
         /\ b.kind # "extra" => Of(Append(front, c), {"extra"}) = Of(Append(front, b), {"extra"})
<1> DEFINE bs == Append(front, b)
           cs == Append(front, c)
           now == IF e /\ b.kind = "call" THEN "text" ELSE b.kind
<1>1. \A k : /\ Joined(bs, {k}) = Adds(Joined(front, {k}), b.kind, b.body, k)
             /\ Of(bs, {k}) = IF b.kind = k THEN Append(Of(front, {k}), b.body) ELSE Of(front, {k})
  BY BlockMore
<1>2. \A k : /\ Joined(cs, {k}) = Adds(Joined(front, {k}), b.kind, c.body, k)
             /\ Of(cs, {k}) = IF b.kind = k THEN Append(Of(front, {k}), c.body) ELSE Of(front, {k})
  <2>1. \A k : /\ Joined(cs, {k}) = Adds(Joined(front, {k}), c.kind, c.body, k)
               /\ Of(cs, {k}) = IF c.kind = k THEN Append(Of(front, {k}), c.body) ELSE Of(front, {k})
    BY BlockMore
  <2> HIDE DEF cs
  <2> QED
    BY <2>1
<1> HIDE DEF bs, cs
<1>3. ASSUME NEW k PROVE Joined(cs, {k}) = Adds(Joined(bs, {k}), b.kind, <<x>>, k)
  <2>1. b.body \in Seq(Nat) /\ <<x>> \in Seq(Nat) /\ Joined(front, {k}) \in Seq(Nat)
        /\ c.body = b.body \o <<x>>
    <3>1. b.body \in Seq(Nat)
      BY DEF Block
    <3>2. Joined(front, {k}) \in Seq(Nat)
      BY BlockTexts
    <3>3. Append(b.body, x) = b.body \o <<x>>
      BY <3>1, AppendIsConcat
    <3> QED
      BY <3>1, <3>2, <3>3
  <2>2. (Joined(front, {k}) \o b.body) \o <<x>> = Joined(front, {k}) \o (b.body \o <<x>>)
    BY <2>1, TextsAssociate
  <2> QED
    BY <1>1, <1>2, <2>1, <2>2 DEF Adds
<1>4. Answer(e, cs) = Adds(Answer(e, bs), now, <<x>>, "text")
  <2>1. CASE ~e
    BY <1>3, <2>1 DEF Answer
  <2>2. CASE e
    <3>1. Of(front, {"call"}) = <<>>
      BY <2>2, NothingSaid
    <3>2. CASE b.kind = "call"
      <4>1. Of(bs, {"call"}) = Append(<<>>, b.body) /\ Of(cs, {"call"}) = Append(<<>>, c.body)
        BY <1>1, <1>2, <3>1, <3>2
      <4>2. /\ Append(<<>>, b.body) # <<>> /\ Append(<<>>, b.body)[1] = b.body
            /\ Append(<<>>, c.body) # <<>> /\ Append(<<>>, c.body)[1] = c.body
        OBVIOUS
      <4>3. Answer(e, bs) = Tail(b.body) /\ Answer(e, cs) = Tail(c.body)
        BY <2>2, <4>1, <4>2 DEF Answer
      <4>4. Tail(c.body) = Tail(b.body) \o <<x>>
        <5>1. b.body \in Seq(Nat) /\ b.body # <<>>
          BY <2>2, <3>2 DEF Block
        <5> QED
          BY <5>1, TailOfOne
      <4>5. now = "text"
        BY <2>2, <3>2
      <4> QED
        BY <4>3, <4>4, <4>5 DEF Adds
    <3>3. CASE b.kind # "call"
      <4>1. Of(bs, {"call"}) = <<>> /\ Of(cs, {"call"}) = <<>>
        BY <1>1, <1>2, <3>1, <3>3
      <4>2. Answer(e, bs) = Joined(bs, {"text"}) /\ Answer(e, cs) = Joined(cs, {"text"}) /\ now = b.kind
        BY <3>3, <4>1 DEF Answer
      <4> QED
        BY <1>3, <4>2
    <3> QED
      BY <3>2, <3>3
  <2> QED
    BY <2>1, <2>2
<1>5. /\ Joined(cs, {"refusal"}) = Adds(Joined(bs, {"refusal"}), now, <<x>>, "refusal")
      /\ Joined(cs, {"thinking"}) = Adds(Joined(bs, {"thinking"}), now, <<x>>, "thinking")
  <2>1. CASE now = b.kind
    BY <1>3, <2>1
  <2>2. CASE now = "text" /\ b.kind = "call"
    BY <1>3, <2>2 DEF Adds
  <2> QED
    BY <2>1, <2>2
<1>6. Complete(cs, "extra") = Complete(bs, "extra")
  <2>1. Complete(cs, "extra") = Of(front, {"extra"})
    BY BeforeTheLast DEF Complete, cs
  <2>2. Complete(bs, "extra") = Of(front, {"extra"})
    BY BeforeTheLast DEF Complete, bs
  <2> QED
    BY <2>1, <2>2
<1>7. b.kind # "extra" => Of(cs, {"extra"}) = Of(bs, {"extra"})
  BY <1>1, <1>2
<1> HIDE DEF now
<1>8. BlocksGain(e, bs, cs, now, <<x>>)
  BY <1>4, <1>5 DEF BlocksGain
<1> QED
  BY <1>6, <1>7, <1>8 DEF bs, cs, now

\* A call that grows, wherever it is.
LEMMA GrownCallGains ==
  ASSUME NEW bs \in Seq(Block), NEW cs \in Seq(Block), Len(bs) = Len(cs),
         \A i \in 1..Len(bs) : /\ cs[i].kind = bs[i].kind
                               /\ bs[i].kind # "call" => cs[i].body = bs[i].body
  PROVE  /\ BlocksGain(FALSE, bs, cs, "call", <<>>)
         /\ Of(cs, {"extra"}) = Of(bs, {"extra"})
<1>1. ASSUME NEW k, k # "call" PROVE Of(cs, {k}) = Of(bs, {k})
  <2> DEFINE ks == {k}
  <2>1. \A i \in 1..Len(bs) : /\ (cs[i].kind \in ks) = (bs[i].kind \in ks)
                              /\ bs[i].kind \in ks => cs[i].body = bs[i].body
    BY <1>1
  <2> HIDE DEF ks
  <2>2. Of(cs, ks) = Of(bs, ks)
    BY <2>1, OfSame
  <2> QED
    BY <2>2 DEF ks
<1> QED
  BY <1>1 DEF BlocksGain, Answer, Adds, Joined

\* An extra block that is complete.
LEMMA ExtraIsComplete ==
  ASSUME NEW front \in Seq(Block), NEW b \in Block, b.kind = "extra"
  PROVE  Of(Append(front, b), {"extra"}) = Append(Complete(Append(front, b), "extra"), b.body)
<1>1. Complete(Append(front, b), "extra") = Of(front, {"extra"})
  BY BeforeTheLast DEF Complete
<1>2. Of(Append(front, b), {"extra"})
      = IF b.kind = "extra" THEN Append(Of(front, {"extra"}), b.body) ELSE Of(front, {"extra"})
  BY BlockMore
<1> QED
  BY <1>1, <1>2

\* Events while a stream is read: a text of some kind, or the reason and the usage.
Usages == {<<>>} \cup (Nat \X Nat)
Reasons == {"none", "stop", "length", "tool_calls", "content_filter"}
End == [reason : Reasons, usage : Usages]
SaidKinds ==
  {"text", "refusal", "thinking", "signature", "thinking_block", "extra", "extra_start",
   "extra_delta", "citation", "note", "fields"}
Told == [kind : SaidKinds, body : Seq(Nat)] \cup [kind : {"end"}, body : End]
Thoughts == {"thinking", "signature", "thinking_block"}

\* The events fs say x more than es, in the channel c.
Channel(k) == IF k \in Thoughts THEN "thinking" ELSE k
EventsGain(es, fs, c, x) ==
  /\ Joined(fs, {"text"}) = Adds(Joined(es, {"text"}), c, x, "text")
  /\ Joined(fs, {"refusal"}) = Adds(Joined(es, {"refusal"}), c, x, "refusal")
  /\ Joined(fs, Thoughts) = Adds(Joined(es, Thoughts), c, x, "thinking")

\* What an event is.
LEMMA ItsEvent ==
  \A e \in Told : /\ e.kind \in SaidKinds \cup {"end"}
                  /\ e.kind = "end" => e.body \in End
                  /\ e.kind # "end" => e.body \in Seq(Nat)
BY DEF Told, SaidKinds

\* What an event more says.
LEMMA EventMore ==
  ASSUME NEW es \in Seq(Told), NEW e \in Told, NEW ks, "end" \notin ks
  PROVE  /\ Of(Append(es, e), ks) = IF e.kind \in ks THEN Append(Of(es, ks), e.body) ELSE Of(es, ks)
         /\ Joined(Append(es, e), ks)
            = IF e.kind \in ks THEN Joined(es, ks) \o e.body ELSE Joined(es, ks)
<1>1. \A x \in Told : x.kind \in ks => x.body \in Seq(Nat)
  BY ItsEvent
<1>2. Of(es, ks) \in Seq(Seq(Nat))
  BY <1>1, OfType
<1>3. Of(Append(es, e), ks) = Of(es, ks) \o (IF e.kind \in ks THEN <<e.body>> ELSE <<>>)
  BY OfMore
<1>4. Of(es, ks) \o <<>> = Of(es, ks)
  BY <1>2, ConcatEmptySeq
<1>5. CASE e.kind \in ks
  <2>1. e.body \in Seq(Nat)
    BY <1>1, <1>5
  <2>2. Of(es, ks) \o <<e.body>> = Append(Of(es, ks), e.body)
    BY <1>2, <2>1, AppendIsConcat
  <2>3. Of(Append(es, e), ks) = Append(Of(es, ks), e.body)
    BY <1>3, <1>5, <2>2
  <2>4. FlattenSeq(Append(Of(es, ks), e.body)) = FlattenSeq(Of(es, ks)) \o e.body
    BY <1>2, <2>1, FlattenAppend
  <2> QED
    BY <1>5, <2>3, <2>4 DEF Joined
<1>6. CASE e.kind \notin ks
  <2>1. Of(Append(es, e), ks) = Of(es, ks)
    BY <1>3, <1>4, <1>6
  <2> QED
    BY <1>6, <2>1 DEF Joined
<1> QED
  BY <1>5, <1>6

\* An event that says something.
LEMMA SaidGains ==
  ASSUME NEW es \in Seq(Told), NEW k \in SaidKinds, NEW x \in Seq(Nat)
  PROVE  LET fs == Append(es, [kind |-> k, body |-> x])
         IN  /\ fs \in Seq(Told) /\ EventsGain(es, fs, Channel(k), x)
             /\ Of(fs, {"extra"}) = IF k = "extra" THEN Append(Of(es, {"extra"}), x) ELSE Of(es, {"extra"})
             /\ Of(fs, {"calls"}) = Of(es, {"calls"}) /\ Of(fs, {"end"}) = Of(es, {"end"})
<1> DEFINE e == [kind |-> k, body |-> x]
           fs == Append(es, e)
<1>1. e \in Told /\ e.kind = k /\ e.body = x
  BY DEF Told
<1> HIDE DEF e
<1>2. fs \in Seq(Told)
  BY <1>1
<1>3. ASSUME NEW ks, "end" \notin ks
      PROVE  /\ Of(fs, ks) = IF k \in ks THEN Append(Of(es, ks), x) ELSE Of(es, ks)
             /\ Joined(fs, ks) = IF k \in ks THEN Joined(es, ks) \o x ELSE Joined(es, ks)
  BY <1>1, <1>3, EventMore
<1>4. k \notin {"calls", "end"}
  BY DEF SaidKinds
<1>5. Of(fs, {"end"}) = Of(es, {"end"})
  <2> DEFINE ks == {"end"}
  <2>1. e.kind \notin ks /\ \A y \in Told : y.kind \in ks => y.body \in End
    BY <1>1, <1>4, ItsEvent
  <2> HIDE DEF ks
  <2>2. Of(es, ks) \in Seq(End)
    BY <2>1, OfType
  <2>3. Of(fs, ks) = Of(es, ks) \o (IF e.kind \in ks THEN <<e.body>> ELSE <<>>)
    <3>1. e \in Told /\ es \in Seq(Told)
      BY <1>1
    <3>2. Of(Append(es, e), ks) = Of(es, ks) \o (IF e.kind \in ks THEN <<e.body>> ELSE <<>>)
      BY <3>1, OfMore
    <3> QED
      BY <3>2
  <2> QED
    BY <2>1, <2>2, <2>3, ConcatEmptySeq DEF ks
<1> HIDE DEF fs
<1>6. "end" \notin {"text"} /\ "end" \notin {"refusal"} /\ "end" \notin Thoughts
      /\ "end" \notin {"extra"} /\ "end" \notin {"calls"}
  BY DEF Thoughts
<1>7. /\ Joined(fs, {"text"}) = IF k \in {"text"} THEN Joined(es, {"text"}) \o x ELSE Joined(es, {"text"})
      /\ Joined(fs, {"refusal"}) = IF k \in {"refusal"} THEN Joined(es, {"refusal"}) \o x
                                   ELSE Joined(es, {"refusal"})
      /\ Joined(fs, Thoughts) = IF k \in Thoughts THEN Joined(es, Thoughts) \o x ELSE Joined(es, Thoughts)
  BY <1>3, <1>6
<1>8. EventsGain(es, fs, Channel(k), x)
  BY <1>7 DEF EventsGain, Channel, Adds, Thoughts
<1>9. Of(fs, {"extra"}) = IF k = "extra" THEN Append(Of(es, {"extra"}), x) ELSE Of(es, {"extra"})
  BY <1>3, <1>6
<1>10. Of(fs, {"calls"}) = Of(es, {"calls"})
  BY <1>3, <1>4, <1>6
<1> QED
  BY <1>2, <1>5, <1>8, <1>9, <1>10 DEF fs, e

\* An event that ends the message.
LEMMA EndGains ==
  ASSUME NEW es \in Seq(Told), NEW u \in End
  PROVE  LET fs == Append(es, [kind |-> "end", body |-> u])
         IN  /\ fs \in Seq(Told) /\ EventsGain(es, fs, "none", <<>>)
             /\ Of(fs, {"extra"}) = Of(es, {"extra"}) /\ Of(fs, {"calls"}) = Of(es, {"calls"})
             /\ Of(es, {"end"}) \in Seq(End) /\ Of(fs, {"end"}) = Append(Of(es, {"end"}), u)
<1> DEFINE e == [kind |-> "end", body |-> u]
           fs == Append(es, e)
<1>1. e \in Told /\ e.kind = "end" /\ e.body = u
  BY DEF Told
<1> HIDE DEF e
<1>2. fs \in Seq(Told)
  BY <1>1
<1>3. ASSUME NEW ks, "end" \notin ks
      PROVE  Of(fs, ks) = Of(es, ks) /\ Joined(fs, ks) = Joined(es, ks)
  BY <1>1, <1>3, EventMore
<1>5. Of(fs, {"end"}) = Append(Of(es, {"end"}), u) /\ Of(es, {"end"}) \in Seq(End)
  <2> DEFINE ks == {"end"}
  <2>1. e.kind \in ks /\ \A y \in Told : y.kind \in ks => y.body \in End
    BY <1>1, ItsEvent
  <2> HIDE DEF ks
  <2>2. Of(es, ks) \in Seq(End)
    BY <2>1, OfType
  <2>3. Of(fs, ks) = Of(es, ks) \o (IF e.kind \in ks THEN <<e.body>> ELSE <<>>)
    <3>1. e \in Told /\ es \in Seq(Told)
      BY <1>1
    <3>2. Of(Append(es, e), ks) = Of(es, ks) \o (IF e.kind \in ks THEN <<e.body>> ELSE <<>>)
      BY <3>1, OfMore
    <3> QED
      BY <3>2
  <2>4. Of(es, ks) \o <<u>> = Append(Of(es, ks), u)
    BY <2>2, AppendIsConcat
  <2> QED
    BY <1>1, <2>1, <2>2, <2>3, <2>4 DEF ks
<1> HIDE DEF fs
<1>6. "end" \notin {"text"} /\ "end" \notin {"refusal"} /\ "end" \notin Thoughts
      /\ "end" \notin {"extra"} /\ "end" \notin {"calls"}
  BY DEF Thoughts
<1>7. EventsGain(es, fs, "none", <<>>)
  BY <1>3, <1>6 DEF EventsGain, Adds
<1>8. Of(fs, {"extra"}) = Of(es, {"extra"}) /\ Of(fs, {"calls"}) = Of(es, {"calls"})
  BY <1>3, <1>6
<1> QED
  BY <1>2, <1>5, <1>7, <1>8 DEF fs, e

\* The reason and the usage that come last.
LastReason(ends) == LastBut([i \in DOMAIN ends |-> ends[i].reason], "none")
LastUsage(ends) == LastBut([i \in DOMAIN ends |-> ends[i].usage], <<>>)

\* The last, with an end more.
LEMMA LastEnd ==
  /\ LastReason(<<>>) = "none" /\ LastUsage(<<>>) = <<>>
  /\ \A ends \in Seq(End), u \in End :
       /\ LastReason(Append(ends, u)) = IF u.reason # "none" THEN u.reason ELSE LastReason(ends)
       /\ LastUsage(Append(ends, u)) = IF u.usage # <<>> THEN u.usage ELSE LastUsage(ends)
<1>1. LastReason(<<>>) = "none" /\ LastUsage(<<>>) = <<>>
  <2>1. [i \in DOMAIN <<>> |-> <<>>[i].reason] = <<>> /\ [i \in DOMAIN <<>> |-> <<>>[i].usage] = <<>>
    OBVIOUS
  <2> QED
    BY <2>1, LastButMore DEF LastReason, LastUsage
<1>2. ASSUME NEW ends \in Seq(End), NEW u \in End
      PROVE  /\ LastReason(Append(ends, u)) = IF u.reason # "none" THEN u.reason ELSE LastReason(ends)
             /\ LastUsage(Append(ends, u)) = IF u.usage # <<>> THEN u.usage ELSE LastUsage(ends)
  <2> DEFINE n == Len(ends)
             more == Append(ends, u)
             fr == [i \in DOMAIN more |-> more[i].reason]
             gr == [i \in DOMAIN ends |-> ends[i].reason]
             fu == [i \in DOMAIN more |-> more[i].usage]
             gu == [i \in DOMAIN ends |-> ends[i].usage]
  <2>1. n \in Nat /\ DOMAIN ends = 1..n /\ DOMAIN more = 1..(n + 1) /\ more[n + 1] = u
        /\ (\A i \in 1..n : more[i] = ends[i] /\ ends[i] \in End) /\ u \in End
    OBVIOUS
  <2>2. \A x \in End : x.reason \in Reasons /\ x.usage \in Usages
    BY DEF End
  <2> HIDE DEF more, n
  <2>3. /\ fr \in Seq(Reasons) /\ DOMAIN fr = 1..(n + 1) /\ fr[n + 1] = u.reason
        /\ gr = [i \in 1..n |-> fr[i]]
    <3>1. \A i \in 1..(n + 1) : more[i].reason \in Reasons
      BY <2>1, <2>2
    <3> QED
      BY <2>1, <3>1
  <2>4. /\ fu \in Seq(Usages) /\ DOMAIN fu = 1..(n + 1) /\ fu[n + 1] = u.usage
        /\ gu = [i \in 1..n |-> fu[i]]
    <3>1. \A i \in 1..(n + 1) : more[i].usage \in Usages
      BY <2>1, <2>2
    <3> QED
      BY <2>1, <3>1
  <2> HIDE DEF fr, fu
  <2>5. fr = Append(gr, u.reason) /\ gr \in Seq(Reasons) /\ fu = Append(gu, u.usage) /\ gu \in Seq(Usages)
    BY <2>1, <2>3, <2>4, MapAppend
  <2> HIDE DEF gr, gu
  <2>8. u.reason \in Reasons /\ u.usage \in Usages
    BY <2>1, <2>2
  <2>6. LastBut(fr, "none") = IF u.reason # "none" THEN u.reason ELSE LastBut(gr, "none")
    BY <2>5, <2>8, LastButMore
  <2>7. LastBut(fu, <<>>) = IF u.usage # <<>> THEN u.usage ELSE LastBut(gu, <<>>)
    BY <2>5, <2>8, LastButMore
  <2> QED
    BY <2>6, <2>7 DEF LastReason, LastUsage, fr, gr, fu, gu, more
<1> QED
  BY <1>1, <1>2

\* Nothing is said, whatever it is.
LEMMA NoEventGains ==
  ASSUME NEW es \in Seq(Told), NEW c, NEW x, c \notin {"text", "refusal", "thinking"} \/ x = <<>>
  PROVE  EventsGain(es, es, c, x)
<1>1. ASSUME NEW ks, "end" \notin ks PROVE Joined(es, ks) \o <<>> = Joined(es, ks)
  <2>1. \A y \in Told : y.kind \in ks => y.body \in Seq(Nat)
    BY <1>1, ItsEvent
  <2>2. Of(es, ks) \in Seq(Seq(Nat))
    BY <2>1, OfType
  <2>3. Joined(es, ks) \in Seq(Nat)
    BY <2>2, FlattenType DEF Joined
  <2> QED
    BY <2>3, ConcatEmptySeq
<1>2. "end" \notin {"text"} /\ "end" \notin {"refusal"} /\ "end" \notin Thoughts
  BY DEF Thoughts
<1>3. /\ Joined(es, {"text"}) \o <<>> = Joined(es, {"text"})
      /\ Joined(es, {"refusal"}) \o <<>> = Joined(es, {"refusal"})
      /\ Joined(es, Thoughts) \o <<>> = Joined(es, Thoughts)
  BY <1>1, <1>2
<1> QED
  BY <1>3 DEF EventsGain, Adds

\* What is no channel is none.
LEMMA NoChannel ==
  ASSUME NEW es, NEW fs, NEW c, NEW x, NEW d, NEW y, EventsGain(es, fs, c, x),
         c \notin {"text", "refusal", "thinking"}, d \notin {"text", "refusal", "thinking"}
  PROVE  EventsGain(es, fs, d, y)
BY DEF EventsGain, Adds

\* A message, block by block, and why it ended, in the words of any upstream.
Raws ==
  {"none", "end_turn", "max_tokens", "tool_use", "refusal", "other", "stop", "length", "tool_calls",
   "function_call", "STOP", "MAX_TOKENS", "SAFETY"}
Message == [blocks : Seq(Block), reason : Raws, usage : Usages]

\* What a message has.
LEMMA ItsMessage ==
  meant \in Message => /\ meant.blocks \in Seq(Block) /\ meant.reason \in Raws /\ meant.usage \in Usages
                       /\ Here \in Nat /\ DOMAIN meant.blocks = 1..Here
                       /\ \A i \in 1..Here : /\ meant.blocks[i] \in Block
                                             /\ meant.blocks[i].kind \in Kinds
                                             /\ meant.blocks[i].body \in Seq(Nat)
<1> SUFFICES ASSUME meant \in Message
             PROVE  /\ meant.blocks \in Seq(Block) /\ meant.reason \in Raws /\ meant.usage \in Usages
                    /\ Here \in Nat /\ DOMAIN meant.blocks = 1..Here
                    /\ \A i \in 1..Here : /\ meant.blocks[i] \in Block
                                          /\ meant.blocks[i].kind \in Kinds
                                          /\ meant.blocks[i].body \in Seq(Nat)
  OBVIOUS
<1>1. meant.blocks \in Seq(Block) /\ meant.reason \in Raws /\ meant.usage \in Usages
  BY DEF Message
<1>2. Here \in Nat /\ DOMAIN meant.blocks = 1..Here /\ \A i \in 1..Here : meant.blocks[i] \in Block
  BY <1>1 DEF Here
<1>3. \A b \in Block : b.kind \in Kinds /\ b.body \in Seq(Nat)
  BY DEF Block
<1> QED
  BY <1>1, <1>2, <1>3

\* A block that begins comes last.
LEMMA BlockBegun ==
  ASSUME meant \in Message, NEW k \in Kinds, NEW ps \in Seq(Nat), NewBlock(k, ps)
  PROVE  /\ meant' \in Message /\ [kind |-> k, body |-> ps] \in Block
         /\ meant'.blocks = Append(meant.blocks, [kind |-> k, body |-> ps])
         /\ meant'.reason = meant.reason /\ meant'.usage = meant.usage
<1> DEFINE b == [kind |-> k, body |-> ps]
<1>1. b \in Block
  BY DEF Block
<1>2. meant' = [meant EXCEPT !.blocks = Append(@, b)]
  BY DEF NewBlock
<1> HIDE DEF b
<1>3. meant.blocks \in Seq(Block)
  BY ItsMessage
<1>4. Append(meant.blocks, b) \in Seq(Block)
  BY <1>1, <1>3
<1>5. meant' \in Message /\ meant'.blocks = Append(meant.blocks, b)
      /\ meant'.reason = meant.reason /\ meant'.usage = meant.usage
  BY <1>2, <1>4 DEF Message
<1> QED
  BY <1>1, <1>5 DEF b

\* One that grows does so at the end.
LEMMA BlockGrown ==
  ASSUME meant \in Message, items \in Nat, NEW i \in 1..Here, Extend(i)
  PROVE  /\ meant' \in Message /\ Here' = Here
         /\ meant'.reason = meant.reason /\ meant'.usage = meant.usage
         /\ \A j \in 1..Here : /\ meant'.blocks[j].kind = meant.blocks[j].kind
                               /\ j # i => meant'.blocks[j] = meant.blocks[j]
         /\ meant'.blocks[i].body = Append(meant.blocks[i].body, Item)
<1> DEFINE bs == meant.blocks
           b == [bs[i] EXCEPT !.body = Append(@, Item)]
           cs == [bs EXCEPT ![i] = b]
<1>1. bs \in Seq(Block) /\ Here \in Nat /\ DOMAIN bs = 1..Here /\ bs[i] \in Block /\ bs[i].body \in Seq(Nat)
  BY ItsMessage
<1>2. Item \in Nat
  BY DEF Item
<1>3. b \in Block /\ b.kind = bs[i].kind /\ b.body = Append(bs[i].body, Item)
  <2>1. Append(bs[i].body, Item) \in Seq(Nat)
    BY <1>1, <1>2
  <2> QED
    BY <1>1, <2>1 DEF Block
<1>4. meant' = [meant EXCEPT !.blocks = cs]
  BY DEF Extend
<1> HIDE DEF b, bs
<1>5. cs \in Seq(Block) /\ Len(cs) = Len(bs) /\ cs[i] = b /\ \A j \in 1..Here : j # i => cs[j] = bs[j]
  BY <1>1, <1>3
<1> HIDE DEF cs
<1>6. meant' \in Message /\ meant'.blocks = cs
      /\ meant'.reason = meant.reason /\ meant'.usage = meant.usage
  BY <1>4, <1>5 DEF Message
<1>7. Here' = Here
  BY <1>5, <1>6 DEF Here, bs
<1>8. \A j \in 1..Here : /\ cs[j].kind = bs[j].kind
                         /\ j # i => cs[j] = bs[j]
  BY <1>3, <1>5
<1> QED
  BY <1>3, <1>5, <1>6, <1>7, <1>8 DEF bs

\* All but the last.
Before(s) == [i \in 1..(Len(s) - 1) |-> s[i]]

\* Two that differ in the last only.
LEMMA OnlyTheLast ==
  ASSUME NEW R, NEW bs \in Seq(R), NEW cs \in Seq(R), NEW n \in Nat \ {0}, Len(bs) = n, Len(cs) = n,
         \A j \in 1..n : j # n => cs[j] = bs[j]
  PROVE  /\ Before(bs) \in Seq(R) /\ bs = Append(Before(bs), bs[n]) /\ cs = Append(Before(bs), cs[n])
         /\ n = 1 => Before(bs) = <<>>
<1> DEFINE m == n - 1
           front == [i \in 1..m |-> bs[i]]
           other == [i \in 1..m |-> cs[i]]
<1>1. m \in Nat /\ n = m + 1 /\ DOMAIN bs = 1..(m + 1) /\ DOMAIN cs = 1..(m + 1)
  OBVIOUS
<1>2. \A i \in 1..m : cs[i] = bs[i]
  BY <1>1
<1>0. Before(bs) = front
  BY DEF Before
<1> HIDE DEF m
<1>3. front \in Seq(R) /\ bs = Append(front, bs[m + 1])
  BY <1>1, MapAppend
<1>4. cs = Append(other, cs[m + 1])
  BY <1>1, MapAppend
<1>5. other = front
  BY <1>2
<1>6. n = 1 => front = <<>>
  <2>1. n = 1 => m = 0
    BY DEF m
  <2> QED
    BY <2>1
<1> HIDE DEF front, other
<1> QED
  BY <1>0, <1>1, <1>3, <1>4, <1>5, <1>6

-----------------------------------------------------------------------------
(* StreamAdapters: what is yielded is what is meant *)

\* What an adapter keeps belongs to the message, and to the block that is open.
KeptOK ==
  /\ adapter \in Adapters /\ emulating \in BOOLEAN /\ (emulating => adapter = "anthropic")
  /\ items \in Nat /\ open \in Opens /\ (adapter # "anthropic" => open = "none")
  /\ meant \in Message /\ latest \in End /\ events \in Seq(Told)
  /\ DOMAIN slots = Calls
  /\ \A i \in Calls : /\ meant.blocks[i].body # <<>>
                      /\ ~emulating => slots[i] = meant.blocks[i].body
  /\ open # "none" => /\ items # 0 /\ Here > 0
                      /\ meant.blocks[Here].kind = IF open = "signed" THEN "thinking" ELSE open
  /\ open = "extra" => Here \in DOMAIN extras /\ extras[Here] = meant.blocks[Here].body
  /\ emulating => Here <= 1
  /\ adapter = "echo" => slots = EmptyDict

\* What has been yielded is what upstream has said, but for an extra block that is open.
Heard ==
  /\ Joined(events, {"text"}) = Answer(emulating, meant.blocks)
  /\ Joined(events, {"refusal"}) = Joined(meant.blocks, {"refusal"})
  /\ Joined(events, Thoughts) = Joined(meant.blocks, {"thinking"})
  /\ Of(events, {"extra"}) = Complete(meant.blocks, open)
  /\ Of(events, {"calls"}) = <<>>

\* The finish reason of the message, as chat() has it.
Reason ==
  CASE adapter = "anthropic" -> AnthropicReason(meant.reason)
    [] adapter = "openai" -> OpenAIReason(meant.reason)
    [] OTHER -> PartReason(meant.reason)

\* The reason and the usage are kept for the end, or have been yielded.
Keepers == {"anthropic", "gemini"}
Ended ==
  /\ latest = [reason |-> latest.reason, usage |-> latest.usage]
  /\ adapter \in Keepers =>
       /\ Of(events, {"end"}) = <<>>
       /\ latest.reason = Reason /\ latest.usage = meant.usage
  /\ adapter = "anthropic" /\ items # 0 => meant.usage # <<>>
  /\ adapter \notin Keepers =>
       /\ latest.reason = "none" /\ latest.usage = <<>>
       /\ LastReason(Of(events, {"end"})) = Reason
       /\ LastUsage(Of(events, {"end"})) = meant.usage
       /\ Unended => Of(events, {"end"}) = <<>> /\ meant.usage = <<>>

\* As long as the stream is read; and when it is over, it has said what chat() says.
SaidInv == (phase = "reading" => KeptOK /\ Heard /\ Ended) /\ StreamSaysWhatChatSays

\* Events and blocks gain the same.
LEMMA HeardMore ==
  ASSUME Heard, emulating' = emulating, NEW c, NEW x,
         EventsGain(events, events', c, x),
         BlocksGain(emulating, meant.blocks, meant'.blocks, c, x),
         Of(events', {"extra"}) = Complete(meant'.blocks, open'),
         Of(events', {"calls"}) = Of(events, {"calls"})
  PROVE  Heard'
BY DEF Heard, EventsGain, BlocksGain, Thoughts

\* The message goes on, and so do the events, in the same way.
LEMMA SaysStep ==
  ASSUME KeptOK, Heard, NEW a, NEW k \in SaidKinds \ {"extra"}, Comes(a, Says(k)),
         BlocksGain(emulating, meant.blocks, meant'.blocks, Channel(k), <<Item>>),
         Complete(meant'.blocks, open') = Complete(meant.blocks, open)
  PROVE  /\ Heard' /\ events' \in Seq(Told) /\ Of(events', {"end"}) = Of(events, {"end"})
         /\ adapter = a /\ items' = Item
<1> DEFINE e == [kind |-> k, body |-> <<Item>>]
<1>1. events \in Seq(Told) /\ items \in Nat
  BY DEF KeptOK
<1>2. Item \in Nat /\ <<Item>> \in Seq(Nat)
  BY <1>1 DEF Item
<1>3. events' = events \o <<e>> /\ emulating' = emulating /\ adapter = a /\ items' = Item
  BY DEF Comes, Says
<1>4. LET fs == Append(events, e)
      IN  /\ fs \in Seq(Told) /\ EventsGain(events, fs, Channel(k), <<Item>>)
          /\ Of(fs, {"extra"}) = IF k = "extra" THEN Append(Of(events, {"extra"}), <<Item>>)
                                 ELSE Of(events, {"extra"})
          /\ Of(fs, {"calls"}) = Of(events, {"calls"}) /\ Of(fs, {"end"}) = Of(events, {"end"})
  BY <1>1, <1>2, SaidGains
<1>5. events \o <<e>> = Append(events, e)
  <2>1. e \in Told
    BY <1>2 DEF Told
  <2> HIDE DEF e
  <2> QED
    BY <1>1, <2>1, AppendIsConcat
<1> HIDE DEF e
<1>6. /\ events' \in Seq(Told) /\ EventsGain(events, events', Channel(k), <<Item>>)
      /\ Of(events', {"extra"}) = Of(events, {"extra"})
      /\ Of(events', {"calls"}) = Of(events, {"calls"}) /\ Of(events', {"end"}) = Of(events, {"end"})
  BY <1>3, <1>4, <1>5
<1>7. Of(events', {"extra"}) = Complete(meant'.blocks, open')
  BY <1>6 DEF Heard
<1>8. Heard'
  BY <1>3, <1>6, <1>7, HeardMore
<1> QED
  BY <1>3, <1>6, <1>8

\* Nothing is yielded that has a channel, and the message says nothing in one.
LEMMA AsideStep ==
  ASSUME KeptOK, Heard, NEW a, NEW k \in SaidKinds \ {"extra"}, Comes(a, Says(k)),
         Channel(k) \notin {"text", "refusal", "thinking"},
         NEW c, NEW x, c \notin {"text", "refusal", "thinking"},
         BlocksGain(emulating, meant.blocks, meant'.blocks, c, x),
         Complete(meant'.blocks, open') = Complete(meant.blocks, open)
  PROVE  /\ Heard' /\ events' \in Seq(Told) /\ Of(events', {"end"}) = Of(events, {"end"})
         /\ adapter = a /\ items' = Item
<1>1. BlocksGain(emulating, meant.blocks, meant'.blocks, Channel(k), <<Item>>)
  BY DEF BlocksGain, Adds
<1> QED
  BY <1>1, SaysStep

\* Nothing is yielded.
LEMMA SilentStep ==
  ASSUME KeptOK, Heard, NEW a, Comes(a, <<>>),
         NEW c, NEW x, c \notin {"text", "refusal", "thinking"} \/ x = <<>>,
         BlocksGain(emulating, meant.blocks, meant'.blocks, c, x),
         Complete(meant'.blocks, open') = Complete(meant.blocks, open)
  PROVE  /\ Heard' /\ events' \in Seq(Told) /\ Of(events', {"end"}) = Of(events, {"end"})
         /\ adapter = a /\ items' = Item
<1>1. events \in Seq(Told)
  BY DEF KeptOK
<1>2. events' = events /\ emulating' = emulating /\ adapter = a /\ items' = Item
  BY <1>1, ConcatEmptySeq DEF Comes
<1>3. EventsGain(events, events, c, x)
  BY <1>1, NoEventGains
<1>4. Of(events', {"extra"}) = Complete(meant'.blocks, open')
  BY <1>2 DEF Heard
<1>5. Heard'
  BY <1>2, <1>3, <1>4, HeardMore
<1> QED
  BY <1>1, <1>2, <1>5

\* The reason or the usage is yielded.
LEMMA EndStep ==
  ASSUME KeptOK, Heard, NEW a, NEW r \in Reasons, NEW u \in Usages, Comes(a, Ending(r, u)),
         meant'.blocks = meant.blocks, open' = open
  PROVE  /\ Heard' /\ events' \in Seq(Told) /\ adapter = a /\ items' = Item
         /\ Of(events, {"end"}) \in Seq(End)
         /\ Of(events', {"end"}) = Append(Of(events, {"end"}), [reason |-> r, usage |-> u])
         /\ [reason |-> r, usage |-> u] \in End
<1> DEFINE v == [reason |-> r, usage |-> u]
           e == [kind |-> "end", body |-> v]
<1>1. events \in Seq(Told) /\ v \in End
  BY DEF KeptOK, End
<1>2. events' = events \o <<e>> /\ emulating' = emulating /\ adapter = a /\ items' = Item
  BY DEF Comes, Ending
<1> HIDE DEF v
<1>3. LET fs == Append(events, e)
      IN  /\ fs \in Seq(Told) /\ EventsGain(events, fs, "none", <<>>)
          /\ Of(fs, {"extra"}) = Of(events, {"extra"}) /\ Of(fs, {"calls"}) = Of(events, {"calls"})
          /\ Of(events, {"end"}) \in Seq(End) /\ Of(fs, {"end"}) = Append(Of(events, {"end"}), v)
  BY <1>1, EndGains
<1>4. events \o <<e>> = Append(events, e)
  <2>1. e \in Told
    BY <1>1 DEF Told
  <2> HIDE DEF e
  <2> QED
    BY <1>1, <2>1, AppendIsConcat
<1> HIDE DEF e
<1>5. BlocksGain(emulating, meant.blocks, meant'.blocks, "none", <<>>)
  BY DEF BlocksGain, Adds
<1>6. /\ events' \in Seq(Told) /\ EventsGain(events, events', "none", <<>>)
      /\ Of(events', {"extra"}) = Of(events, {"extra"}) /\ Of(events', {"calls"}) = Of(events, {"calls"})
      /\ Of(events, {"end"}) \in Seq(End) /\ Of(events', {"end"}) = Append(Of(events, {"end"}), v)
  BY <1>2, <1>3, <1>4
<1>7. Of(events', {"extra"}) = Complete(meant'.blocks, open')
  BY <1>6 DEF Heard
<1>8. Heard'
  BY <1>2, <1>5, <1>6, <1>7, HeardMore
<1> QED
  BY <1>1, <1>2, <1>6, <1>8 DEF v

\* The calls, by the kind of the block.
LEMMA CallsAre == ASSUME NEW i PROVE i \in Calls <=> i \in 1..Here /\ meant.blocks[i].kind = "call"
BY DEF Calls

\* What does not change the blocks keeps what is kept.
LEMMA KeptAsItIs ==
  ASSUME KeptOK, adapter' = adapter, emulating' = emulating, items' = Item, open' = open,
         meant' \in Message, meant'.blocks = meant.blocks, slots' = slots, extras' = extras,
         latest' \in End, events' \in Seq(Told)
  PROVE  KeptOK'
<1>1. Here' = Here /\ Calls' = Calls
  BY DEF Here, Calls
<1>2. items' \in Nat /\ items' # 0
  BY DEF KeptOK, Item
<1> QED
  BY <1>1, <1>2 DEF KeptOK

\* A block that begins is kept, if it is a call or extra.
LEMMA KeptWithNew ==
  ASSUME KeptOK, adapter' = adapter, emulating' = emulating, items' = Item,
         latest' \in End, events' \in Seq(Told),
         NEW k \in Kinds, NEW ps \in Seq(Nat), NewBlock(k, ps), emulating => meant.blocks = <<>>,
         open' \in Opens \ {"signed"}, open' \in {"none", k}, adapter # "anthropic" => open' = "none",
         slots' = (IF k = "call" THEN With(slots, Here + 1, ps) ELSE slots),
         k = "call" => ps # <<>> /\ adapter # "echo",
         open' = "extra" => extras' = With(extras, Here + 1, ps)
  PROVE  KeptOK'
<1> DEFINE n == Here + 1
           b == [kind |-> k, body |-> ps]
<1>1. /\ meant' \in Message /\ meant'.blocks = Append(meant.blocks, b)
      /\ b.kind = k /\ b.body = ps
  BY BlockBegun DEF KeptOK
<1>2. Here \in Nat /\ meant.blocks \in Seq(Block) /\ b \in Block
  BY BlockBegun, ItsMessage DEF KeptOK
<1> HIDE DEF b
<1>3. Here' = n /\ n \in Nat /\ meant'.blocks[n] = b /\ \A i \in 1..Here : meant'.blocks[i] = meant.blocks[i]
  BY <1>1, <1>2 DEF Here
<1>4. \A i \in 1..n : i = n \/ i \in 1..Here
  BY <1>2
<1>5. n \notin 1..Here /\ n \in 1..n /\ \A i \in 1..Here : i \in 1..n
  BY <1>2
<1> HIDE DEF n
<1>6. \A i : i \in Calls' <=> i \in Calls \/ (k = "call" /\ i = n)
  <2>1. \A i : i \in Calls' <=> i \in 1..n /\ meant'.blocks[i].kind = "call"
    BY <1>3 DEF Calls
  <2> QED
    BY <1>1, <1>3, <1>4, <1>5, <2>1, CallsAre
<1>7. DOMAIN slots' = Calls'
  <2>1. DOMAIN slots = Calls
    BY DEF KeptOK
  <2>2. CASE k = "call"
    <3>1. DOMAIN slots' = Calls \cup {n}
      BY <2>1, <2>2 DEF With, n
    <3> QED
      BY <1>6, <2>2, <3>1
  <2>3. CASE k # "call"
    BY <1>6, <2>1, <2>3
  <2> QED
    BY <2>2, <2>3
<1>8. \A i \in Calls' : meant'.blocks[i].body # <<>> /\ (~emulating' => slots'[i] = meant'.blocks[i].body)
  <2> SUFFICES ASSUME NEW i \in Calls'
               PROVE  meant'.blocks[i].body # <<>> /\ (~emulating => slots'[i] = meant'.blocks[i].body)
    OBVIOUS
  <2>1. CASE i \in Calls
    <3>1. i \in 1..Here /\ i \in DOMAIN slots /\ meant'.blocks[i] = meant.blocks[i] /\ i # n
      BY <1>3, <1>5, <2>1, CallsAre DEF KeptOK
    <3>2. slots'[i] = slots[i]
      BY <3>1 DEF With, n
    <3> QED
      BY <2>1, <3>1, <3>2 DEF KeptOK
  <2>2. CASE k = "call" /\ i = n
    <3>1. slots'[n] = ps
      BY <2>2 DEF With, n
    <3> QED
      BY <1>1, <1>3, <2>2, <3>1
  <2> QED
    BY <1>6, <2>1, <2>2
<1>9. items' \in Nat /\ items' # 0
  BY DEF KeptOK, Item
<1>10. n > 0
  BY <1>2 DEF n
<1>11. open' # "none" => meant'.blocks[n].kind = open'
  BY <1>1, <1>3
<1>12. open' = "extra" => n \in DOMAIN extras' /\ extras'[n] = meant'.blocks[n].body
  BY <1>1, <1>3 DEF With, n
<1>13. emulating => n <= 1
  <2>1. emulating => Here = 0
    BY DEF Here
  <2> QED
    BY <2>1 DEF n
<1>14. adapter = "echo" => slots' = slots
  OBVIOUS
<1> QED
  BY <1>1, <1>3, <1>7, <1>8, <1>9, <1>10, <1>11, <1>12, <1>13, <1>14 DEF KeptOK

\* A block that grows does so where it is kept as well.
LEMMA KeptAsItGrows ==
  ASSUME KeptOK, adapter' = adapter, emulating' = emulating, items' = Item, adapter # "echo",
         latest' \in End, events' \in Seq(Told), NEW i \in 1..Here, Extend(i),
         open' = open \/ (open = "thinking" /\ open' = "signed"), open = "extra" => i = Here,
         slots' = (IF meant.blocks[i].kind = "call" /\ ~emulating
                   THEN [slots EXCEPT ![i] = Append(@, Item)] ELSE slots),
         extras' = IF open = "extra" THEN [extras EXCEPT ![Here] = Append(@, Item)] ELSE extras
  PROVE  KeptOK'
<1>1. /\ meant' \in Message /\ Here' = Here
      /\ \A j \in 1..Here : /\ meant'.blocks[j].kind = meant.blocks[j].kind
                            /\ j # i => meant'.blocks[j] = meant.blocks[j]
      /\ meant'.blocks[i].body = Append(meant.blocks[i].body, Item)
  BY BlockGrown DEF KeptOK
<1>2. items \in Nat /\ Item \in Nat /\ Item # 0 /\ Here \in Nat /\ meant.blocks[i].body \in Seq(Nat)
  BY ItsMessage DEF KeptOK, Item
<1>3. Append(meant.blocks[i].body, Item) # <<>>
  <2> DEFINE more == Append(meant.blocks[i].body, Item)
  <2>1. Len(more) = Len(meant.blocks[i].body) + 1 /\ Len(meant.blocks[i].body) \in Nat
    BY <1>2
  <2>2. Len(<<>>) = 0
    OBVIOUS
  <2> HIDE DEF more
  <2> QED
    BY <2>1, <2>2 DEF more
<1>4. \A j : j \in Calls' <=> j \in Calls
  <2>1. \A j : j \in Calls' <=> j \in 1..Here /\ meant'.blocks[j].kind = "call"
    BY <1>1 DEF Calls
  <2> QED
    BY <1>1, <2>1, CallsAre
<1>5. DOMAIN slots = Calls /\ DOMAIN slots' = DOMAIN slots
  BY DEF KeptOK
<1>6. ASSUME NEW j \in Calls
      PROVE  meant'.blocks[j].body # <<>> /\ (~emulating => slots'[j] = meant'.blocks[j].body)
  <2>1. j \in 1..Here /\ meant.blocks[j].kind = "call" /\ j \in DOMAIN slots
        /\ meant.blocks[j].body # <<>> /\ (~emulating => slots[j] = meant.blocks[j].body)
    BY <1>6, CallsAre DEF KeptOK
  <2>2. CASE j = i
    BY <1>1, <1>3, <2>1, <2>2
  <2>3. CASE j # i
    BY <1>1, <2>1, <2>3
  <2> QED
    BY <2>2, <2>3
<1>7. open' = "extra" => Here \in DOMAIN extras' /\ extras'[Here] = meant'.blocks[Here].body
  BY <1>1 DEF KeptOK
<1>8. open' # "none" => /\ Here > 0
                        /\ meant'.blocks[Here].kind = IF open' = "signed" THEN "thinking" ELSE open'
  <2>1. Here > 0 => Here \in 1..Here
    BY <1>2
  <2>2. open' # "none" => open # "none"
    OBVIOUS
  <2> QED
    BY <1>1, <2>1, <2>2 DEF KeptOK
<1>9. open' \in Opens /\ (adapter # "anthropic" => open' = "none")
  BY DEF KeptOK, Opens
<1>10. /\ adapter \in Adapters /\ emulating \in BOOLEAN /\ (emulating => adapter = "anthropic")
       /\ (emulating => Here <= 1)
  BY DEF KeptOK
<1> QED
  BY <1>1, <1>2, <1>4, <1>5, <1>6, <1>7, <1>8, <1>9, <1>10 DEF KeptOK

\* As long as there is no reason, and with the same calls, it is the same.
LEMMA ReasonIsKept ==
  ASSUME adapter' = adapter, emulating' = emulating, meant'.reason = meant.reason,
         Unended \/ slots' = slots \/ adapter \in {"anthropic", "openai"}
  PROVE  Reason' = Reason
<1>1. CASE adapter = "anthropic"
  BY <1>1 DEF Reason, AnthropicReason
<1>2. CASE adapter = "openai"
  BY <1>2 DEF Reason, OpenAIReason
<1>3. CASE adapter \notin {"anthropic", "openai"} /\ slots' = slots
  BY <1>3 DEF Reason, PartReason
<1>4. CASE adapter \notin {"anthropic", "openai"} /\ Unended
  BY <1>4 DEF Reason, PartReason, Unended
<1> QED
  BY <1>1, <1>2, <1>3, <1>4

\* What is said before the end leaves the end as it is.
LEMMA EndedAsItIs ==
  ASSUME Ended, adapter' = adapter, emulating' = emulating,
         meant'.reason = meant.reason, meant'.usage = meant.usage, latest' = latest,
         Of(events', {"end"}) = Of(events, {"end"}),
         Unended \/ slots' = slots \/ adapter \in {"anthropic", "openai"},
         adapter = "anthropic" => items # 0 \/ items' = items
  PROVE  Ended'
<1>1. Reason' = Reason
  BY ReasonIsKept
<1> QED
  BY <1>1 DEF Ended, Unended

\* What a block that begins says, and leaves open.
LEMMA BlockBegins ==
  ASSUME KeptOK, open = "none", NEW k \in Kinds, NEW ps \in Seq(Nat), NewBlock(k, ps),
         emulating => meant.blocks = <<>>, emulating /\ k = "call" => \E x : ps = <<x>>,
         open' \in {"none", k}, k = "extra" => open' = "extra"
  PROVE  /\ BlocksGain(emulating, meant.blocks, meant'.blocks, k, ps)
         /\ Complete(meant'.blocks, open') = Complete(meant.blocks, open)
<1> DEFINE b == [kind |-> k, body |-> ps]
<1>1. meant'.blocks = Append(meant.blocks, b) /\ b \in Block /\ b.kind = k /\ b.body = ps
  BY BlockBegun DEF KeptOK
<1>2. meant.blocks \in Seq(Block) /\ emulating \in BOOLEAN
  BY ItsMessage DEF KeptOK
<1> HIDE DEF b
<1>3. /\ BlocksGain(emulating, meant.blocks, Append(meant.blocks, b), b.kind, b.body)
      /\ Complete(Append(meant.blocks, b), "extra") = Of(meant.blocks, {"extra"})
      /\ b.kind # "extra" => Of(Append(meant.blocks, b), {"extra"}) = Of(meant.blocks, {"extra"})
  BY <1>1, <1>2, NewBlockGains
<1>4. Complete(meant.blocks, open) = Of(meant.blocks, {"extra"})
  BY DEF Complete
<1>5. CASE k = "extra"
  BY <1>1, <1>3, <1>4, <1>5
<1>6. CASE k # "extra"
  <2>1. Complete(meant'.blocks, open') = Of(meant'.blocks, {"extra"})
    BY <1>6 DEF Complete
  <2> QED
    BY <1>1, <1>3, <1>4, <1>6, <2>1
<1> QED
  BY <1>5, <1>6

\* What the last block says when it grows.
LEMMA BlockGrows ==
  ASSUME KeptOK, open # "none", Extend(Here), open' = open \/ (open = "thinking" /\ open' = "signed")
  PROVE  /\ BlocksGain(emulating, meant.blocks, meant'.blocks,
                       IF emulating /\ open = "call" THEN "text"
                       ELSE IF open = "signed" THEN "thinking" ELSE open, <<Item>>)
         /\ Complete(meant'.blocks, open') = Complete(meant.blocks, open)
<1> DEFINE n == Here
           bs == meant.blocks
           cs == meant'.blocks
           k == IF open = "signed" THEN "thinking" ELSE open
<1>1. /\ n \in Nat \ {0} /\ n \in 1..n /\ bs \in Seq(Block) /\ Len(bs) = n /\ bs[n] \in Block
      /\ bs[n].kind = k /\ bs[n].body \in Seq(Nat) /\ items \in Nat /\ meant \in Message
  <2>1. Here > 0 /\ Here \in Nat /\ meant \in Message
    BY ItsMessage DEF KeptOK
  <2>2. Here \in 1..Here
    BY <2>1
  <2> QED
    BY <2>1, <2>2, ItsMessage DEF KeptOK, Here
<1>2. /\ cs \in Seq(Block) /\ Len(cs) = n
      /\ \A j \in 1..n : /\ cs[j].kind = bs[j].kind
                         /\ j # n => cs[j] = bs[j]
      /\ cs[n].body = Append(bs[n].body, Item)
  <2>1. /\ meant' \in Message /\ Here' = Here
        /\ \A j \in 1..Here : /\ meant'.blocks[j].kind = meant.blocks[j].kind
                              /\ j # Here => meant'.blocks[j] = meant.blocks[j]
        /\ meant'.blocks[Here].body = Append(meant.blocks[Here].body, Item)
    BY <1>1, BlockGrown
  <2>2. cs \in Seq(Block)
    BY <2>1 DEF Message
  <2> QED
    BY <2>1, <2>2 DEF Here
<1>3. cs[n] \in Block /\ Item \in Nat
  BY <1>1, <1>2 DEF Item
<1>4. emulating \in BOOLEAN /\ (emulating => n = 1 /\ (k = "call" => bs[n].body # <<>>))
  <2>1. k = "call" => n \in Calls
    BY <1>1, CallsAre
  <2> QED
    BY <1>1, <2>1 DEF KeptOK
<1> HIDE DEF n, bs, cs
<1> DEFINE front == Before(bs)
<1>5. /\ front \in Seq(Block) /\ bs = Append(front, bs[n]) /\ cs = Append(front, cs[n])
      /\ n = 1 => front = <<>>
  <2>1. \A j \in 1..n : j # n => cs[j] = bs[j]
    BY <1>2
  <2> QED
    BY <1>1, <1>2, <2>1, OnlyTheLast
<1> HIDE DEF front
<1> DEFINE b == bs[n]
           c == cs[n]
<1>6. b \in Block /\ c \in Block /\ c.kind = b.kind /\ c.body = Append(b.body, Item) /\ b.kind = k
      /\ (emulating => front = <<>> /\ (b.kind = "call" => b.body # <<>>))
      /\ bs = Append(front, b) /\ cs = Append(front, c)
  BY <1>1, <1>2, <1>3, <1>4, <1>5
<1> HIDE DEF b, c
<1>7. /\ BlocksGain(emulating, Append(front, b), Append(front, c),
                    IF emulating /\ b.kind = "call" THEN "text" ELSE b.kind, <<Item>>)
      /\ Complete(Append(front, c), "extra") = Complete(Append(front, b), "extra")
      /\ b.kind # "extra" => Of(Append(front, c), {"extra"}) = Of(Append(front, b), {"extra"})
  <2>1. /\ front \in Seq(Block) /\ emulating \in BOOLEAN /\ b \in Block /\ c \in Block /\ Item \in Nat
        /\ c.kind = b.kind /\ c.body = Append(b.body, Item)
        /\ (emulating => front = <<>> /\ (b.kind = "call" => b.body # <<>>))
    BY <1>3, <1>4, <1>5, <1>6
  <2> HIDE DEF k
  <2> QED
    BY <2>1, GrownBlockGains
<1>8. /\ BlocksGain(emulating, bs, cs, IF emulating /\ k = "call" THEN "text" ELSE k, <<Item>>)
      /\ Complete(cs, "extra") = Complete(bs, "extra")
      /\ k # "extra" => Of(cs, {"extra"}) = Of(bs, {"extra"})
  BY <1>6, <1>7
<1>9. (open = "extra" <=> k = "extra") /\ (open' = "extra" <=> open = "extra") /\ (k = "call" <=> open = "call")
  OBVIOUS
<1>10. Complete(cs, open') = Complete(bs, open)
  <2>1. CASE open = "extra"
    BY <1>8, <1>9, <2>1
  <2>2. CASE open # "extra"
    <3>1. Complete(cs, open') = Of(cs, {"extra"}) /\ Complete(bs, open) = Of(bs, {"extra"})
      BY <1>9, <2>2 DEF Complete
    <3> QED
      BY <1>8, <1>9, <2>2, <3>1
  <2> QED
    BY <2>1, <2>2
<1> QED
  BY <1>8, <1>9, <1>10 DEF bs, cs

\* While a stream is read.
Reading == KeptOK /\ Heard /\ Ended

\* A message that starts says nothing yet.
LEMMA MessageStartSaid == ASSUME Reading, MessageStart PROVE Reading'
<1>1. KeptOK /\ Heard /\ Ended /\ items \in Nat /\ meant \in Message
  BY DEF Reading, KeptOK
<1>2. PICK extra \in BOOLEAN : Comes("anthropic", IF extra THEN Says("fields") ELSE <<>>)
  BY DEF MessageStart
<1>3. /\ items = 0 /\ UNCHANGED <<open, slots, extras>>
      /\ latest' = [reason |-> latest.reason, usage |-> <<Item, Item>>]
      /\ meant' = [meant EXCEPT !.usage = <<Item, Item>>]
  BY DEF MessageStart
<1>4. Item \in Nat /\ <<Item, Item>> \in Usages /\ <<Item, Item>> # <<>>
  BY <1>1 DEF Item, Usages
<1>5. meant' \in Message /\ meant'.blocks = meant.blocks /\ meant'.reason = meant.reason
      /\ meant'.usage = <<Item, Item>>
  BY <1>1, <1>3, <1>4 DEF Message
<1>6. BlocksGain(emulating, meant.blocks, meant'.blocks, "none", <<>>)
      /\ Complete(meant'.blocks, open') = Complete(meant.blocks, open)
  BY <1>3, <1>5 DEF BlocksGain, Adds
<1>7. /\ Heard' /\ events' \in Seq(Told) /\ Of(events', {"end"}) = Of(events, {"end"})
      /\ adapter = "anthropic" /\ items' = Item
  <2>1. CASE extra
    <3>1. "fields" \in SaidKinds \ {"extra"} /\ Channel("fields") = "fields"
      BY DEF SaidKinds, Channel, Thoughts
    <3> QED
      BY <1>1, <1>2, <1>6, <2>1, <3>1, AsideStep
  <2>2. CASE ~extra
    BY <1>1, <1>2, <1>6, <2>2, SilentStep
  <2> QED
    BY <2>1, <2>2
<1>8. adapter' = adapter /\ emulating' = emulating
  BY <1>2 DEF Comes
<1>9. latest' \in End /\ latest'.reason = latest.reason /\ latest'.usage = <<Item, Item>>
      /\ latest' = [reason |-> latest'.reason, usage |-> latest'.usage]
  <2>1. latest.reason \in Reasons
    BY <1>1 DEF KeptOK, End
  <2> QED
    BY <1>3, <1>4, <2>1 DEF End
<1>10. KeptOK'
  BY <1>1, <1>3, <1>5, <1>7, <1>8, <1>9, KeptAsItIs
<1>11. Reason' = Reason
  BY <1>3, <1>5, <1>8, ReasonIsKept
<1>12. Ended'
  BY <1>1, <1>4, <1>5, <1>7, <1>8, <1>9, <1>11 DEF Ended, Keepers
<1> QED
  BY <1>7, <1>10, <1>12 DEF Reading

\* What every step of a stream that is read starts from.
LEMMA WhileReading ==
  Reading => /\ KeptOK /\ Heard /\ Ended
             /\ adapter \in Adapters /\ emulating \in BOOLEAN /\ (emulating => adapter = "anthropic")
             /\ items \in Nat /\ Item \in Nat /\ Item # 0 /\ <<Item>> \in Seq(Nat) /\ <<Item>> # <<>>
             /\ <<Item, Item>> \in Usages /\ <<Item, Item>> # <<>>
             /\ open \in Opens /\ (adapter # "anthropic" => open = "none")
             /\ meant \in Message /\ latest \in End /\ Here \in Nat
             /\ open # "none" => /\ items # 0 /\ Here \in 1..Here
                                 /\ meant.blocks[Here].kind = IF open = "signed" THEN "thinking" ELSE open
<1> SUFFICES ASSUME Reading
             PROVE  /\ KeptOK /\ Heard /\ Ended
                    /\ adapter \in Adapters /\ emulating \in BOOLEAN /\ (emulating => adapter = "anthropic")
                    /\ items \in Nat /\ Item \in Nat /\ Item # 0 /\ <<Item>> \in Seq(Nat) /\ <<Item>> # <<>>
                    /\ <<Item, Item>> \in Usages /\ <<Item, Item>> # <<>>
                    /\ open \in Opens /\ (adapter # "anthropic" => open = "none")
                    /\ meant \in Message /\ latest \in End /\ Here \in Nat
                    /\ open # "none" => /\ items # 0 /\ Here \in 1..Here
                                        /\ meant.blocks[Here].kind = IF open = "signed" THEN "thinking" ELSE open
  OBVIOUS
<1>1. KeptOK /\ Heard /\ Ended
  BY DEF Reading
<1>2. items \in Nat /\ meant \in Message /\ latest \in End
  BY <1>1 DEF KeptOK
<1>3. Item \in Nat /\ Item # 0 /\ Here \in Nat
  BY <1>2, ItsMessage DEF Item
<1>4. <<Item>> \in Seq(Nat) /\ <<Item>> # <<>> /\ <<Item, Item>> # <<>> /\ <<Item, Item>> \in Usages
  BY <1>3 DEF Usages
<1>5. /\ adapter \in Adapters /\ emulating \in BOOLEAN /\ (emulating => adapter = "anthropic")
      /\ open \in Opens /\ (adapter # "anthropic" => open = "none")
      /\ open # "none" => /\ items # 0 /\ Here > 0
                          /\ meant.blocks[Here].kind = IF open = "signed" THEN "thinking" ELSE open
  BY <1>1 DEF KeptOK
<1>6. Here > 0 => Here \in 1..Here
  BY <1>3
<1> QED
  BY <1>1, <1>2, <1>3, <1>4, <1>5, <1>6

\* What an item yields has no channel of its own, or that of its kind.
LEMMA Channels ==
  /\ {"text", "refusal", "thinking", "signature", "thinking_block", "extra_start", "extra_delta",
      "citation", "note", "fields"} = SaidKinds \ {"extra"}
  /\ Channel("text") = "text" /\ Channel("refusal") = "refusal" /\ Channel("thinking") = "thinking"
  /\ Channel("signature") = "thinking" /\ Channel("thinking_block") = "thinking"
  /\ Channel("extra_start") = "extra_start" /\ Channel("extra_delta") = "extra_delta"
  /\ Channel("citation") = "citation" /\ Channel("note") = "note" /\ Channel("fields") = "fields"
BY DEF SaidKinds, Channel, Thoughts

\* A block of Anthropic's starts.
LEMMA BlockStartSaid ==
  ASSUME Reading, NEW k \in {"text", "thinking", "redacted", "call", "extra"}, BlockStart(k)
  PROVE  Reading'
<1> DEFINE kind == IF k = "redacted" THEN "thinking" ELSE k
           body == IF k \in {"text", "thinking"} THEN <<>> ELSE <<Item>>
<1>1. /\ items # 0 /\ open = "none" /\ (emulating => meant.blocks = <<>> /\ k \in {"text", "call"})
      /\ Comes("anthropic", CASE k = "redacted" -> Says("thinking_block")
                              [] k = "extra" -> Says("extra_start")
                              [] OTHER -> <<>>)
      /\ open' = (IF k = "redacted" THEN "none" ELSE k) /\ NewBlock(kind, body)
      /\ slots' = (IF k = "call" THEN With(slots, Here + 1, <<Item>>) ELSE slots)
      /\ extras' = (IF k = "extra" THEN With(extras, Here + 1, <<Item>>) ELSE extras)
      /\ latest' = latest
  BY WhileReading DEF BlockStart
<1>2. kind \in Kinds /\ body \in Seq(Nat) /\ (k \in {"call", "extra"} => body = <<Item>> /\ kind = k)
      /\ (kind = "call" <=> k = "call") /\ (k \notin {"redacted", "extra"} => kind = k)
      /\ (k \in {"text", "thinking"} => body = <<>>) /\ (k = "redacted" => kind = "thinking" /\ body = <<Item>>)
  <2>1. <<Item>> \in Seq(Nat) /\ <<>> \in Seq(Nat)
    BY WhileReading
  <2>2. body \in Seq(Nat)
    BY <2>1
  <2>3. kind \in Kinds
    BY DEF Kinds
  <2> HIDE DEF kind
  <2>4. /\ k \in {"call", "extra"} => body = <<Item>>
        /\ k \in {"text", "thinking"} => body = <<>>
        /\ k = "redacted" => body = <<Item>>
    OBVIOUS
  <2> HIDE DEF body
  <2> QED
    BY <2>2, <2>3, <2>4 DEF kind
<1> HIDE DEF kind, body
<1>3. /\ BlocksGain(emulating, meant.blocks, meant'.blocks, kind, body)
      /\ Complete(meant'.blocks, open') = Complete(meant.blocks, open)
  <2>1. emulating /\ kind = "call" => \E x : body = <<x>>
    BY <1>2
  <2>2. open' \in {"none", kind} /\ (kind = "extra" => open' = "extra")
    BY <1>1, <1>2
  <2> QED
    BY <1>1, <1>2, <2>1, <2>2, WhileReading, BlockBegins
<1>4. /\ Heard' /\ events' \in Seq(Told) /\ Of(events', {"end"}) = Of(events, {"end"})
      /\ adapter = "anthropic" /\ items' = Item
  <2>1. CASE k = "redacted"
    <3>1. Comes("anthropic", Says("thinking_block"))
      BY <1>1, <2>1
    <3> QED
      BY <1>2, <1>3, <2>1, <3>1, WhileReading, Channels, SaysStep
  <2>2. CASE k = "extra"
    <3>1. Comes("anthropic", Says("extra_start"))
      BY <1>1, <2>2
    <3>2. kind = "extra"
      BY <1>2, <2>2
    <3> QED
      BY <1>3, <3>1, <3>2, WhileReading, Channels, AsideStep
  <2>3. CASE k \in {"text", "thinking", "call"}
    <3>1. Comes("anthropic", <<>>)
      BY <1>1, <2>3
    <3>2. kind \notin {"text", "refusal", "thinking"} \/ body = <<>>
      BY <1>2, <2>3
    <3> QED
      BY <1>3, <3>1, <3>2, WhileReading, SilentStep
  <2> QED
    BY <2>1, <2>2, <2>3
<1>5. adapter' = adapter /\ emulating' = emulating
  BY <1>1 DEF Comes
<1>6. meant'.reason = meant.reason /\ meant'.usage = meant.usage
  BY <1>1, <1>2, WhileReading, BlockBegun
<1>7. KeptOK'
  <2>1. open' \in Opens \ {"signed"} /\ open' \in {"none", kind}
    BY <1>1, <1>2 DEF Opens
  <2>2. slots' = (IF kind = "call" THEN With(slots, Here + 1, body) ELSE slots)
    BY <1>1, <1>2
  <2>3. open' = "extra" => extras' = With(extras, Here + 1, body)
    BY <1>1, <1>2
  <2>4. (kind = "call" => body # <<>> /\ adapter # "echo") /\ latest' \in End
    BY <1>1, <1>2, <1>4, WhileReading
  <2> QED
    BY <1>1, <1>2, <1>4, <1>5, <2>1, <2>2, <2>3, <2>4, WhileReading, KeptWithNew
<1>8. Ended'
  BY <1>1, <1>4, <1>5, <1>6, WhileReading, EndedAsItIs
<1> QED
  BY <1>4, <1>7, <1>8 DEF Reading

\* It grows.
LEMMA BlockDeltaSaid == ASSUME Reading, BlockDelta PROVE Reading'
<1>1. /\ open \in {"text", "thinking", "call", "extra"}
      /\ Comes("anthropic", CASE open = "text" \/ (open = "call" /\ emulating) -> Says("text")
                              [] open = "thinking" -> Says("thinking")
                              [] open = "extra" -> Says("extra_delta")
                              [] OTHER -> <<>>)
      /\ Extend(Here)
      /\ slots' = (IF open = "call" /\ ~emulating THEN [slots EXCEPT ![Here] = Append(@, Item)] ELSE slots)
      /\ extras' = (IF open = "extra" THEN [extras EXCEPT ![Here] = Append(@, Item)] ELSE extras)
      /\ open' = open /\ latest' = latest
  BY DEF BlockDelta
<1> DEFINE c == IF emulating /\ open = "call" THEN "text"
                ELSE IF open = "signed" THEN "thinking" ELSE open
<1>2. /\ BlocksGain(emulating, meant.blocks, meant'.blocks, c, <<Item>>)
      /\ Complete(meant'.blocks, open') = Complete(meant.blocks, open)
  <2>1. open # "none"
    BY <1>1
  <2> QED
    BY <1>1, <2>1, WhileReading, BlockGrows
<1>3. /\ Heard' /\ events' \in Seq(Told) /\ Of(events', {"end"}) = Of(events, {"end"})
      /\ adapter = "anthropic" /\ items' = Item
  <2>1. CASE open = "text" \/ (open = "call" /\ emulating)
    <3>1. Comes("anthropic", Says("text")) /\ c = "text"
      BY <1>1, <2>1
    <3> HIDE DEF c
    <3> QED
      BY <1>2, <3>1, WhileReading, Channels, SaysStep
  <2>2. CASE open = "thinking"
    <3>1. Comes("anthropic", Says("thinking")) /\ c = "thinking"
      BY <1>1, <2>2
    <3> HIDE DEF c
    <3> QED
      BY <1>2, <3>1, WhileReading, Channels, SaysStep
  <2>3. CASE open = "extra"
    <3>1. Comes("anthropic", Says("extra_delta")) /\ c = "extra"
      BY <1>1, <2>3
    <3> HIDE DEF c
    <3> QED
      BY <1>2, <3>1, WhileReading, Channels, AsideStep
  <2>4. CASE open = "call" /\ ~emulating
    <3>1. Comes("anthropic", <<>>) /\ c = "call"
      BY <1>1, <2>4
    <3> HIDE DEF c
    <3> QED
      BY <1>2, <3>1, WhileReading, SilentStep
  <2> QED
    BY <1>1, <2>1, <2>2, <2>3, <2>4
<1>4. adapter' = adapter /\ emulating' = emulating
  BY <1>1 DEF Comes
<1>5. Here \in 1..Here /\ meant.blocks[Here].kind = open /\ items # 0
  BY <1>1, WhileReading
<1>6. meant'.reason = meant.reason /\ meant'.usage = meant.usage
  BY <1>1, <1>5, WhileReading, BlockGrown
<1>7. KeptOK'
  <2>1. slots' = (IF meant.blocks[Here].kind = "call" /\ ~emulating
                  THEN [slots EXCEPT ![Here] = Append(@, Item)] ELSE slots)
    BY <1>1, <1>5
  <2>2. adapter # "echo" /\ latest' \in End
    BY <1>1, <1>3, WhileReading
  <2> QED
    BY <1>1, <1>3, <1>4, <1>5, <2>1, <2>2, WhileReading, KeptAsItGrows
<1>8. Ended'
  BY <1>1, <1>3, <1>4, <1>5, <1>6, WhileReading, EndedAsItIs
<1> QED
  BY <1>3, <1>7, <1>8 DEF Reading

\* It is signed.
LEMMA SignatureSaid == ASSUME Reading, Signature PROVE Reading'
<1>1. /\ open = "thinking" /\ open' = "signed" /\ Comes("anthropic", Says("signature")) /\ Extend(Here)
      /\ slots' = slots /\ extras' = extras /\ latest' = latest
  BY DEF Signature
<1>2. /\ BlocksGain(emulating, meant.blocks, meant'.blocks, "thinking", <<Item>>)
      /\ Complete(meant'.blocks, open') = Complete(meant.blocks, open)
  <2>1. open # "none"
    BY <1>1
  <2>2. (IF emulating /\ open = "call" THEN "text"
         ELSE IF open = "signed" THEN "thinking" ELSE open) = "thinking"
    BY <1>1
  <2> QED
    BY <1>1, <2>1, <2>2, WhileReading, BlockGrows
<1>3. /\ Heard' /\ events' \in Seq(Told) /\ Of(events', {"end"}) = Of(events, {"end"})
      /\ adapter = "anthropic" /\ items' = Item
  BY <1>1, <1>2, WhileReading, Channels, SaysStep
<1>4. adapter' = adapter /\ emulating' = emulating
  BY <1>1 DEF Comes
<1>5. Here \in 1..Here /\ meant.blocks[Here].kind = "thinking" /\ items # 0
  BY <1>1, WhileReading
<1>6. meant'.reason = meant.reason /\ meant'.usage = meant.usage
  BY <1>1, <1>5, WhileReading, BlockGrown
<1>7. KeptOK'
  <2>1. slots' = (IF meant.blocks[Here].kind = "call" /\ ~emulating
                  THEN [slots EXCEPT ![Here] = Append(@, Item)] ELSE slots)
    BY <1>1, <1>5
  <2>2. adapter # "echo" /\ latest' \in End
    BY <1>1, <1>3, WhileReading
  <2> QED
    BY <1>1, <1>3, <1>4, <1>5, <2>1, <2>2, WhileReading, KeptAsItGrows
<1>8. Ended'
  BY <1>1, <1>3, <1>4, <1>5, <1>6, WhileReading, EndedAsItIs
<1> QED
  BY <1>3, <1>7, <1>8 DEF Reading

\* Without a block more, nothing more is said.
LEMMA NothingGained ==
  ASSUME meant'.blocks = meant.blocks, open' = open
  PROVE  /\ BlocksGain(emulating, meant.blocks, meant'.blocks, "none", <<>>)
         /\ Complete(meant'.blocks, open') = Complete(meant.blocks, open)
BY DEF BlocksGain, Adds

\* A citation or a note is passed on, and changes nothing.
LEMMA AsideSaid ==
  ASSUME Reading, NEW a, NEW k \in {"citation", "note"}, Comes(a, Says(k)),
         UNCHANGED <<open, meant, slots, extras, latest>>, a = "anthropic" => items # 0
  PROVE  Reading'
<1>1. /\ BlocksGain(emulating, meant.blocks, meant'.blocks, "none", <<>>)
      /\ Complete(meant'.blocks, open') = Complete(meant.blocks, open)
  BY NothingGained
<1>2. /\ Heard' /\ events' \in Seq(Told) /\ Of(events', {"end"}) = Of(events, {"end"})
      /\ adapter = a /\ items' = Item
  <2>1. k \in SaidKinds \ {"extra"} /\ Channel(k) \notin {"text", "refusal", "thinking"}
    BY Channels
  <2> QED
    BY <1>1, <2>1, WhileReading, AsideStep
<1>3. adapter' = adapter /\ emulating' = emulating
  BY DEF Comes
<1>4. KeptOK'
  BY <1>2, <1>3, WhileReading, KeptAsItIs
<1>5. Ended'
  BY <1>2, <1>3, WhileReading, EndedAsItIs
<1> QED
  BY <1>2, <1>4, <1>5 DEF Reading

\* The blocks stay when one stops, and an extra one is passed on as a whole.
LEMMA BlockStopSaid == ASSUME Reading, BlockStop PROVE Reading'
<1>1. /\ open \in {"text", "signed", "call", "extra"} /\ open' = "none"
      /\ events' = (IF open = "extra" THEN Append(events, [kind |-> "extra", body |-> extras[Here]])
                    ELSE events)
      /\ UNCHANGED <<adapter, emulating, items, meant, slots, latest>>
  BY DEF BlockStop
<1>2. events \in Seq(Told) /\ Heard /\ KeptOK /\ Ended
  BY DEF Reading, KeptOK
<1>3. Complete(meant'.blocks, open') = Of(meant.blocks, {"extra"})
  BY <1>1 DEF Complete
<1>4. Heard' /\ events' \in Seq(Told) /\ Of(events', {"end"}) = Of(events, {"end"})
  <2>1. CASE open = "extra"
    <3> DEFINE x == meant.blocks[Here].body
               n == Here
               front == Before(meant.blocks)
    <3>1. extras[Here] = x
      BY <1>2, <2>1 DEF KeptOK
    <3>2. /\ n \in 1..n /\ n \in Nat /\ meant.blocks[n].kind = "extra" /\ meant.blocks[n] \in Block
          /\ x \in Seq(Nat) /\ meant.blocks \in Seq(Block) /\ Len(meant.blocks) = n
      BY <2>1, WhileReading, ItsMessage DEF Here
    <3> HIDE DEF n
    <3>3. front \in Seq(Block) /\ meant.blocks = Append(front, meant.blocks[n])
      <4>1. n \in Nat \ {0}
        BY <3>2
      <4> QED
        BY <3>2, <4>1, OnlyTheLast
    <3>4. events' = Append(events, [kind |-> "extra", body |-> x])
      BY <1>1, <2>1, <3>1
    <3> HIDE DEF front, x
    <3>5. "extra" \in SaidKinds /\ Channel("extra") = "extra"
      BY DEF SaidKinds, Channel, Thoughts
    <3>6. LET fs == Append(events, [kind |-> "extra", body |-> x])
          IN  /\ fs \in Seq(Told) /\ EventsGain(events, fs, Channel("extra"), x)
              /\ Of(fs, {"extra"}) = IF "extra" = "extra" THEN Append(Of(events, {"extra"}), x)
                                     ELSE Of(events, {"extra"})
              /\ Of(fs, {"calls"}) = Of(events, {"calls"}) /\ Of(fs, {"end"}) = Of(events, {"end"})
      BY <1>2, <3>2, <3>5, SaidGains
    <3>7. /\ events' \in Seq(Told) /\ EventsGain(events, events', "extra", x)
          /\ Of(events', {"extra"}) = Append(Of(events, {"extra"}), x)
          /\ Of(events', {"calls"}) = Of(events, {"calls"}) /\ Of(events', {"end"}) = Of(events, {"end"})
      BY <3>4, <3>5, <3>6
    <3>8. Of(meant.blocks, {"extra"}) = Append(Complete(meant.blocks, "extra"), meant.blocks[n].body)
      BY <3>2, <3>3, ExtraIsComplete
    <3>9. Of(events', {"extra"}) = Complete(meant'.blocks, open')
      BY <1>2, <1>3, <2>1, <3>7, <3>8 DEF Heard, x, n
    <3>10. BlocksGain(emulating, meant.blocks, meant'.blocks, "extra", x)
      BY <1>1 DEF BlocksGain, Adds
    <3>11. Heard'
      BY <1>1, <1>2, <3>7, <3>9, <3>10, HeardMore
    <3> QED
      BY <3>7, <3>11
  <2>2. CASE open # "extra"
    <3>1. Complete(meant.blocks, open) = Of(meant.blocks, {"extra"})
      BY <2>2 DEF Complete
    <3>2. events' = events /\ meant' = meant /\ emulating' = emulating
      BY <1>1, <2>2
    <3> QED
      BY <1>2, <1>3, <3>1, <3>2 DEF Heard
  <2> QED
    BY <2>1, <2>2
<1>5. KeptOK'
  <2>1. Here' = Here /\ Calls' = Calls /\ "none" \in Opens
    BY <1>1 DEF Here, Calls, Opens
  <2> QED
    BY <1>1, <1>2, <1>4, <2>1 DEF KeptOK
<1>6. Ended'
  BY <1>1, <1>2, <1>4, EndedAsItIs
<1> QED
  BY <1>4, <1>5, <1>6 DEF Reading

\* The reason comes with the rest of the usage.
LEMMA MessageDeltaSaid ==
  ASSUME Reading, NEW raw \in {"end_turn", "max_tokens", "tool_use", "refusal", "other"}, MessageDelta(raw)
  PROVE  Reading'
<1>1. /\ items # 0 /\ open = "none" /\ Comes("anthropic", <<>>)
      /\ meant' = [meant EXCEPT !.reason = raw, !.usage = <<meant.usage[1], Item>>]
      /\ latest' = [reason |-> AnthropicReason(raw), usage |-> <<latest.usage[1], Item>>]
      /\ UNCHANGED <<open, slots, extras>>
  BY WhileReading DEF MessageDelta
<1> DEFINE u == <<meant.usage[1], Item>>
<1>2. adapter = "anthropic" /\ adapter' = adapter /\ emulating' = emulating
  BY <1>1 DEF Comes
<1>3. latest.usage = meant.usage /\ meant.usage \in Nat \X Nat
  <2>1. Ended /\ meant.usage \in Usages
    BY WhileReading, ItsMessage
  <2>2. meant.usage # <<>> /\ latest.usage = meant.usage
    BY <1>1, <1>2, <2>1 DEF Ended, Keepers
  <2> QED
    BY <2>1, <2>2 DEF Usages
<1>4. u \in Usages /\ u # <<>>
  BY <1>3, WhileReading DEF Usages
<1>5. AnthropicReason(raw) \in Reasons /\ raw \in Raws
  BY DEF AnthropicReason, Reasons, Raws
<1>6. latest' = [reason |-> AnthropicReason(raw), usage |-> u]
  BY <1>1, <1>3
<1> HIDE DEF u
<1>7. meant' \in Message /\ meant'.blocks = meant.blocks /\ meant'.reason = raw /\ meant'.usage = u
  <2>1. meant' = [meant EXCEPT !.reason = raw, !.usage = u]
    BY <1>1 DEF u
  <2> QED
    BY <1>4, <1>5, <2>1, WhileReading DEF Message
<1>8. /\ BlocksGain(emulating, meant.blocks, meant'.blocks, "none", <<>>)
      /\ Complete(meant'.blocks, open') = Complete(meant.blocks, open)
  BY <1>1, <1>7, NothingGained
<1>9. /\ Heard' /\ events' \in Seq(Told) /\ Of(events', {"end"}) = Of(events, {"end"})
      /\ adapter = "anthropic" /\ items' = Item
  BY <1>1, <1>8, WhileReading, SilentStep
<1>10. latest' \in End /\ latest'.reason = AnthropicReason(raw) /\ latest'.usage = u
       /\ latest' = [reason |-> latest'.reason, usage |-> latest'.usage]
  BY <1>4, <1>5, <1>6 DEF End
<1>11. KeptOK'
  BY <1>1, <1>2, <1>7, <1>9, <1>10, WhileReading, KeptAsItIs
<1>12. Reason' = AnthropicReason(raw)
  BY <1>2, <1>7 DEF Reason, AnthropicReason
<1>13. Ended'
  BY <1>2, <1>4, <1>7, <1>9, <1>10, <1>12, WhileReading DEF Ended, Keepers
<1> QED
  BY <1>9, <1>11, <1>13 DEF Reading

\* Whatever Anthropic sends.
LEMMA AnthropicSaid == ASSUME Reading, Anthropic PROVE Reading'
<1>1. CASE Citation
  <2>1. Comes("anthropic", Says("citation")) /\ open = "text" /\ UNCHANGED <<open, meant, slots, extras, latest>>
    BY <1>1 DEF Citation
  <2>2. items # 0
    BY <2>1, WhileReading
  <2> QED
    BY <2>1, <2>2, AsideSaid
<1> QED
  BY <1>1, MessageStartSaid, BlockStartSaid, BlockDeltaSaid, SignatureSaid, BlockStopSaid,
     MessageDeltaSaid DEF Anthropic

\* A part comes in one: a text, which is passed on, or what is kept or dropped.
LEMMA PartComesSaid ==
  ASSUME Reading, Unended, NEW a \in Adapters \ {"anthropic"}, NEW k \in Kinds \ {"extra"},
         NEW ps \in {<<Item>>, <<Item, Item>>}, NewBlock(k, ps),
         Comes(a, IF k \in {"text", "refusal", "thinking"} THEN Says(k) ELSE <<>>),
         k \in {"text", "refusal", "thinking"} => ps = <<Item>>,
         slots' = (IF k = "call" THEN With(slots, Here + 1, ps) ELSE slots), k = "call" => a # "echo",
         UNCHANGED <<open, extras, latest>>
  PROVE  Reading'
<1>1. adapter = a /\ adapter' = adapter /\ emulating' = emulating
  BY DEF Comes
<1>2. open = "none" /\ ~emulating /\ ps \in Seq(Nat) /\ ps # <<>> /\ k \in Kinds
  <2>1. open = "none" /\ ~emulating
    BY <1>1, WhileReading
  <2>2. <<Item, Item>> \in Seq(Nat) /\ <<Item>> \in Seq(Nat) /\ <<Item, Item>> # <<>> /\ <<Item>> # <<>>
    BY WhileReading
  <2> QED
    BY <2>1, <2>2
<1>3. /\ BlocksGain(emulating, meant.blocks, meant'.blocks, k, ps)
      /\ Complete(meant'.blocks, open') = Complete(meant.blocks, open)
  <2>1. open' \in {"none", k} /\ (k = "extra" => open' = "extra")
    BY <1>2
  <2> QED
    BY <1>2, <2>1, WhileReading, BlockBegins
<1>4. /\ Heard' /\ events' \in Seq(Told) /\ Of(events', {"end"}) = Of(events, {"end"})
      /\ adapter = a /\ items' = Item
  <2>1. CASE k \in {"text", "refusal", "thinking"}
    <3>1. Comes(a, Says(k)) /\ ps = <<Item>> /\ k \in SaidKinds \ {"extra"} /\ Channel(k) = k
      BY <2>1, Channels
    <3> QED
      BY <1>3, <3>1, WhileReading, SaysStep
  <2>2. CASE k \notin {"text", "refusal", "thinking"}
    <3>1. Comes(a, <<>>)
      BY <2>2
    <3> QED
      BY <1>3, <2>2, <3>1, WhileReading, SilentStep
  <2> QED
    BY <2>1, <2>2
<1>5. meant'.reason = meant.reason /\ meant'.usage = meant.usage
  BY <1>2, WhileReading, BlockBegun
<1>6. KeptOK'
  <2>1. open' \in Opens \ {"signed"} /\ open' \in {"none", k} /\ open' # "extra" /\ latest' \in End
    BY <1>2, WhileReading DEF Opens
  <2>2. (k = "call" => ps # <<>> /\ adapter # "echo") /\ (adapter # "anthropic" => open' = "none")
    BY <1>1, <1>2
  <2> QED
    BY <1>1, <1>2, <1>4, <2>1, <2>2, WhileReading, KeptWithNew
<1>7. Ended'
  BY <1>1, <1>4, <1>5, WhileReading, EndedAsItIs
<1> QED
  BY <1>4, <1>6, <1>7 DEF Reading

\* A call that has begun goes on.
LEMMA CallGoesOnSaid ==
  ASSUME Reading, Unended, Comes("openai", <<>>), NEW i \in Calls, Extend(i),
         slots' = [slots EXCEPT ![i] = Append(@, Item)], UNCHANGED <<open, extras, latest>>
  PROVE  Reading'
<1>1. adapter = "openai" /\ adapter' = adapter /\ emulating' = emulating
  BY DEF Comes
<1>2. open = "none" /\ emulating = FALSE /\ i \in 1..Here /\ meant.blocks[i].kind = "call"
  BY <1>1, WhileReading, CallsAre
<1>3. /\ meant' \in Message /\ Here' = Here
      /\ meant'.reason = meant.reason /\ meant'.usage = meant.usage
      /\ \A j \in 1..Here : /\ meant'.blocks[j].kind = meant.blocks[j].kind
                            /\ j # i => meant'.blocks[j] = meant.blocks[j]
  BY <1>2, WhileReading, BlockGrown
<1>4. /\ BlocksGain(emulating, meant.blocks, meant'.blocks, "call", <<>>)
      /\ Complete(meant'.blocks, open') = Complete(meant.blocks, open)
  <2>1. meant.blocks \in Seq(Block) /\ meant'.blocks \in Seq(Block) /\ Len(meant.blocks) = Len(meant'.blocks)
    BY <1>3, WhileReading DEF Message, Here
  <2>2. \A j \in 1..Len(meant.blocks) :
          /\ meant'.blocks[j].kind = meant.blocks[j].kind
          /\ meant.blocks[j].kind # "call" => meant'.blocks[j].body = meant.blocks[j].body
    BY <1>2, <1>3 DEF Here
  <2>3. /\ BlocksGain(FALSE, meant.blocks, meant'.blocks, "call", <<>>)
        /\ Of(meant'.blocks, {"extra"}) = Of(meant.blocks, {"extra"})
    BY <2>1, <2>2, GrownCallGains
  <2>4. Complete(meant'.blocks, open') = Complete(meant.blocks, open)
    BY <1>2, <2>3 DEF Complete
  <2> QED
    BY <1>2, <2>3, <2>4
<1>5. /\ Heard' /\ events' \in Seq(Told) /\ Of(events', {"end"}) = Of(events, {"end"})
      /\ adapter = "openai" /\ items' = Item
  BY <1>4, WhileReading, SilentStep
<1>6. KeptOK'
  <2>1. /\ slots' = (IF meant.blocks[i].kind = "call" /\ ~emulating
                     THEN [slots EXCEPT ![i] = Append(@, Item)] ELSE slots)
        /\ extras' = (IF open = "extra" THEN [extras EXCEPT ![Here] = Append(@, Item)] ELSE extras)
        /\ latest' \in End /\ adapter # "echo"
    BY <1>1, <1>2, WhileReading
  <2> QED
    BY <1>1, <1>2, <1>5, <2>1, WhileReading, KeptAsItGrows
<1>7. Ended'
  BY <1>1, <1>3, <1>5, WhileReading, EndedAsItIs
<1> QED
  BY <1>5, <1>6, <1>7 DEF Reading

\* The adapters that yield the end when it comes: the last reason and usage are those of
\* the message.
LEMMA EndComesSaid ==
  ASSUME Reading, NEW a \in Adapters \ Keepers, NEW r \in Reasons, NEW u \in Usages,
         Comes(a, Ending(r, u)), UNCHANGED <<open, slots, extras, latest>>,
         meant' \in Message, meant'.blocks = meant.blocks, meant'.reason # "none",
         Reason' = (IF r # "none" THEN r ELSE Reason),
         meant'.usage = IF u # <<>> THEN u ELSE meant.usage
  PROVE  Reading'
<1> DEFINE v == [reason |-> r, usage |-> u]
<1>1. /\ Heard' /\ events' \in Seq(Told) /\ adapter = a /\ items' = Item
      /\ Of(events, {"end"}) \in Seq(End)
      /\ Of(events', {"end"}) = Append(Of(events, {"end"}), v)
      /\ v \in End
  BY WhileReading, EndStep
<1>2. v.reason = r /\ v.usage = u
  OBVIOUS
<1> HIDE DEF v
<1>3. /\ LastReason(Of(events', {"end"})) = (IF r # "none" THEN r ELSE LastReason(Of(events, {"end"})))
      /\ LastUsage(Of(events', {"end"})) = (IF u # <<>> THEN u ELSE LastUsage(Of(events, {"end"})))
  BY <1>1, <1>2, LastEnd
<1>4. adapter' = adapter /\ emulating' = emulating
  BY DEF Comes
<1>5. KeptOK'
  BY <1>1, <1>4, WhileReading, KeptAsItIs
<1>6. Ended
  BY WhileReading
<1>7. Ended'
  BY <1>1, <1>3, <1>4, <1>6 DEF Ended, Keepers, Unended
<1> QED
  BY <1>1, <1>5, <1>7 DEF Reading

\* Nothing is yielded of an end without any.
LEMMA NoEndSaid ==
  ASSUME Reading, NEW a \in Adapters \ Keepers, Comes(a, <<>>), UNCHANGED <<open, slots, extras, latest>>,
         meant' \in Message, meant'.blocks = meant.blocks, meant'.reason # "none",
         Reason' = Reason, meant'.usage = meant.usage
  PROVE  Reading'
<1>1. /\ BlocksGain(emulating, meant.blocks, meant'.blocks, "none", <<>>)
      /\ Complete(meant'.blocks, open') = Complete(meant.blocks, open)
  BY NothingGained
<1>2. /\ Heard' /\ events' \in Seq(Told) /\ Of(events', {"end"}) = Of(events, {"end"})
      /\ adapter = a /\ items' = Item
  BY <1>1, WhileReading, SilentStep
<1>3. adapter' = adapter /\ emulating' = emulating
  BY DEF Comes
<1>4. KeptOK'
  BY <1>2, <1>3, WhileReading, KeptAsItIs
<1>5. Ended
  BY WhileReading
<1>6. Ended'
  BY <1>2, <1>3, <1>5 DEF Ended, Keepers, Unended
<1> QED
  BY <1>2, <1>4, <1>6 DEF Reading

\* Before the end there is neither reason nor usage.
LEMMA NoneYet ==
  ASSUME Reading, Unended
  PROVE  Reason = "none" /\ (adapter \notin Keepers => meant.usage = <<>>)
<1>1. adapter \notin Keepers => meant.usage = <<>>
  BY WhileReading DEF Ended
<1>2. Reason = "none"
  BY DEF Unended, Reason, AnthropicReason, OpenAIReason, PartReason
<1> QED
  BY <1>1, <1>2

\* Whatever OpenAI sends.
LEMMA OpenAISaid == ASSUME Reading, OpenAI PROVE Reading'
<1>1. "openai" \in Adapters \ {"anthropic"} /\ "openai" \in Adapters \ Keepers
  BY DEF Adapters, Keepers
<1>2. CASE Note
  BY <1>2, AsideSaid DEF Note
<1>3. ASSUME NEW k \in {"text", "refusal"}, ContentChunk(k) PROVE Reading'
  <2>1. /\ Unended /\ NewBlock(k, <<Item>>) /\ UNCHANGED <<open, slots, extras, latest>>
        /\ Comes("openai", IF k \in {"text", "refusal", "thinking"} THEN Says(k) ELSE <<>>)
        /\ slots' = (IF k = "call" THEN With(slots, Here + 1, <<Item>>) ELSE slots)
    BY <1>3 DEF ContentChunk
  <2>2. k \in Kinds \ {"extra"} /\ <<Item>> \in {<<Item>>, <<Item, Item>>}
    BY DEF Kinds
  <2> QED
    BY <1>1, <2>1, <2>2, PartComesSaid
<1>4. CASE CallChunk
  <2>1. Unended /\ Comes("openai", <<>>) /\ UNCHANGED <<open, extras, latest>>
    BY <1>4 DEF CallChunk
  <2>2. CASE NewBlock("call", <<Item>>) /\ slots' = With(slots, Here + 1, <<Item>>)
    <3>1. "call" \in Kinds \ {"extra"} /\ <<Item>> \in {<<Item>>, <<Item, Item>>}
          /\ Comes("openai", IF "call" \in {"text", "refusal", "thinking"} THEN Says("call") ELSE <<>>)
      BY <2>1 DEF Kinds
    <3> QED
      BY <1>1, <2>1, <2>2, <3>1, PartComesSaid
  <2>3. ASSUME NEW i \in Calls, Extend(i), slots' = [slots EXCEPT ![i] = Append(@, Item)]
        PROVE  Reading'
    BY <2>1, <2>3, CallGoesOnSaid
  <2> QED
    BY <1>4, <2>2, <2>3 DEF CallChunk
<1>5. ASSUME NEW raw \in {"stop", "length", "tool_calls", "function_call"}, FinishChunk(raw) PROVE Reading'
  <2> DEFINE r == OpenAIReason(raw)
  <2>1. PICK u \in {<<>>, <<Item, Item>>} :
          /\ Comes("openai", IF r # "none" THEN Ending(r, <<>>)
                             ELSE IF u # <<>> THEN Ending("none", u) ELSE <<>>)
          /\ meant' = [meant EXCEPT !.reason = raw, !.usage = IF r = "none" THEN u ELSE <<>>]
    BY <1>5 DEF FinishChunk
  <2>2. Unended /\ UNCHANGED <<open, slots, extras, latest>>
    BY <1>5 DEF FinishChunk
  <2>3. u \in Usages /\ <<>> \in Usages /\ raw \in Raws /\ raw # "none" /\ r \in Reasons /\ "none" \in Reasons
    BY WhileReading DEF Usages, Raws, Reasons, OpenAIReason
  <2> DEFINE w == IF r = "none" THEN u ELSE <<>>
  <2>4. adapter = "openai" /\ adapter' = adapter /\ Reason = "none" /\ meant.usage = <<>>
    BY <2>1, <2>2, NoneYet DEF Comes, Keepers
  <2> HIDE DEF r
  <2>5. w \in Usages
    BY <2>3
  <2>6. /\ meant' \in Message /\ meant'.blocks = meant.blocks /\ meant'.reason = raw /\ meant'.usage = w
    <3>1. meant' = [meant EXCEPT !.reason = raw, !.usage = w]
      BY <2>1
    <3> HIDE DEF w
    <3> QED
      BY <2>3, <2>5, <3>1, WhileReading DEF Message
  <2>7. Reason' = r
    BY <2>4, <2>6 DEF Reason, r
  <2>8. CASE r # "none"
    BY <1>1, <2>1, <2>2, <2>3, <2>4, <2>6, <2>7, <2>8, EndComesSaid
  <2>9. CASE r = "none" /\ u # <<>>
    BY <1>1, <2>1, <2>2, <2>3, <2>4, <2>6, <2>7, <2>9, EndComesSaid
  <2>10. CASE r = "none" /\ u = <<>>
    BY <1>1, <2>1, <2>2, <2>3, <2>4, <2>6, <2>7, <2>10, NoEndSaid
  <2> QED
    BY <2>8, <2>9, <2>10
<1>6. CASE UsageChunk
  <2> DEFINE u == <<Item, Item>>
  <2>1. /\ ~Unended /\ Comes("openai", Ending("none", u)) /\ meant' = [meant EXCEPT !.usage = u]
        /\ UNCHANGED <<open, slots, extras, latest>>
    BY <1>6 DEF UsageChunk
  <2>2. u \in Usages /\ u # <<>> /\ "none" \in Reasons
    BY WhileReading DEF Reasons
  <2> HIDE DEF u
  <2>3. meant' \in Message /\ meant'.blocks = meant.blocks /\ meant'.reason = meant.reason /\ meant'.usage = u
    BY <2>1, <2>2, WhileReading DEF Message
  <2>4. Reason' = Reason
    BY <2>1, <2>3, ReasonIsKept DEF Comes
  <2> QED
    BY <1>1, <2>1, <2>2, <2>3, <2>4, EndComesSaid DEF Unended
<1> QED
  BY <1>2, <1>3, <1>4, <1>5, <1>6 DEF OpenAI

\* Whatever Gemini, Ollama or echo sends.
LEMMA PartsSaid == ASSUME Reading, Parts PROVE Reading'
<1>1. /\ {"gemini", "ollama", "echo"} \subseteq Adapters \ {"anthropic"}
      /\ {"ollama", "echo"} \subseteq Adapters \ Keepers /\ "gemini" \in Keepers
  BY DEF Adapters, Keepers
<1>2. ASSUME NEW a \in {"gemini", "ollama"}, NEW k \in {"text", "thinking", "call"}, Part(a, k)
      PROVE  Reading'
  <2> DEFINE kind == IF a = "gemini" /\ k = "thinking" THEN "thought" ELSE k
             ps == IF k = "call" THEN <<Item, Item>> ELSE <<Item>>
  <2>1. /\ Unended /\ UNCHANGED <<open, extras, latest>> /\ NewBlock(kind, ps)
        /\ Comes(a, IF k = "call" \/ (k = "thinking" /\ a = "gemini") THEN <<>> ELSE Says(k))
        /\ slots' = (IF k = "call" THEN With(slots, Here + 1, <<Item, Item>>) ELSE slots)
    BY <1>2 DEF Part
  <2>2. kind \in Kinds \ {"extra"} /\ (kind = "call" <=> k = "call")
        /\ (kind \in {"text", "refusal", "thinking"} <=> ~(k = "call" \/ (k = "thinking" /\ a = "gemini")))
        /\ (kind \in {"text", "refusal", "thinking"} => kind = k)
    BY DEF Kinds
  <2> HIDE DEF kind
  <2>3. ps \in {<<Item>>, <<Item, Item>>} /\ (k = "call" => ps = <<Item, Item>>) /\ (k # "call" => ps = <<Item>>)
    OBVIOUS
  <2> HIDE DEF ps
  <2>4. Comes(a, IF kind \in {"text", "refusal", "thinking"} THEN Says(kind) ELSE <<>>)
    BY <2>1, <2>2
  <2>5. /\ kind \in {"text", "refusal", "thinking"} => ps = <<Item>>
        /\ slots' = (IF kind = "call" THEN With(slots, Here + 1, ps) ELSE slots)
        /\ a # "echo" /\ a \in Adapters \ {"anthropic"}
    BY <1>1, <2>1, <2>2, <2>3
  <2> QED
    BY <2>1, <2>2, <2>3, <2>4, <2>5, PartComesSaid
<1>3. ASSUME NEW u \in Usages, Comes("gemini", <<>>), UNCHANGED <<open, slots, extras>>,
             NEW q \in Raws, NEW r \in Reasons, Reason' = r,
             latest' = [reason |-> r, usage |-> u],
             meant' \in Message, meant'.blocks = meant.blocks, meant'.reason = q, meant'.usage = u
      PROVE  Reading'
  <2>1. /\ BlocksGain(emulating, meant.blocks, meant'.blocks, "none", <<>>)
        /\ Complete(meant'.blocks, open') = Complete(meant.blocks, open)
    BY <1>3, NothingGained
  <2>2. /\ Heard' /\ events' \in Seq(Told) /\ Of(events', {"end"}) = Of(events, {"end"})
        /\ adapter = "gemini" /\ items' = Item
    BY <1>3, <2>1, WhileReading, SilentStep
  <2>3. adapter' = adapter /\ emulating' = emulating
    BY <1>3 DEF Comes
  <2>4. latest' \in End /\ latest'.reason = r /\ latest'.usage = u
        /\ latest' = [reason |-> latest'.reason, usage |-> latest'.usage]
    BY <1>3 DEF End
  <2>5. KeptOK'
    BY <1>3, <2>2, <2>3, <2>4, WhileReading, KeptAsItIs
  <2>6. Ended
    BY WhileReading
  <2>7. Ended'
    BY <1>1, <1>3, <2>2, <2>3, <2>4, <2>6 DEF Ended
  <2> QED
    BY <2>2, <2>5, <2>7 DEF Reading
<1>4. ASSUME NEW raw \in {"STOP", "MAX_TOKENS", "SAFETY", "other"}
      PROVE  PartReason(raw) \in Reasons /\ raw \in Raws /\ raw # "none"
  BY DEF PartReason, Reasons, Raws
<1>5. CASE GeminiUsage
  <2> DEFINE u == <<Item, Item>>
  <2>1. /\ Comes("gemini", <<>>) /\ meant' = [meant EXCEPT !.usage = u]
        /\ latest' = [reason |-> latest.reason, usage |-> u] /\ UNCHANGED <<open, slots, extras>>
    BY <1>5 DEF GeminiUsage
  <2>2. u \in Usages
    BY WhileReading
  <2> HIDE DEF u
  <2>3. meant' \in Message /\ meant'.blocks = meant.blocks /\ meant'.reason = meant.reason /\ meant'.usage = u
    BY <2>1, <2>2, WhileReading DEF Message
  <2>4. latest.reason = Reason /\ latest.reason \in Reasons /\ meant.reason \in Raws
    <3>1. adapter = "gemini" /\ Ended /\ latest \in End
      BY <2>1, WhileReading DEF Comes
    <3> QED
      BY <1>1, <3>1, WhileReading, ItsMessage DEF Ended, End
  <2>5. Reason' = latest.reason
    BY <2>1, <2>3, <2>4, ReasonIsKept DEF Comes
  <2> QED
    BY <1>3, <2>1, <2>2, <2>3, <2>4, <2>5
<1>6. ASSUME NEW raw \in {"STOP", "MAX_TOKENS", "SAFETY", "other"}, GeminiFinish(raw) PROVE Reading'
  <2>1. /\ Comes("gemini", <<>>) /\ meant' = [meant EXCEPT !.reason = raw]
        /\ latest' = [reason |-> PartReason(raw), usage |-> latest.usage] /\ UNCHANGED <<open, slots, extras>>
    BY <1>6 DEF GeminiFinish
  <2>2. meant' \in Message /\ meant'.blocks = meant.blocks /\ meant'.reason = raw /\ meant'.usage = meant.usage
    BY <1>4, <2>1, WhileReading DEF Message
  <2>3. latest.usage = meant.usage /\ meant.usage \in Usages /\ adapter = "gemini" /\ adapter' = adapter
    <3>1. adapter = "gemini" /\ adapter' = adapter /\ Ended
      BY <2>1, WhileReading DEF Comes
    <3> QED
      BY <1>1, <3>1, WhileReading, ItsMessage DEF Ended
  <2>4. Reason' = PartReason(raw)
    BY <2>1, <2>2, <2>3 DEF Reason, PartReason
  <2> QED
    BY <1>3, <1>4, <2>1, <2>2, <2>3, <2>4
<1>7. ASSUME NEW raw \in {"STOP", "MAX_TOKENS", "other"}, OllamaDone(raw) PROVE Reading'
  <2> DEFINE r == PartReason(raw)
  <2>1. PICK u \in {<<>>, <<Item, Item>>} :
          /\ Comes("ollama", IF r = "none" /\ u = <<>> THEN <<>> ELSE Ending(r, u))
          /\ meant' = [meant EXCEPT !.reason = raw, !.usage = u]
    BY <1>7 DEF OllamaDone
  <2>2. Unended /\ UNCHANGED <<open, slots, extras, latest>>
    BY <1>7 DEF OllamaDone
  <2>3. u \in Usages /\ raw \in Raws /\ raw # "none" /\ r \in Reasons
    <3>1. u \in Usages
      BY WhileReading DEF Usages
    <3> QED
      BY <1>4, <3>1
  <2>4. adapter = "ollama" /\ adapter' = adapter /\ Reason = "none" /\ meant.usage = <<>>
    BY <2>1, <2>2, NoneYet DEF Comes, Keepers
  <2>5. /\ meant' \in Message /\ meant'.blocks = meant.blocks /\ meant'.reason = raw /\ meant'.usage = u
    BY <2>1, <2>3, WhileReading DEF Message
  <2>6. Reason' = r
    BY <2>2, <2>4, <2>5 DEF Reason, PartReason
  <2> HIDE DEF r
  <2>7. CASE r = "none" /\ u = <<>>
    BY <1>1, <2>1, <2>2, <2>3, <2>4, <2>5, <2>6, <2>7, NoEndSaid
  <2>8. CASE ~(r = "none" /\ u = <<>>)
    BY <1>1, <2>1, <2>2, <2>3, <2>4, <2>5, <2>6, <2>8, EndComesSaid
  <2> QED
    BY <2>7, <2>8
<1>8. CASE EchoWord
  <2>1. /\ Unended /\ NewBlock("text", <<Item>>) /\ UNCHANGED <<open, slots, extras, latest>>
        /\ Comes("echo", IF "text" \in {"text", "refusal", "thinking"} THEN Says("text") ELSE <<>>)
        /\ slots' = (IF "text" = "call" THEN With(slots, Here + 1, <<Item>>) ELSE slots)
    BY <1>8 DEF EchoWord
  <2>2. "text" \in Kinds \ {"extra"} /\ <<Item>> \in {<<Item>>, <<Item, Item>>}
        /\ "echo" \in Adapters \ {"anthropic"}
    BY <1>1 DEF Kinds
  <2> QED
    BY <2>1, <2>2, PartComesSaid
<1>9. CASE EchoEnd
  <2> DEFINE u == <<Item, Item>>
  <2>1. /\ Unended /\ Comes("echo", Ending("stop", u))
        /\ meant' = [meant EXCEPT !.reason = "STOP", !.usage = u] /\ UNCHANGED <<open, slots, extras, latest>>
    BY <1>9 DEF EchoEnd
  <2>2. u \in Usages /\ u # <<>> /\ "stop" \in Reasons /\ "STOP" \in Raws
    BY WhileReading DEF Reasons, Raws
  <2> HIDE DEF u
  <2>3. meant' \in Message /\ meant'.blocks = meant.blocks /\ meant'.reason = "STOP" /\ meant'.usage = u
    BY <2>1, <2>2, WhileReading DEF Message
  <2>4. adapter = "echo" /\ adapter' = adapter /\ slots' = EmptyDict
    <3>1. adapter = "echo" /\ adapter' = adapter /\ KeptOK
      BY <2>1, WhileReading DEF Comes
    <3> QED
      BY <2>1, <3>1 DEF KeptOK
  <2>5. Reason' = "stop"
    BY <2>3, <2>4 DEF Reason, PartReason
  <2> QED
    BY <1>1, <2>1, <2>2, <2>3, <2>5, EndComesSaid
<1> QED
  BY <1>2, <1>5, <1>6, <1>7, <1>8, <1>9 DEF Parts

\* All of them read on.
LEMMA ReadsOn ==
  ASSUME Anthropic \/ OpenAI \/ Parts
  PROVE  phase = "reading" /\ phase' = "reading"
<1>1. ASSUME NEW a, NEW es, Comes(a, es) PROVE phase = "reading" /\ phase' = "reading"
  BY <1>1 DEF Comes
<1>2. CASE Anthropic
  <2>1. CASE BlockStop
    BY <2>1 DEF BlockStop
  <2>2. CASE MessageStart
    BY <1>1, <2>2 DEF MessageStart
  <2>3. CASE BlockDelta
    BY <1>1, <2>3 DEF BlockDelta
  <2>4. CASE Signature \/ Citation
    BY <1>1, <2>4 DEF Signature, Citation
  <2>5. ASSUME NEW k, BlockStart(k) PROVE phase = "reading" /\ phase' = "reading"
    BY <1>1, <2>5 DEF BlockStart
  <2>6. ASSUME NEW raw, MessageDelta(raw) PROVE phase = "reading" /\ phase' = "reading"
    BY <1>1, <2>6 DEF MessageDelta
  <2> QED
    BY <1>2, <2>1, <2>2, <2>3, <2>4, <2>5, <2>6 DEF Anthropic
<1>3. CASE OpenAI
  <2>1. CASE Note \/ CallChunk \/ UsageChunk
    BY <1>1, <2>1 DEF Note, CallChunk, UsageChunk
  <2>2. ASSUME NEW k, ContentChunk(k) PROVE phase = "reading" /\ phase' = "reading"
    BY <1>1, <2>2 DEF ContentChunk
  <2>3. ASSUME NEW raw, FinishChunk(raw) PROVE phase = "reading" /\ phase' = "reading"
    BY <1>1, <2>3 DEF FinishChunk
  <2> QED
    BY <1>3, <2>1, <2>2, <2>3 DEF OpenAI
<1>4. CASE Parts
  <2>1. CASE GeminiUsage \/ EchoWord \/ EchoEnd
    BY <1>1, <2>1 DEF GeminiUsage, EchoWord, EchoEnd
  <2>2. ASSUME NEW a, NEW k, Part(a, k) PROVE phase = "reading" /\ phase' = "reading"
    BY <1>1, <2>2 DEF Part
  <2>3. ASSUME NEW raw, GeminiFinish(raw) PROVE phase = "reading" /\ phase' = "reading"
    BY <1>1, <2>3 DEF GeminiFinish
  <2>4. ASSUME NEW raw, OllamaDone(raw) PROVE phase = "reading" /\ phase' = "reading"
    BY <1>1, <2>4 DEF OllamaDone
  <2> QED
    BY <1>4, <2>1, <2>2, <2>3, <2>4 DEF Parts
<1> QED
  BY <1>2, <1>3, <1>4

\* The calls that are kept are those of the message, in its order.
LEMMA CallsByIndex ==
  ASSUME KeptOK, ~emulating
  PROVE  ByIndex(slots) = Of(meant.blocks, {"call"})
<1> DEFINE bs == meant.blocks
           ks == {"call"}
<1>1. DOMAIN bs = 1..Here
  BY ItsMessage DEF KeptOK
<1>2. ASSUME NEW i \in 1..Here
      PROVE  (IF i \in DOMAIN slots THEN <<slots[i]>> ELSE <<>>)
             = IF bs[i].kind \in ks THEN <<bs[i].body>> ELSE <<>>
  <2>1. i \in Calls <=> bs[i].kind \in ks
    BY CallsAre
  <2>2. DOMAIN slots = Calls /\ (i \in Calls => slots[i] = bs[i].body)
    BY DEF KeptOK
  <2> HIDE DEF ks, bs
  <2> QED
    BY <2>1, <2>2
<1> HIDE DEF ks, bs
<1>3. [i \in 1..Here |-> IF i \in DOMAIN slots THEN <<slots[i]>> ELSE <<>>]
      = [i \in DOMAIN bs |-> IF bs[i].kind \in ks THEN <<bs[i].body>> ELSE <<>>]
  BY <1>1, <1>2
<1>4. ByIndex(slots) = Of(bs, ks)
  BY <1>3 DEF ByIndex, Of
<1> QED
  BY <1>4 DEF bs, ks

\* Arguments, of calls as they are assembled and as they are in the message.
ArgsOf(cs) == [i \in DOMAIN cs |-> cs[i].args]
Args(bodies) == [i \in DOMAIN bodies |-> Tail(bodies[i])]

\* Calls are assembled with their arguments.
LEMMA AssembledArgs ==
  ASSUME KeptOK, ~emulating
  PROVE  /\ FlattenSeq(<<Assembled>>) = Assembled
         /\ ArgsOf(Assembled) = Args(Of(meant.blocks, {"call"}))
<1> DEFINE kept == ByIndex(slots)
           id(i) == IF adapter \in {"gemini", "ollama"} THEN <<"call", i>> ELSE <<"id", kept[i][1]>>
           n == Len(kept)
           cs == [i \in 1..n |-> [id |-> id(i), args |-> Tail(kept[i])]]
           X == {cs[i] : i \in 1..n}
<1>1. kept = Of(meant.blocks, {"call"}) /\ kept \in Seq(Seq(Nat))
  BY CallsByIndex, BlockTexts, ItsMessage DEF KeptOK
<1>2. Assembled = cs
  BY DEF Assembled
<1> HIDE DEF kept, id
<1>3. n \in Nat /\ DOMAIN kept = 1..n
  BY <1>1
<1> HIDE DEF n
<1>4. DOMAIN cs = 1..n /\ \A i \in 1..n : cs[i].args = Tail(kept[i])
  OBVIOUS
<1> HIDE DEF cs
<1>5. cs \in Seq(X)
  <2>1. cs = [i \in 1..n |-> cs[i]]
    BY DEF cs
  <2>2. \A i \in 1..n : cs[i] \in X
    OBVIOUS
  <2> HIDE DEF X
  <2>3. [i \in 1..n |-> cs[i]] \in Seq(X)
    BY <1>3, <2>2
  <2> QED
    BY <2>1, <2>3
<1> HIDE DEF X
<1>6. FlattenSeq(<<cs>>) = cs
  <2>1. <<>> \in Seq(Seq(X)) /\ Append(<<>>, cs) = <<cs>> /\ <<>> \o cs = cs
    BY <1>5
  <2>2. FlattenSeq(Append(<<>>, cs)) = FlattenSeq(<<>>) \o cs
    BY <1>5, <2>1, FlattenAppend
  <2> QED
    BY <2>1, <2>2, FlattenEmpty
<1>7. ArgsOf(cs) = Args(kept)
  BY <1>3, <1>4 DEF ArgsOf, Args
<1> QED
  BY <1>1, <1>2, <1>6, <1>7

\* What is yielded in the end: the calls if there are any, the reason and the usage if
\* they have been kept.
LEMMA TailTells ==
  ASSUME Reading, UpstreamCloses
  PROVE  /\ \A ks \in {{"text"}, {"refusal"}, Thoughts, {"extra"}} : Of(events', ks) = Of(events, ks)
         /\ Of(events', {"calls"}) = IF slots = EmptyDict \/ emulating THEN <<>> ELSE <<Assembled>>
         /\ Of(events', {"end"}) = Of(events, {"end"}) \o
              (IF latest = [reason |-> "none", usage |-> <<>>] THEN <<>>
               ELSE <<[reason |-> latest.reason, usage |-> latest.usage]>>)
<1> DEFINE c == [kind |-> "calls", body |-> Assembled]
           v == [reason |-> latest.reason, usage |-> latest.usage]
           d == [kind |-> "end", body |-> v]
           some == ~(slots = EmptyDict \/ emulating)
           last == latest # [reason |-> "none", usage |-> <<>>]
           R == Told \cup {c}
           R2 == R \cup {d}
           es == IF some THEN events \o <<c>> ELSE events
           fs == IF last THEN es \o <<d>> ELSE es
<1>1. events \in Seq(Told) /\ Heard
  BY DEF Reading, KeptOK
<1>2. c.kind = "calls" /\ c.body = Assembled /\ d.kind = "end" /\ d.body = v
  OBVIOUS
<1>3. events' = events \o ((IF some THEN <<c>> ELSE <<>>) \o (IF last THEN <<d>> ELSE <<>>))
  BY DEF UpstreamCloses, TailEvents, Ending
<1> HIDE DEF c, d, v, some, last
<1>4. Told \subseteq R /\ c \in R /\ R \subseteq R2 /\ d \in R2
  OBVIOUS
<1> HIDE DEF R, R2
<1>5. events' = fs
  <2>1. events \in Seq(R2) /\ <<c>> \in Seq(R2) /\ <<d>> \in Seq(R2) /\ <<>> \in Seq(R2)
    BY <1>1, <1>4
  <2>2. /\ events \o <<>> = events /\ <<>> \o <<>> = <<>> /\ <<c>> \o <<>> = <<c>> /\ <<>> \o <<d>> = <<d>>
        /\ events \o (<<c>> \o <<d>>) = (events \o <<c>>) \o <<d>>
    BY <2>1, ConcatEmptySeq, ConcatAssociative
  <2> QED
    BY <1>3, <2>2
<1>6. /\ es \in Seq(R)
      /\ \A ks : some => Of(es, ks) = Of(events, ks) \o (IF c.kind \in ks THEN <<c.body>> ELSE <<>>)
  <2>1. /\ events \in Seq(R) /\ events \o <<c>> \in Seq(R)
        /\ \A ks : Of(events \o <<c>>, ks) = Of(events, ks) \o (IF c.kind \in ks THEN <<c.body>> ELSE <<>>)
    <3>1. events \in Seq(R)
      BY <1>1, <1>4
    <3>2. events \o <<c>> = Append(events, c)
      BY <1>4, <3>1, AppendIsConcat
    <3>3. Append(events, c) \in Seq(R)
      BY <1>4, <3>1
    <3>4. \A ks : Of(Append(events, c), ks) = Of(events, ks) \o (IF c.kind \in ks THEN <<c.body>> ELSE <<>>)
      BY <1>4, <3>1, OfMore
    <3> QED
      BY <3>1, <3>2, <3>3, <3>4
  <2> QED
    BY <2>1
<1>7. ~some => es = events
  OBVIOUS
<1> HIDE DEF es
<1>8. /\ \A ks : last => Of(fs, ks) = Of(es, ks) \o (IF d.kind \in ks THEN <<d.body>> ELSE <<>>)
      /\ ~last => fs = es
  <2>1. \A ks : Of(es \o <<d>>, ks) = Of(es, ks) \o (IF d.kind \in ks THEN <<d.body>> ELSE <<>>)
    <3>1. es \in Seq(R2)
      BY <1>4, <1>6
    <3>2. es \o <<d>> = Append(es, d)
      BY <1>4, <3>1, AppendIsConcat
    <3>3. \A ks : Of(Append(es, d), ks) = Of(es, ks) \o (IF d.kind \in ks THEN <<d.body>> ELSE <<>>)
      BY <1>4, <3>1, OfMore
    <3> QED
      BY <3>2, <3>3
  <2> QED
    BY <2>1
<1> HIDE DEF fs
<1>9. ASSUME NEW ks, c.kind \notin ks, NEW B, Of(events, ks) \in Seq(B) PROVE Of(es, ks) = Of(events, ks)
  <2>1. Of(events, ks) \o <<>> = Of(events, ks)
    BY <1>9, ConcatEmptySeq
  <2> QED
    BY <1>6, <1>7, <1>9, <2>1
<1>10. ASSUME NEW ks, d.kind \notin ks, NEW B, Of(es, ks) \in Seq(B) PROVE Of(fs, ks) = Of(es, ks)
  <2>1. Of(es, ks) \o <<>> = Of(es, ks)
    BY <1>10, ConcatEmptySeq
  <2> QED
    BY <1>8, <1>10, <2>1
<1>11. ASSUME NEW ks \in {{"text"}, {"refusal"}, Thoughts, {"extra"}} PROVE Of(fs, ks) = Of(events, ks)
  <2>1. "end" \notin ks /\ "calls" \notin ks
    BY DEF Thoughts
  <2>2. \A y \in Told : y.kind \in ks => y.body \in Seq(Nat)
    BY <2>1, ItsEvent
  <2>3. Of(events, ks) \in Seq(Seq(Nat))
    BY <1>1, <2>2, OfType
  <2> QED
    BY <1>2, <1>9, <1>10, <2>1, <2>3
<1>12. Of(fs, {"calls"}) = IF some THEN <<Assembled>> ELSE <<>>
  <2> DEFINE ks == {"calls"}
  <2>1. Of(events, ks) = <<>> /\ c.kind \in ks /\ d.kind \notin ks
    BY <1>1, <1>2 DEF Heard
  <2> HIDE DEF ks
  <2>2. <<>> \o <<Assembled>> = <<Assembled>> /\ <<Assembled>> \in Seq({Assembled})
        /\ <<>> \in Seq({Assembled})
    OBVIOUS
  <2>3. Of(es, ks) = IF some THEN <<Assembled>> ELSE <<>>
    BY <1>2, <1>6, <1>7, <2>1, <2>2
  <2>4. Of(es, ks) \in Seq({Assembled})
    BY <2>2, <2>3
  <2>5. Of(fs, ks) = Of(es, ks)
    BY <1>10, <2>1, <2>4
  <2> QED
    BY <2>3, <2>5 DEF ks
<1>13. Of(fs, {"end"}) = Of(events, {"end"}) \o (IF last THEN <<v>> ELSE <<>>)
  <2> DEFINE ks == {"end"}
  <2>1. c.kind \notin ks /\ d.kind \in ks /\ \A y \in Told : y.kind \in ks => y.body \in End
    BY <1>2, ItsEvent
  <2> HIDE DEF ks
  <2>2. Of(events, ks) \in Seq(End)
    BY <1>1, <2>1, OfType
  <2>3. Of(es, ks) = Of(events, ks)
    BY <1>9, <2>1, <2>2
  <2>4. Of(events, ks) \o <<>> = Of(events, ks)
    BY <2>2, ConcatEmptySeq
  <2> QED
    BY <1>2, <1>8, <2>1, <2>3, <2>4 DEF ks
<1> QED
  BY <1>5, <1>11, <1>12, <1>13 DEF some, last, v

\* The events of a stream that is closed add up to the answer.
LEMMA ClosedSaid == ASSUME Reading, UpstreamCloses PROVE StreamSaysWhatChatSays'
<1> SUFFICES ASSUME open' = "none" PROVE Sum' = Chat'
  BY DEF StreamSaysWhatChatSays
<1>1. UNCHANGED <<adapter, emulating, items, open, meant, slots, extras, latest>>
  BY DEF UpstreamCloses
<1>2. KeptOK /\ Heard /\ Ended /\ emulating \in BOOLEAN /\ meant.blocks \in Seq(Block)
  BY WhileReading, ItsMessage
<1>3. /\ Of(events', {"text"}) = Of(events, {"text"})
      /\ Of(events', {"refusal"}) = Of(events, {"refusal"})
      /\ Of(events', Thoughts) = Of(events, Thoughts)
      /\ Of(events', {"extra"}) = Of(events, {"extra"})
      /\ Of(events', {"calls"}) = IF slots = EmptyDict \/ emulating THEN <<>> ELSE <<Assembled>>
      /\ Of(events', {"end"}) = Of(events, {"end"}) \o
           (IF latest = [reason |-> "none", usage |-> <<>>] THEN <<>>
            ELSE <<[reason |-> latest.reason, usage |-> latest.usage]>>)
  BY TailTells
<1>4. Sum' = [text     |-> Joined(events', {"text"}),
              refusal  |-> Joined(events', {"refusal"}),
              thinking |-> Joined(events', Thoughts),
              extra    |-> Of(events', {"extra"}),
              calls    |-> ArgsOf(Joined(events', {"calls"})),
              reason   |-> LastReason(Of(events', {"end"})),
              usage    |-> LastUsage(Of(events', {"end"}))]
  BY DEF Sum, Thoughts, ArgsOf, LastReason, LastUsage
<1>5. Chat' = [text     |-> Answer(emulating', meant'.blocks),
               refusal  |-> Joined(meant'.blocks, {"refusal"}),
               thinking |-> Joined(meant'.blocks, {"thinking"}),
               extra    |-> Of(meant'.blocks, {"extra"}),
               calls    |-> IF emulating' THEN <<>> ELSE Args(Of(meant'.blocks, {"call"})),
               reason   |-> Reason',
               usage    |-> meant'.usage]
  BY DEF Chat, Answer, Args, Reason
<1>6. Reason' = Reason
  BY <1>1, ReasonIsKept
<1>7. /\ Joined(events', {"text"}) = Answer(emulating, meant.blocks)
      /\ Joined(events', {"refusal"}) = Joined(meant.blocks, {"refusal"})
      /\ Joined(events', Thoughts) = Joined(meant.blocks, {"thinking"})
  BY <1>2, <1>3 DEF Heard, Joined
<1>8. Of(events', {"extra"}) = Of(meant.blocks, {"extra"})
  <2>1. open = "none"
    BY <1>1
  <2> QED
    BY <1>2, <1>3, <2>1 DEF Heard, Complete
<1>9. ArgsOf(Joined(events', {"calls"})) = IF emulating THEN <<>> ELSE Args(Of(meant.blocks, {"call"}))
  <2>1. ArgsOf(<<>>) = <<>> /\ Args(<<>>) = <<>>
    BY DEF ArgsOf, Args
  <2>2. CASE emulating
    BY <1>3, <2>1, <2>2, FlattenEmpty DEF Joined
  <2>3. CASE ~emulating /\ slots = EmptyDict
    <3>1. Calls = {}
      BY <1>2, <2>3 DEF KeptOK, EmptyDict
    <3>2. Of(meant.blocks, {"call"}) = <<>>
      <4> DEFINE ks == {"call"}
      <4>1. \A i \in 1..Len(meant.blocks) : meant.blocks[i].kind \notin ks
        BY <3>1 DEF Calls, Here
      <4> HIDE DEF ks
      <4>2. Of(meant.blocks, ks) = <<>>
        BY <1>2, <4>1, OfNone
      <4> QED
        BY <4>2 DEF ks
    <3> QED
      BY <1>3, <2>1, <2>3, <3>2, FlattenEmpty DEF Joined
  <2>4. CASE ~emulating /\ slots # EmptyDict
    <3>1. Joined(events', {"calls"}) = Assembled
      BY <1>2, <1>3, <2>4, AssembledArgs DEF Joined
    <3> QED
      BY <1>2, <2>4, <3>1, AssembledArgs
  <2> QED
    BY <2>2, <2>3, <2>4
<1>10. LastReason(Of(events', {"end"})) = Reason /\ LastUsage(Of(events', {"end"})) = meant.usage
  <2> DEFINE v == [reason |-> latest.reason, usage |-> latest.usage]
             none == [reason |-> "none", usage |-> <<>>]
  <2>1. latest = v /\ v \in End /\ none.reason = "none" /\ none.usage = <<>>
    BY <1>2 DEF Ended, KeptOK
  <2>2. v.reason = latest.reason /\ v.usage = latest.usage
    OBVIOUS
  <2>3. latest.reason = "none" /\ latest.usage = <<>> => v = none
    OBVIOUS
  <2>4. Of(events', {"end"}) = Of(events, {"end"}) \o (IF latest = none THEN <<>> ELSE <<v>>)
    BY <1>3
  <2> HIDE DEF v, none
  <2>5. CASE adapter \in Keepers
    <3>1. Of(events, {"end"}) = <<>> /\ latest.reason = Reason /\ latest.usage = meant.usage
      BY <1>2, <2>5 DEF Ended
    <3>2. CASE latest = none
      <4>1. <<>> \o <<>> = <<>>
        OBVIOUS
      <4>2. Of(events', {"end"}) = <<>>
        BY <2>4, <3>1, <3>2, <4>1
      <4> QED
        BY <2>1, <3>1, <3>2, <4>2, LastEnd
    <3>3. CASE latest # none
      <4>1. <<>> \o <<v>> = Append(<<>>, v) /\ <<>> \in Seq(End)
        OBVIOUS
      <4>2. Of(events', {"end"}) = Append(<<>>, v)
        BY <2>4, <3>1, <3>3, <4>1
      <4> QED
        BY <2>1, <2>2, <3>1, <4>1, <4>2, LastEnd
    <3> QED
      BY <3>2, <3>3
  <2>6. CASE adapter \notin Keepers
    <3>1. /\ latest.reason = "none" /\ latest.usage = <<>>
          /\ LastReason(Of(events, {"end"})) = Reason /\ LastUsage(Of(events, {"end"})) = meant.usage
      BY <1>2, <2>6 DEF Ended
    <3>2. latest = none
      BY <2>1, <2>3, <3>1
    <3>3. Of(events, {"end"}) \o <<>> = Of(events, {"end"})
      <4> DEFINE ks == {"end"}
      <4>1. events \in Seq(Told) /\ \A y \in Told : y.kind \in ks => y.body \in End
        BY <1>2, ItsEvent DEF KeptOK
      <4> HIDE DEF ks
      <4>2. Of(events, ks) \in Seq(End)
        BY <4>1, OfType
      <4>3. Of(events, ks) \o <<>> = Of(events, ks)
        BY <4>2, ConcatEmptySeq
      <4> QED
        BY <4>3 DEF ks
    <3> QED
      BY <2>4, <3>1, <3>2, <3>3
  <2> QED
    BY <2>5, <2>6
<1> QED
  BY <1>1, <1>4, <1>5, <1>6, <1>7, <1>8, <1>9, <1>10

\* Every step says what the message says.
LEMMA SaidInvariant == AdapterSpec => []SaidInv
<1>1. AdapterInit => SaidInv
  <2> SUFFICES ASSUME AdapterInit PROVE SaidInv
    OBVIOUS
  <2>1. /\ adapter \in Adapters /\ emulating \in IF adapter = "anthropic" THEN BOOLEAN ELSE {FALSE}
        /\ items = 0 /\ open = "none" /\ meant = [blocks |-> <<>>, reason |-> "none", usage |-> <<>>]
        /\ slots = EmptyDict /\ latest = [reason |-> "none", usage |-> <<>>] /\ events = <<>>
        /\ phase = "reading"
    BY DEF AdapterInit
  <2>2. meant.blocks = <<>> /\ meant.reason = "none" /\ meant.usage = <<>> /\ meant \in Message
        /\ latest.reason = "none" /\ latest.usage = <<>> /\ latest \in End
    BY <2>1 DEF Message, End, Raws, Reasons, Usages
  <2>3. Here = 0 /\ Calls = {}
    BY <2>2 DEF Here, Calls
  <2>4. KeptOK
    <3>1. DOMAIN slots = {} /\ events \in Seq(Told) /\ open \in Opens
      BY <2>1 DEF EmptyDict, Opens
    <3>2. emulating \in BOOLEAN /\ (emulating => adapter = "anthropic")
      BY <2>1
    <3> QED
      BY <2>1, <2>2, <2>3, <3>1, <3>2 DEF KeptOK
  <2>5. \A ks : Of(<<>>, ks) = <<>> /\ Joined(<<>>, ks) = <<>>
    BY OfNothing, FlattenEmpty DEF Joined
  <2>6. Heard
    BY <2>1, <2>2, <2>5, NothingSaid DEF Heard, Complete
  <2>7. Reason = "none"
    BY <2>2 DEF Reason, AnthropicReason, OpenAIReason, PartReason
  <2>8. latest = [reason |-> latest.reason, usage |-> latest.usage]
    BY <2>1
  <2>9. Ended
    BY <2>1, <2>2, <2>5, <2>7, <2>8, LastEnd DEF Ended
  <2> QED
    BY <2>1, <2>4, <2>6, <2>9 DEF SaidInv, StreamSaysWhatChatSays
<1>2. SaidInv /\ [AdapterNext]_adapterVars => SaidInv'
  <2> SUFFICES ASSUME SaidInv, [AdapterNext]_adapterVars PROVE SaidInv'
    OBVIOUS
  <2>1. CASE Anthropic \/ OpenAI \/ Parts
    <3>1. phase = "reading" /\ phase' = "reading"
      BY <2>1, ReadsOn
    <3>2. Reading
      BY <3>1 DEF SaidInv, Reading
    <3>3. Reading'
      BY <2>1, <3>2, AnthropicSaid, OpenAISaid, PartsSaid
    <3> QED
      BY <3>1, <3>3 DEF SaidInv, Reading, StreamSaysWhatChatSays
  <2>2. CASE UpstreamCloses
    <3>1. phase = "reading" /\ phase' = "over"
      BY <2>2 DEF UpstreamCloses
    <3>2. Reading
      BY <3>1 DEF SaidInv, Reading
    <3>3. StreamSaysWhatChatSays'
      BY <2>2, <3>2, ClosedSaid
    <3> QED
      BY <3>1, <3>3 DEF SaidInv
  <2>3. CASE UpstreamBreaks
    <3>1. phase' = "failed"
      BY <2>3 DEF UpstreamBreaks
    <3> QED
      BY <3>1 DEF SaidInv, StreamSaysWhatChatSays
  <2>4. CASE UNCHANGED adapterVars
    <3>1. UNCHANGED <<adapter, emulating, items, open, meant, slots, extras, latest, events, phase>>
      BY <2>4 DEF adapterVars
    <3>2. StreamSaysWhatChatSays'
      BY <3>1 DEF SaidInv, StreamSaysWhatChatSays, Sum, Chat, Calls, Here, AnthropicReason, OpenAIReason,
         PartReason
    <3>3. phase' = "reading" => KeptOK' /\ Heard' /\ Ended'
      BY <3>1 DEF SaidInv, KeptOK, Heard, Ended, Reason, AnthropicReason, OpenAIReason, PartReason,
         Calls, Here, Unended
    <3> QED
      BY <3>2, <3>3 DEF SaidInv
  <2> QED
    BY <2>1, <2>2, <2>3, <2>4 DEF AdapterNext
<1> QED
  BY <1>1, <1>2, PTL DEF AdapterSpec

\* A stream that is over has said what the unstreamed answer would have, whatever the
\* upstream and in whichever order it sent its blocks, chunks or parts (stream_events, chat).
THEOREM StreamSaysTheAnswer == AdapterSpec => []StreamSaysWhatChatSays
<1>1. SaidInv => StreamSaysWhatChatSays
  BY DEF SaidInv
<1> QED
  BY <1>1, SaidInvariant, PTL
=============================================================================
