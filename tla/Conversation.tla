----------------------------- MODULE Conversation -----------------------------
(***************************************************************************)
(* A conversation of several turns, held in one dialect and continued with *)
(* any provider: the answer of one upstream is translated for the client,  *)
(* comes back in the client's next request, and is translated again for    *)
(* another upstream (openai_compat.py, anthropic_compat.py and the message *)
(* translators of providers/*.py).                                         *)
(*                                                                         *)
(* An item, <<turn, position>>, stands for a text or for what a call or a  *)
(* result carries.  Native is /v1/chat, whose history holds ChatMessages.  *)
(***************************************************************************)
EXTENDS Naturals, Sequences, SequencesExt, FiniteSets

CONSTANTS
  Functions,    \* the functions the client offers
  MaxTurns,     \* bound: the turns of the conversation
  MaxBlocks,    \* bound: the blocks of an answer, and the texts of a question
  MaxSaid       \* bound: the blocks of all turns

ASSUME ConversationAssumption == {MaxTurns, MaxBlocks, MaxSaid} \subseteq Nat

VARIABLES
  spoken,       \* the surface the client speaks to
  turns         \* what was said: [role, by, blocks]

conversationVars == <<spoken, turns>>

Dialects == {"anthropic", "openai", "native"}
Upstreams == {"anthropic", "openai", "gemini", "ollama"}

\* Ids made upstream are unique; those the adapters make are not.
NoId == [name |-> "none", turn |-> 0, n |-> 0]
UpstreamId(item) == [name |-> "upstream", turn |-> item[1], n |-> item[2]]
AdapterId(f, i) == [name |-> f, turn |-> 0, n |-> i]

\* A content block, or the field of a message that stands for one.
Block(k, items) ==
  [kind |-> k, said |-> items, id |-> NoId, name |-> "none", answers |-> <<>>, mark |-> FALSE]

\* The elements of s that op makes of its elements, in order.
Each(s, op(_)) == FlattenSeq([i \in 1..Len(s) |-> op(s[i])])
Optional(c, b) == IF c THEN <<b>> ELSE <<>>
OfKind(bs, ks) == Each(bs, LAMBDA b : Optional(b.kind \in ks, b))
Said(bs) == Each(bs, LAMBDA b : b.said)

\* ChatMessage
Message(r, text) ==
  [role |-> r, text |-> text, calls |-> <<>>, thinking |-> <<>>, extra |-> <<>>,
   ordered |-> <<>>, result |-> Block("result", <<>>), mark |-> FALSE]

-----------------------------------------------------------------------------
(* An answer, from the upstream to the client *)

CallsIn(bs) == OfKind(bs, {"call"})
Answered(bs) == Message("assistant", Said(OfKind(bs, {"text"})))

\* chat() of the providers.
AnthropicResult(bs) ==
  [Answered(bs) EXCEPT !.calls = CallsIn(bs), !.thinking = OfKind(bs, {"thinking"}),
                       !.extra = OfKind(bs, {"extra"}), !.ordered = bs]

OpenAIResult(bs) == [Answered(bs) EXCEPT !.calls = CallsIn(bs)]

\* Gemini's calls have no id: they get one from their name and their place among the parts.
GeminiCalls(bs) ==
  FlattenSeq([i \in 1..Len(bs) |->
    Optional(bs[i].kind = "call", [bs[i] EXCEPT !.id = AdapterId(bs[i].name, i - 1)])])

GeminiResult(bs) == [Answered(bs) EXCEPT !.calls = GeminiCalls(bs)]

\* Variant: the number is all there is in an id.
OllamaCallsNumbered(bs) ==
  [i \in 1..Len(CallsIn(bs)) |-> [CallsIn(bs)[i] EXCEPT !.id = AdapterId("call", i - 1)]]

\* Nor have Ollama's, which get one from their name and number.
OllamaCalls(bs) ==
  [i \in 1..Len(CallsIn(bs)) |-> [CallsIn(bs)[i] EXCEPT !.id = AdapterId(CallsIn(bs)[i].name, i - 1)]]

OllamaResult(bs) ==
  [Answered(bs) EXCEPT !.calls = OllamaCalls(bs), !.thinking = OfKind(bs, {"thinking"})]

Result(p, bs) ==
  CASE p = "anthropic" -> AnthropicResult(bs)
    [] p = "openai" -> OpenAIResult(bs)
    [] p = "gemini" -> GeminiResult(bs)
    [] p = "ollama" -> OllamaResult(bs)

\* The fields of an assistant message as content blocks, in the order Anthropic has them.
FieldBlocks(m) ==
  m.thinking \o m.extra \o Optional(m.text # <<>>, Block("text", m.text)) \o m.calls

\* The content of an Anthropic message; one that is empty gets an empty text.
ToMessage(m) ==
  IF m.ordered # <<>> THEN m.ordered
  ELSE IF FieldBlocks(m) # <<>> THEN FieldBlocks(m)
  ELSE <<Block("text", <<>>)>>

\* A chat completion has a content and calls, and no place for the rest.
ToChatCompletion(m) == [Message("assistant", m.text) EXCEPT !.calls = m.calls]

\* The blocks the client holds of a turn, in its dialect.
Held(t) ==
  IF t.role = "user" THEN t.blocks
  ELSE LET m == Result(t.by, t.blocks)
       IN  IF spoken = "openai" THEN FieldBlocks(ToChatCompletion(m))
           ELSE ToMessage(m)

-----------------------------------------------------------------------------
(* The next request, from the client to the pipeline *)

ToolMessage(b) == [Message("tool", <<>>) EXCEPT !.result = b, !.mark = b.mark]

\* Blocks whose order and marks must survive are kept beside the fields: an answer's,
\* and a question's that is only text, of which some is marked.
Ordered(r, bs) ==
  \/ r = "assistant"
  \/ OfKind(bs, {"text"}) = bs /\ \E i \in DOMAIN bs : bs[i].mark

\* The tool results of a turn are messages of their own, and come first.
FlattenContent(r, bs) ==
  LET text == Said(OfKind(bs, {"text"}))
      ordered == IF Ordered(r, bs) THEN bs ELSE <<>>
      message == [Message(r, text) EXCEPT
                    !.calls = OfKind(bs, {"call"}),
                    !.thinking = OfKind(bs, {"thinking"}),
                    !.extra = OfKind(bs, {"extra"}),
                    !.ordered = ordered]
      results == OfKind(bs, {"result"})
  IN  Each(results, LAMBDA b : <<ToolMessage(b)>>)
        \o Optional(results = <<>> \/ text # <<>> \/ ordered # <<>>, message)

\* A question outside /v1/messages: messages whose content is one string.
Plain(bs) ==
  LET texts == OfKind(bs, {"text"})
      message == [Message("user", Said(texts)) EXCEPT
                    !.mark = \E i \in DOMAIN texts : texts[i].mark]
  IN  Each(OfKind(bs, {"result"}), LAMBDA b : <<ToolMessage(b)>>)
        \o Optional(texts # <<>>, message)

\* The messages of the request whose history is ts.
ToChatRequest(ts) ==
  Each(ts, LAMBDA t :
    CASE spoken = "anthropic" -> FlattenContent(t.role, Held(t))
      [] spoken # "anthropic" /\ t.role = "user" -> Plain(t.blocks)
      [] spoken = "openai" /\ t.role # "user" -> <<ToChatCompletion(Result(t.by, t.blocks))>>
      [] OTHER -> <<Result(t.by, t.blocks)>>)

-----------------------------------------------------------------------------
(* The messages of a request, from the pipeline to an upstream *)

MarkLast(bs, c) == IF c THEN [bs EXCEPT ![Len(bs)].mark = TRUE] ELSE bs

AnthropicMessage(m) ==
  LET blocks ==
        IF m.role = "tool" THEN <<[m.result EXCEPT !.mark = FALSE]>>
        ELSE IF m.ordered # <<>> THEN m.ordered
        ELSE IF m.role = "assistant" /\ m.calls \o m.thinking \o m.extra # <<>> THEN FieldBlocks(m)
        ELSE <<Block("text", m.text)>>
  IN  [role |-> IF m.role = "tool" THEN "user" ELSE m.role, blocks |-> MarkLast(blocks, m.mark)]

OpenAIMessage(m) ==
  [role |-> m.role,
   blocks |-> IF m.role = "tool" THEN <<m.result>>
              ELSE Optional(m.text # <<>>, Block("text", m.text)) \o m.calls]

\* Gemini has no ids, and a function response bears the message's name, which is none.
GeminiContent(m) ==
  [role |-> IF m.role = "assistant" THEN "model" ELSE "user",
   blocks |-> IF m.role = "tool" THEN <<[m.result EXCEPT !.id = NoId]>>
              ELSE IF m.calls # <<>>
              THEN Optional(m.text # <<>>, Block("text", m.text))
                     \o Each(m.calls, LAMBDA c : <<[c EXCEPT !.id = NoId]>>)
              ELSE <<Block("text", m.text)>>]

\* Ollama matches a result with its call by the function's name, which the id stands
\* for: the latest call of that id in the conversation.
ToolName(ms, id) ==
  LET calls == Each(ms, LAMBDA m : m.calls)
      named == {i \in DOMAIN calls : calls[i].id = id}
  IN  IF named = {} THEN "unknown" ELSE calls[CHOOSE i \in named : \A j \in named : j <= i].name

OllamaMessage(ms, m) ==
  [role |-> m.role,
   blocks |-> IF m.role = "tool"
              THEN <<[m.result EXCEPT !.name = ToolName(ms, m.result.id)]>>
              ELSE m.thinking \o Optional(m.text # <<>>, Block("text", m.text)) \o m.calls]

\* The messages of the payload that upstream p gets for the history ts.
Payload(p, ts) ==
  LET ms == ToChatRequest(ts)
  IN  [i \in DOMAIN ms |->
         CASE p = "anthropic" -> AnthropicMessage(ms[i])
           [] p = "openai" -> OpenAIMessage(ms[i])
           [] p = "gemini" -> GeminiContent(ms[i])
           [] p = "ollama" -> OllamaMessage(ms, ms[i])]

-----------------------------------------------------------------------------
(* The conversation *)

ConversationInit == spoken \in Dialects /\ turns = <<>>

Turn == Len(turns) + 1
Asking == Len(turns) % 2 = 0
Room(n) == Turn <= MaxTurns /\ Len(Each(turns, LAMBDA t : t.blocks)) + n <= MaxSaid

\* The answers of an upstream, as it sends them: the blocks of Anthropic and Gemini come
\* in any order, the others have a field for the thinking, the text and the calls.
Answers ==
  LET Piece(k) == [kind : {k}, name : IF k = "call" THEN Functions ELSE {"none"}]
      Pieces(p) ==
        UNION {Piece(k) : k \in CASE p = "anthropic" -> {"thinking", "extra", "text", "call"}
                                  [] p = "openai" -> {"text", "call"}
                                  [] OTHER -> {"thinking", "text", "call"}}
      InFields(s) ==
        \A i, j \in DOMAIN s : i < j =>
          s[j].kind # "thinking" /\ (s[j].kind = "text" => s[i].kind = "thinking")
  IN  [p \in Upstreams |->
         {s \in UNION {[1..n -> Pieces(p)] : n \in 0..MaxBlocks} :
            p \in {"openai", "ollama"} => InFields(s)}]

Answer(p) ==
  /\ ~Asking
  /\ \E s \in Answers[p] :
       /\ Room(Len(s))
       /\ turns' = Append(turns,
         [role |-> "assistant", by |-> p,
          blocks |-> [i \in DOMAIN s |->
            [Block(s[i].kind, <<<<Turn, i>>>>) EXCEPT
               !.name = s[i].name,
               !.id = IF s[i].kind = "call" THEN UpstreamId(<<Turn, i>>) ELSE NoId]]])
  /\ UNCHANGED spoken

\* A question: the results of the calls of the last answer, then the texts; some bear a cache
\* breakpoint.  (A block of another kind is a 400, and there is no next turn.)
Ask ==
  LET calls == IF turns = <<>> THEN <<>> ELSE OfKind(Held(Last(turns)), {"call"})
      Part(i) ==
        IF i > Len(calls) THEN Block("text", <<<<Turn, i>>>>)
        ELSE [Block("result", <<<<Turn, i>>>>) EXCEPT
                !.id = calls[i].id, !.answers = calls[i].said]
      \* The blocks that may be marked: of n, a string has one mark in all.
      Markable(n) ==
        CASE spoken = "anthropic" -> 1..n
          [] spoken = "native" -> 1..(IF n > Len(calls) THEN Len(calls) + 1 ELSE n)
          [] spoken = "openai" -> {}
  IN  /\ Asking
      /\ \E n \in Len(calls)..(Len(calls) + MaxBlocks) :
           /\ n > 0 /\ Room(n)
           /\ \E marked \in SUBSET Markable(n) :
                turns' = Append(turns,
                  [role |-> "user", by |-> "client",
                   blocks |-> [i \in 1..n |-> [Part(i) EXCEPT !.mark = i \in marked]]])
      /\ UNCHANGED spoken

ConversationNext == Ask \/ \E p \in Upstreams : Answer(p)

ConversationSpec == ConversationInit /\ [][ConversationNext]_conversationVars

-----------------------------------------------------------------------------
(* Properties *)

Carried(p) ==
  CASE p = "anthropic" -> {"thinking", "extra", "text", "call", "result"}
    [] p = "ollama" -> {"thinking", "text", "call", "result"}
    [] OTHER -> {"text", "call", "result"}

History == Each(turns, Held)
Blocks(payload) == Each(payload, LAMBDA m : m.blocks)

\* Nothing is lost, told twice or told out of turn.
ToldInOrder(p, sent, held) ==
  LET items == Said(sent)
  IN  /\ \A k \in Carried(p) : Said(OfKind(sent, {k})) = Said(OfKind(held, {k}))
      /\ \A i \in 1..(Len(items) - 1) : items[i][1] <= items[i + 1][1]
      /\ p = "anthropic" => items = Said(held)

\* The results of an answer's calls are the next thing told after it, each under the
\* id of its call, and no two of the calls have one id.
CallsAnswered(payload) ==
  LET IdsIn(i, k) == {b.id : b \in {c \in ToSet(payload[i].blocks) : c.kind = k}}
  IN  \A i \in DOMAIN payload :
        LET calls == OfKind(payload[i].blocks, {"call"})
        IN  calls # <<>> =>
              /\ Cardinality(IdsIn(i, "call")) = Len(calls)
              /\ \A n \in 1..Len(calls) :
                   i + n \in DOMAIN payload /\ IdsIn(i + n, "result") = {calls[n].id}

\* A cache breakpoint stays where the client set it, except that a text beside tool
\* results has no place of its own.
MarksStay(sent) ==
  LET MarkedIn(bs) == {Last(b.said) : b \in {c \in ToSet(bs) : c.mark}}
      Results(t) == OfKind(t.blocks, {"result"})
  IN  spoken = "anthropic" =>
        MarkedIn(sent) =
          MarkedIn(Each(turns, LAMBDA t : IF Results(t) = <<>> THEN t.blocks ELSE Results(t)))

\* Ids that an adapter makes repeat from turn to turn, and Ollama has the function's
\* name instead: a result still goes out under the name of the function it is of.
ResultsNameTheirFunction(sent, held) ==
  \A b \in ToSet(OfKind(sent, {"result"})) : \A c \in ToSet(OfKind(held, {"call"})) :
    c.said = b.answers => b.name = c.name

\* Whoever answered before and whoever is asked next, the payload tells the
\* conversation the client holds: every text, call and result the upstream can carry
\* once and in its turn, the results right after their calls and under their ids (for
\* Ollama, under the function's name), and the cache breakpoints where they were set.
TellsTheConversation ==
  turns # <<>> /\ ~Asking =>
    LET held == History
        anthropic == Payload("anthropic", turns)
        openai == Payload("openai", turns)
        ollama == Blocks(Payload("ollama", turns))
    IN  /\ ToldInOrder("anthropic", Blocks(anthropic), held)
        /\ ToldInOrder("openai", Blocks(openai), held)
        /\ ToldInOrder("gemini", Blocks(Payload("gemini", turns)), held)
        /\ ToldInOrder("ollama", ollama, held)
        /\ CallsAnswered(anthropic) /\ CallsAnswered(openai)
        /\ ResultsNameTheirFunction(ollama, held)
        /\ MarksStay(Blocks(anthropic))
=============================================================================
