----------------------------- MODULE StreamAdapters -----------------------------
(***************************************************************************)
(* The streaming half of the provider adapters (stream_events of           *)
(* providers/*.py): each reads another protocol and yields StreamEvents,   *)
(* keeping tool calls, extra blocks, the finish reason and the usage until *)
(* they are complete.                                                      *)
(*                                                                         *)
(* An item is what one line of the upstream stream carries; its number     *)
(* stands for the text in it.  The variable meant is the message upstream  *)
(* is sending, as its unstreamed API would answer with it.                 *)
(***************************************************************************)
EXTENDS Naturals, Sequences, SequencesExt, Dict

CONSTANTS
  MaxItems,     \* bound: the items upstream sends
  MaxCalls      \* bound: the tool calls in a message

ASSUME AdapterAssumption == MaxItems \in Nat /\ MaxCalls \in Nat

VARIABLES
  adapter,      \* whose stream it is
  emulating,    \* emulating_json: Anthropic is made to call the json_response tool
  items,        \* items received
  open,         \* the content block Anthropic has open
  meant,        \* the message so far (history)
  slots,        \* tool_blocks, tool_calls_acc, tool_calls: the calls, by index
  extras,       \* extra_blocks, by index
  latest,       \* finish_reason and usage, kept for the end
  events,       \* the events yielded
  phase         \* reading, over, or failed

adapterVars ==
  <<adapter, emulating, items, open, meant, slots, extras, latest, events, phase>>

Adapters == {"anthropic", "openai", "gemini", "ollama", "echo"}

AdapterInit ==
  /\ adapter \in Adapters
  /\ emulating \in IF adapter = "anthropic" THEN BOOLEAN ELSE {FALSE}
  /\ items = 0
  /\ open = "none"
  /\ meant = [blocks |-> <<>>, reason |-> "none", usage |-> <<>>]
  /\ slots = EmptyDict /\ extras = EmptyDict
  /\ latest = [reason |-> "none", usage |-> <<>>]
  /\ events = <<>>
  /\ phase = "reading"

Item == items + 1
Says(k) == <<[kind |-> k, body |-> <<Item>>]>>
Ending(r, u) == <<[kind |-> "end", body |-> [reason |-> r, usage |-> u]]>>

\* The next item comes, from a, and is answered with the events es.
Comes(a, es) ==
  /\ adapter = a /\ phase = "reading" /\ items < MaxItems
  /\ items' = Item
  /\ events' = events \o es
  /\ UNCHANGED <<adapter, emulating, phase>>

NewBlock(k, ps) == meant' = [meant EXCEPT !.blocks = Append(@, [kind |-> k, body |-> ps])]
Extend(i) == meant' = [meant EXCEPT !.blocks[i].body = Append(@, Item)]
Here == Len(meant.blocks)
Calls == {i \in 1..Here : meant.blocks[i].kind = "call"}
Unended == meant.reason = "none"

-----------------------------------------------------------------------------
(* Anthropic: blocks that start, grow and stop, one at a time *)

\* The input tokens are known at the start.
MessageStart ==
  /\ items = 0
  /\ \E extra \in BOOLEAN : Comes("anthropic", IF extra THEN Says("fields") ELSE <<>>)
  /\ meant' = [meant EXCEPT !.usage = <<Item, Item>>]
  /\ latest' = [reason |-> latest.reason, usage |-> <<Item, Item>>]
  /\ UNCHANGED <<open, slots, extras>>

\* The forced tool is all there is in a message when JSON is emulated; or else text.
BlockStart(k) ==
  /\ items > 0 /\ open = "none" /\ Unended
  /\ emulating => meant.blocks = <<>> /\ k \in {"text", "call"}
  /\ k = "call" => Cardinality(Calls) < MaxCalls
  /\ Comes("anthropic", CASE k = "redacted" -> Says("thinking_block")
                          [] k = "extra" -> Says("extra_start")
                          [] OTHER -> <<>>)
  /\ open' = IF k = "redacted" THEN "none" ELSE k
  /\ NewBlock(IF k = "redacted" THEN "thinking" ELSE k,
              IF k \in {"text", "thinking"} THEN <<>> ELSE <<Item>>)
  /\ slots' = IF k = "call" THEN With(slots, Here + 1, <<Item>>) ELSE slots
  /\ extras' = IF k = "extra" THEN With(extras, Here + 1, <<Item>>) ELSE extras
  /\ UNCHANGED latest

\* Fragments of the forced tool's input are the answer; those of another's are kept.
BlockDelta ==
  /\ open \in {"text", "thinking", "call", "extra"}
  /\ Comes("anthropic", CASE open = "text" \/ (open = "call" /\ emulating) -> Says("text")
                          [] open = "thinking" -> Says("thinking")
                          [] open = "extra" -> Says("extra_delta")
                          [] OTHER -> <<>>)
  /\ Extend(Here)
  /\ slots' = IF open = "call" /\ ~emulating THEN [slots EXCEPT ![Here] = Append(@, Item)] ELSE slots
  /\ extras' = IF open = "extra" THEN [extras EXCEPT ![Here] = Append(@, Item)] ELSE extras
  /\ UNCHANGED <<open, latest>>

\* Variant: the signature is passed on as a thinking block.
SignatureAsBlock ==
  /\ open = "thinking"
  /\ Comes("anthropic", Says("thinking_block"))
  /\ Extend(Here)
  /\ open' = "signed"
  /\ UNCHANGED <<slots, extras, latest>>

\* The signature is the last delta of a thinking block.
Signature ==
  /\ open = "thinking"
  /\ Comes("anthropic", Says("signature"))
  /\ Extend(Here)
  /\ open' = "signed"
  /\ UNCHANGED <<slots, extras, latest>>

Citation ==
  /\ open = "text"
  /\ Comes("anthropic", Says("citation"))
  /\ UNCHANGED <<open, meant, slots, extras, latest>>

\* An extra block is complete, and comes once more as a whole.
BlockStop ==
  /\ phase = "reading" /\ open \in {"text", "signed", "call", "extra"}
  /\ events' = IF open = "extra" THEN Append(events, [kind |-> "extra", body |-> extras[Here]])
               ELSE events
  /\ extras' = Without(extras, {Here})
  /\ open' = "none"
  /\ UNCHANGED <<adapter, emulating, items, meant, slots, latest, phase>>

AnthropicReason(raw) ==
  CASE raw = "end_turn" -> "stop"
    [] raw = "max_tokens" -> "length"
    [] raw = "tool_use" -> IF emulating THEN "stop" ELSE "tool_calls"
    [] raw = "refusal" -> "content_filter"
    [] OTHER -> "none"

\* The output tokens are known at the end.
MessageDelta(raw) ==
  /\ items > 0 /\ open = "none" /\ Unended
  /\ Comes("anthropic", <<>>)
  /\ meant' = [meant EXCEPT !.reason = raw, !.usage = <<@[1], Item>>]
  /\ latest' = [reason |-> AnthropicReason(raw), usage |-> <<latest.usage[1], Item>>]
  /\ UNCHANGED <<open, slots, extras>>

Anthropic ==
  \/ MessageStart \/ BlockDelta \/ Signature \/ Citation \/ BlockStop
  \/ \E k \in {"text", "thinking", "redacted", "call", "extra"} : BlockStart(k)
  \/ \E raw \in {"end_turn", "max_tokens", "tool_use", "refusal", "other"} : MessageDelta(raw)

-----------------------------------------------------------------------------
(* OpenAI and what is compatible with it: one choice, in chunks *)

\* Annotations, or the metadata of the role announcement.
Note ==
  /\ Unended
  /\ Comes("openai", Says("note"))
  /\ UNCHANGED <<open, meant, slots, extras, latest>>

ContentChunk(k) ==
  /\ Unended
  /\ Comes("openai", Says(k))
  /\ NewBlock(k, <<Item>>)
  /\ UNCHANGED <<open, slots, extras, latest>>

\* A fragment of a call that has begun goes to its slot, whatever came in between.
\* The first one has its id and name.
CallChunk ==
  /\ Unended
  /\ Comes("openai", <<>>)
  /\ \/ /\ Cardinality(Calls) < MaxCalls
        /\ NewBlock("call", <<Item>>)
        /\ slots' = With(slots, Here + 1, <<Item>>)
     \/ \E i \in Calls :
          /\ Extend(i)
          /\ slots' = [slots EXCEPT ![i] = Append(@, Item)]
  /\ UNCHANGED <<open, extras, latest>>

OpenAIReason(raw) ==
  IF raw \in {"stop", "length", "tool_calls", "content_filter"} THEN raw ELSE "none"

\* A chunk with a reason the adapter knows is read no further: usage that it carries
\* as well, as OpenAI's own never does, is not seen.
FinishChunk(raw) ==
  /\ Unended
  /\ \E u \in {<<>>, <<Item, Item>>} :
       LET reason == OpenAIReason(raw)
       IN /\ Comes("openai", IF reason # "none" THEN Ending(reason, <<>>)
                             ELSE IF u # <<>> THEN Ending("none", u) ELSE <<>>)
          /\ meant' = [meant EXCEPT !.reason = raw,
                                    !.usage = IF reason = "none" THEN u ELSE <<>>]
  /\ UNCHANGED <<open, slots, extras, latest>>

\* "include_usage": the last chunk has the usage and no choice.
UsageChunk ==
  /\ ~Unended /\ meant.usage = <<>>
  /\ Comes("openai", Ending("none", <<Item, Item>>))
  /\ meant' = [meant EXCEPT !.usage = <<Item, Item>>]
  /\ UNCHANGED <<open, slots, extras, latest>>

OpenAI ==
  \/ Note \/ CallChunk \/ UsageChunk
  \/ \E k \in {"text", "refusal"} : ContentChunk(k)
  \/ \E raw \in {"stop", "length", "tool_calls", "function_call"} : FinishChunk(raw)

-----------------------------------------------------------------------------
(* Gemini and Ollama: complete parts, and a reason that knows nothing of calls *)

\* A chunk or line with a part of kind k.  A thought of Gemini is not passed on.
Part(a, k) ==
  /\ Unended
  /\ Comes(a, IF k = "call" \/ (k = "thinking" /\ a = "gemini") THEN <<>> ELSE Says(k))
  /\ k = "call" => Cardinality(Calls) < MaxCalls
  /\ NewBlock(IF a = "gemini" /\ k = "thinking" THEN "thought" ELSE k,
              IF k = "call" THEN <<Item, Item>> ELSE <<Item>>)
  /\ slots' = IF k = "call" THEN With(slots, Here + 1, <<Item, Item>>) ELSE slots
  /\ UNCHANGED <<open, extras, latest>>

\* STOP, after a call, stands for tool_calls.
PartReason(raw) ==
  CASE raw = "STOP" -> IF slots = EmptyDict THEN "stop" ELSE "tool_calls"
    [] raw = "MAX_TOKENS" -> "length"
    [] raw = "SAFETY" -> "content_filter"
    [] OTHER -> "none"

\* Gemini sends the usage so far with any chunk; the last is kept.
GeminiUsage ==
  /\ Comes("gemini", <<>>)
  /\ meant' = [meant EXCEPT !.usage = <<Item, Item>>]
  /\ latest' = [reason |-> latest.reason, usage |-> <<Item, Item>>]
  /\ UNCHANGED <<open, slots, extras>>

GeminiFinish(raw) ==
  /\ Unended
  /\ Comes("gemini", <<>>)
  /\ meant' = [meant EXCEPT !.reason = raw]
  /\ latest' = [reason |-> PartReason(raw), usage |-> latest.usage]
  /\ UNCHANGED <<open, slots, extras>>

\* Ollama's last line, "done": yielded unless there is nothing in it.
OllamaDone(raw) ==
  /\ Unended
  /\ \E u \in {<<>>, <<Item, Item>>} :
       /\ Comes("ollama", IF PartReason(raw) = "none" /\ u = <<>> THEN <<>>
                          ELSE Ending(PartReason(raw), u))
       /\ meant' = [meant EXCEPT !.reason = raw, !.usage = u]
  /\ UNCHANGED <<open, slots, extras, latest>>

\* echo says its words, then what it counted.
EchoWord ==
  /\ Unended
  /\ Comes("echo", Says("text"))
  /\ NewBlock("text", <<Item>>)
  /\ UNCHANGED <<open, slots, extras, latest>>

EchoEnd ==
  /\ Unended
  /\ Comes("echo", Ending("stop", <<Item, Item>>))
  /\ meant' = [meant EXCEPT !.reason = "STOP", !.usage = <<Item, Item>>]
  /\ UNCHANGED <<open, slots, extras, latest>>

Parts ==
  \/ \E a \in {"gemini", "ollama"}, k \in {"text", "thinking", "call"} : Part(a, k)
  \/ \E raw \in {"STOP", "MAX_TOKENS", "SAFETY", "other"} : GeminiFinish(raw)
  \/ \E raw \in {"STOP", "MAX_TOKENS", "other"} : OllamaDone(raw)
  \/ GeminiUsage \/ EchoWord \/ EchoEnd

-----------------------------------------------------------------------------
(* The end of the stream *)

\* The calls in the order of their indexes, each its block's place in the message.
\* Gemini and Ollama give them no id: they get their number.
ByIndex(d) == FlattenSeq([i \in 1..Here |-> IF i \in DOMAIN d THEN <<d[i]>> ELSE <<>>])

Assembled ==
  LET kept == ByIndex(slots)
  IN [i \in 1..Len(kept) |->
        [id |-> IF adapter \in {"gemini", "ollama"} THEN <<"call", i>> ELSE <<"id", kept[i][1]>>,
         args |-> Tail(kept[i])]]

\* Variant: the tail is what the reason says it is: no calls but for "tool_calls".
TailByReason ==
  (IF latest.reason # "tool_calls" THEN <<>> ELSE <<[kind |-> "calls", body |-> Assembled]>>)
  \o (IF latest = [reason |-> "none", usage |-> <<>>] THEN <<>>
      ELSE Ending(latest.reason, latest.usage))

\* What is yielded when upstream has closed the stream.
TailEvents ==
  (IF slots = EmptyDict \/ emulating THEN <<>> ELSE <<[kind |-> "calls", body |-> Assembled]>>)
  \o (IF latest = [reason |-> "none", usage |-> <<>>] THEN <<>>
      ELSE Ending(latest.reason, latest.usage))

UpstreamCloses ==
  /\ phase = "reading"
  /\ events' = events \o TailEvents
  /\ phase' = "over"
  /\ UNCHANGED <<adapter, emulating, items, open, meant, slots, extras, latest>>

\* httpx.HTTPError, or a status of 400 or more before anything: a ProviderError.
UpstreamBreaks ==
  /\ phase = "reading" /\ adapter # "echo"
  /\ phase' = "failed"
  /\ UNCHANGED <<adapter, emulating, items, open, meant, slots, extras, latest, events>>

AdapterNext == Anthropic \/ OpenAI \/ Parts \/ UpstreamCloses \/ UpstreamBreaks

AdapterSpec == AdapterInit /\ [][AdapterNext]_adapterVars

-----------------------------------------------------------------------------
(* Correctness *)

\* What the blocks of a message, or the events of a stream, of kinds ks have in them.
Of(es, ks) == FlattenSeq([i \in DOMAIN es |-> IF es[i].kind \in ks THEN <<es[i].body>> ELSE <<>>])
Joined(es, ks) == FlattenSeq(Of(es, ks))

\* What chat() makes of the same message, as far as the streams can be compared with it.
Chat ==
  LET calls == Of(meant.blocks, {"call"})
  IN [text     |-> IF emulating /\ calls # <<>> THEN Tail(calls[1])
                   ELSE Joined(meant.blocks, {"text"}),
      refusal  |-> Joined(meant.blocks, {"refusal"}),
      thinking |-> Joined(meant.blocks, {"thinking"}),
      extra    |-> Of(meant.blocks, {"extra"}),
      calls    |-> IF emulating THEN <<>> ELSE [i \in DOMAIN calls |-> Tail(calls[i])],
      reason   |-> CASE adapter = "anthropic" -> AnthropicReason(meant.reason)
                     [] adapter = "openai" -> OpenAIReason(meant.reason)
                     [] OTHER -> PartReason(meant.reason),
      usage    |-> meant.usage]

\* The last of s that is not none.
LastBut(s, none) ==
  LET kept == {i \in DOMAIN s : s[i] # none} IN IF kept = {} THEN none ELSE s[Max(kept)]

\* What the events of the stream add up to, as _handle_chat_stream keeps them.
Sum ==
  LET ends == Of(events, {"end"})
      calls == Joined(events, {"calls"})
  IN [text     |-> Joined(events, {"text"}),
      refusal  |-> Joined(events, {"refusal"}),
      thinking |-> Joined(events, {"thinking", "signature", "thinking_block"}),
      extra    |-> Of(events, {"extra"}),
      calls    |-> [i \in DOMAIN calls |-> calls[i].args],
      reason   |-> LastBut([i \in DOMAIN ends |-> ends[i].reason], "none"),
      usage    |-> LastBut([i \in DOMAIN ends |-> ends[i].usage], <<>>)]

\* A stream that is over has said what the unstreamed answer would have: its text, every
\* call with its arguments in order, the reason and the usage.  (A refusal of
\* Anthropic's is left in the text, which chat() moves; a call whose input came in no
\* fragment has "" for its arguments, which for chat() are "{}".)
StreamSaysWhatChatSays ==
  phase = "over" /\ open = "none" /\ meant.reason # "refusal"
  /\ (\A i \in Calls : Len(meant.blocks[i].body) > 1)
  => Sum = Chat

\* The block an event of adapter a leaves open when it comes in block b, "wrong" if
\* StreamChat expects none such there; and the block that all of es leave open.
BlockAfter(a, b, k) ==
  CASE k = "text" -> IF b \in {"none", "text"} \/ (a = "ollama" /\ b = "thinking")
                     THEN "text" ELSE "wrong"
    [] k \in {"refusal", "citation"} -> IF b \in {"none", "text"} THEN "text" ELSE "wrong"
    [] k = "thinking" -> IF b \in {"none", "text", "thinking"} THEN "thinking" ELSE "wrong"
    [] k = "signature" -> IF b \in {"none", "text", "thinking"} THEN "none" ELSE "wrong"
    [] k = "thinking_block" -> IF b \in {"none", "text"} THEN "none" ELSE "wrong"
    [] k \in {"note", "fields"} -> IF b \in {"none", "text"} THEN b ELSE "wrong"
    [] k = "extra_start" -> IF b \in {"none", "text"} THEN "extra" ELSE "wrong"
    [] k = "extra_delta" -> IF b = "extra" THEN "extra" ELSE "wrong"
    [] k = "extra" -> IF b = "extra" THEN "none" ELSE "wrong"
    [] OTHER -> b

LeftOpen(a, es) ==
  FoldLeft(LAMBDA b, e : IF b = "wrong" THEN b ELSE BlockAfter(a, b, e.kind), "none", es)

\* The events come in an order that StreamChat's environment (Arrives) allows: the
\* blocks do not nest, thinking is closed before text, and extra fields come first.
ArrivesAsAssumed ==
  /\ LeftOpen(adapter, events) # "wrong"
  /\ \A i \in DOMAIN events : events[i].kind = "fields" => i = 1
=============================================================================
