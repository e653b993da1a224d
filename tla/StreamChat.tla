------------------------------- MODULE StreamChat -------------------------------
(***************************************************************************)
(* One streamed chat: the event generator of the service                   *)
(* (_handle_chat_stream of service.py) and the three routes that turn its  *)
(* events into server-sent frames (chat_stream, chat_completions and       *)
(* anthropic_messages of main.py).                                         *)
(*                                                                         *)
(* Upstream sends text, thinking, refusals and opaque "extra" blocks in    *)
(* pieces.  With output redaction on, each kind of text goes through a     *)
(* redactor of its own, which always holds back a tail of what it was fed. *)
(* A piece stands for its last character, so it stays held until something *)
(* releases it.  The client may go away wherever the generator is          *)
(* suspended: at a yield, at the upstream read, at an access to a backend. *)
(***************************************************************************)
EXTENDS Naturals, Sequences, FiniteSets

CONSTANT MaxEvents   \* bound on the events upstream sends

ASSUME StreamAssumption == MaxEvents \in Nat

VARIABLES
  surface,      \* the route: "native", "openai" or "anthropic"
  dialect,      \* how the provider streams: "openai", "anthropic" or "ollama"
  redacting,    \* output_redaction_enabled
  seen,         \* events received from upstream
  block,        \* the content block upstream has open
  heard,        \* the pieces received, per channel (history)
  held,         \* StreamRedactor._pending, per channel
  completion,   \* the completion list is not empty
  refused,      \* reported_refusal is not empty
  finished, errored,
  pc,           \* what the generator waits for
  out,          \* events it yields before it goes on
  then,         \* where it goes on
  gone,         \* the client has gone away
  accounted,    \* runs of _record_stream_accounting
  debits,       \* those whose credit debit went through
  said,         \* the events yielded (history)
  route         \* the route's frames, and the content block it has open

upstream == <<surface, dialect, redacting, seen, block, heard>>
answer == <<held, completion, refused>>
ending == <<finished, errored, gone>>
bill == <<accounted, debits>>
client == <<said, route>>
vars == <<upstream, answer, ending, pc, out, then, bill, client>>

Channels == {"text", "thinking", "refusal", "extra"}
Nothing == [c \in Channels |-> <<>>]

Event(k, ps) == [kind |-> k, pieces |-> ps]
Whole(k) == <<Event(k, <<>>)>>

\* An event that passes whole, with the number of the upstream event it came with.
Mark(k) == <<Event(k, <<seen + 1>>)>>

\* The event that releases what a redactor holds, if it holds anything.
Rest(c, k) == IF held[c] = <<>> THEN <<>> ELSE <<Event(k, held[c])>>

Init ==
  /\ surface \in {"native", "openai", "anthropic"}
  /\ dialect \in {"openai", "anthropic", "ollama"}
  /\ redacting \in BOOLEAN
  /\ seen = 0
  /\ block = "none"
  /\ heard = Nothing
  /\ held = Nothing
  /\ completion = FALSE /\ refused = FALSE
  /\ finished = FALSE /\ errored = FALSE /\ gone = FALSE
  /\ pc = "upstream" /\ out = <<>> /\ then = "upstream"
  /\ accounted = 0 /\ debits = 0
  /\ said = <<>>
  /\ route = [started |-> FALSE, open |-> "none", index |-> 0, frames |-> <<>>]

-----------------------------------------------------------------------------
(* Events from upstream *)

\* The next upstream event belongs to block b, and block c is open after it.
Arrives(from, c) ==
  /\ pc = "upstream"
  /\ seen < MaxEvents
  /\ block \in from
  /\ seen' = seen + 1
  /\ block' = c
  /\ UNCHANGED <<surface, dialect, redacting, ending, bill, client>>

\* What may be open when text comes: Ollama's thinking has no signature to end it.
BeforeText == IF dialect = "ollama" THEN {"none", "text", "thinking"} ELSE {"none", "text"}

\* The generator yields these events, then goes on at l.
Yield(es, l) ==
  /\ out' = es
  /\ then' = l
  /\ pc' = IF es = <<>> THEN l ELSE "client"

\* A piece goes through the channel's redactor, which may let out some of what
\* it held and the start of the new piece, never its tail.  Without redaction the
\* piece passes.
Feed(c, k, before, flushed) ==
  LET piece == seen + 1
      all == Append(flushed[c], piece)
  IN /\ heard' = [heard EXCEPT ![c] = Append(@, piece)]
     /\ \/ /\ ~redacting
           /\ held' = flushed
           /\ Yield(before \o <<Event(k, <<piece>>)>>, "upstream")
        \/ /\ redacting
           /\ held' = [flushed EXCEPT ![c] = all]
           /\ Yield(before, "upstream")
        \/ /\ redacting
           /\ \E n \in 0..Len(flushed[c]) :
                /\ held' = [flushed EXCEPT ![c] = SubSeq(all, n + 1, Len(all))]
                /\ Yield(before \o <<Event(k, SubSeq(all, 1, n))>>, "upstream")

\* A text delta.  A thinking tail still held goes out first.
GetText ==
  /\ Arrives(BeforeText, "text")
  /\ Feed("text", "text", Rest("thinking", "thinking"), [held EXCEPT !["thinking"] = <<>>])
  /\ completion' = TRUE
  /\ UNCHANGED refused

GetRefusal ==
  /\ dialect = "openai"
  /\ Arrives({"none", "text"}, "text")
  /\ Feed("refusal", "refusal", <<>>, held)
  /\ refused' = (refused \/ out' # <<>>)
  /\ UNCHANGED completion

GetThinking ==
  /\ dialect \in {"anthropic", "ollama"}
  /\ Arrives({"none", "text", "thinking"}, "thinking")
  /\ Feed("thinking", "thinking", <<>>, held)
  /\ UNCHANGED <<completion, refused>>

\* An event that passes whole, after what a channel still holds.
Pass(c, ck, k) ==
  /\ held' = [held EXCEPT ![c] = <<>>]
  /\ Yield(Rest(c, ck) \o Mark(k), "upstream")
  /\ UNCHANGED <<heard, completion, refused>>

\* The signature closes a thinking block: the block's tail goes out before it.  It is
\* all there is of a block whose thinking is not shown.
GetSignature ==
  /\ dialect = "anthropic"
  /\ Arrives({"none", "text", "thinking"}, "none")
  /\ Pass("thinking", "thinking", "signature")

\* A redacted_thinking block comes whole.
GetThinkingBlock ==
  /\ dialect = "anthropic"
  /\ Arrives({"none", "text"}, "none")
  /\ Pass("thinking", "thinking", "thinking_block")

\* A citation is fed and flushed in one step.
GetCitation ==
  /\ dialect = "anthropic"
  /\ Arrives({"none", "text"}, "text")
  /\ Yield(Whole("citation"), "upstream")
  /\ UNCHANGED <<heard, held, completion, refused>>

\* Metadata: a fingerprint, annotations, or the extra fields of message_start.
GetNote ==
  /\ dialect # "ollama"
  /\ Arrives({"none", "text"}, block)
  /\ dialect = "anthropic" => seen = 0
  /\ \E k \in IF dialect = "anthropic" THEN {"fields"} ELSE {"fingerprint", "annotations"} :
       Yield(Whole(k), "upstream")
  /\ UNCHANGED <<heard, held, completion, refused>>

\* Variant: the text tail is not flushed at the start of an extra block.
GetExtraStartUnflushed ==
  /\ dialect = "anthropic"
  /\ Arrives({"none", "text"}, "extra")
  /\ held' = [held EXCEPT !["extra"] = <<>>]
  /\ Yield(Mark("extra_start"), "upstream")
  /\ UNCHANGED <<heard, completion, refused>>

\* An extra block starts: the text held back goes out before it, and its fields
\* get fresh redactors.
GetExtraStart ==
  /\ dialect = "anthropic"
  /\ Arrives({"none", "text"}, "extra")
  /\ held' = [held EXCEPT !["text"] = <<>>, !["extra"] = <<>>]
  /\ Yield(Rest("text", "text") \o Mark("extra_start"), "upstream")
  /\ UNCHANGED <<heard, completion, refused>>

\* A delta of an extra block is forwarded at once, with what its redactor lets out.
GetExtraDelta ==
  /\ Arrives({"extra"}, "extra")
  /\ LET piece == seen + 1
         all == Append(held["extra"], piece)
     IN /\ heard' = [heard EXCEPT !["extra"] = Append(@, piece)]
        /\ \E n \in IF redacting THEN 0..Len(held["extra"]) ELSE {1} :
             /\ held' = [held EXCEPT !["extra"] = SubSeq(all, n + 1, Len(all))]
             /\ Yield(<<Event("extra_delta", SubSeq(all, 1, n))>>, "upstream")
  /\ UNCHANGED <<completion, refused>>

GetExtraStop ==
  /\ Arrives({"extra"}, "none")
  /\ Pass("extra", "extra_delta", "extra_stop")

Receive ==
  \/ GetText \/ GetRefusal \/ GetThinking \/ GetSignature \/ GetThinkingBlock
  \/ GetCitation \/ GetNote \/ GetExtraStart \/ GetExtraDelta \/ GetExtraStop

-----------------------------------------------------------------------------
(* The routes *)

Say(r, t) == [r EXCEPT !.frames = Append(@, [type |-> t, index |-> r.index, block |-> r.open])]
Close(r) ==
  IF r.open = "none" THEN r
  ELSE [Say(r, "stop") EXCEPT !.index = @ + 1, !.open = "none"]
Open(r, b) == Say([r EXCEPT !.open = b], "start")
Within(r, b) == IF r.open = b THEN r ELSE Open(Close(r), b)

\* Variant: the block before a redacted_thinking block is not closed.
RedactedNested(r) == Close(Open(r, "redacted"))

\* A redacted_thinking block opens and closes in one step.
Redacted(r) == Close(Open(Close(r), "redacted"))

\* The frames of an event on /v1/messages; a summary's tool call is a block.
ToMessages(r0, e) ==
  LET r == IF r0.started THEN r0 ELSE [Say(r0, "message_start") EXCEPT !.started = TRUE]
  IN CASE e.kind = "thinking" -> Say(Within(r, "thinking"), "thinking_delta")
       [] e.kind = "signature" -> IF r.open = "thinking"
                                  THEN Close(Say(r, "signature_delta")) ELSE r
       [] e.kind = "thinking_block" -> Redacted(r)
       [] e.kind = "extra_start" -> Open(Close(r), "extra")
       [] e.kind = "extra_delta" -> Say(r, "extra_delta")
       [] e.kind = "extra_stop" -> IF r.open = "extra" THEN Close(r) ELSE r
       [] e.kind \in {"text", "refusal"} -> Say(Within(r, "text"), "text_delta")
       [] e.kind = "citation" -> Say(Within(r, "text"), "citations_delta")
       [] e.kind = "error" -> Say(r, "error")
       [] e.kind = "summary" -> Close(r)
       [] e.kind = "summary_tools" ->
            Close(Say(Open(Close(r), "tool_use"), "input_json_delta"))
       [] OTHER -> r

\* /v1/chat/completions has no frame for thinking, citations or extra blocks.
ToCompletions(r, e) ==
  CASE e.kind \in {"text", "refusal", "annotations"} -> Say(r, e.kind)
    [] e.kind = "error" -> Say(Say(r, "error"), "[DONE]")
    [] e.kind = "summary" -> Say(r, "finish")
    [] e.kind = "summary_tools" -> Say(Say(r, "tool_calls"), "finish")
    [] OTHER -> r

\* /v1/chat/stream has one frame per event, but none for a bare fingerprint.
ToNative(r, e) == IF e.kind = "fingerprint" THEN r ELSE Say(r, e.kind)

Render(r, e) ==
  CASE surface = "anthropic" -> ToMessages(r, e)
    [] surface = "openai" -> ToCompletions(r, e)
    [] OTHER -> ToNative(r, e)

\* The generator is over: what the route adds, unless it has returned at an error.
RouteEnds ==
  CASE surface = "anthropic" /\ ~errored -> Say(Say(route, "message_delta"), "message_stop")
    [] surface = "native" \/ (surface = "openai" /\ ~errored) -> Say(route, "[DONE]")
    [] OTHER -> route

-----------------------------------------------------------------------------
(* The generator *)

\* The client takes an event.
Deliver ==
  /\ pc = "client"
  /\ said' = Append(said, Head(out))
  /\ route' = Render(route, Head(out))
  /\ out' = Tail(out)
  /\ pc' = IF Tail(out) = <<>> THEN then ELSE "client"
  /\ UNCHANGED <<upstream, answer, ending, then, bill>>

\* Variant: the refusal's tail is forgotten.
EndsForgetful ==
  /\ pc = "upstream"
  /\ held' = Nothing
  /\ Yield(Rest("text", "text") \o Rest("thinking", "thinking")
           \o Rest("extra", "extra_delta"), "finishing")
  /\ UNCHANGED <<upstream, completion, refused, ending, bill, client>>

\* Upstream has no more events: the tails go out.
Ends ==
  /\ pc = "upstream"
  /\ held' = Nothing
  /\ refused' = (refused \/ held["refusal"] # <<>>)
  /\ Yield(Rest("text", "text") \o Rest("thinking", "thinking")
           \o Rest("refusal", "refusal") \o Rest("extra", "extra_delta"), "finishing")
  /\ UNCHANGED <<upstream, completion, ending, bill, client>>

\* The stream is complete: usage is recorded, then the credit debited.
Finish ==
  /\ pc = "finishing"
  /\ finished' = TRUE
  /\ accounted' = accounted + 1
  /\ pc' = "crediting"
  /\ UNCHANGED <<upstream, answer, errored, gone, out, then, debits, client>>

\* key_store.spend_credit returns.
Credit ==
  /\ pc = "crediting"
  /\ debits' = debits + 1
  /\ \/ /\ finished
        /\ \E k \in {"summary", "summary_tools"} : Yield(Whole(k), "ending")
     \/ /\ ~finished
        /\ pc' = "over"
        /\ UNCHANGED <<out, then>>
  /\ UNCHANGED <<upstream, answer, ending, accounted, client>>

\* Variant: the error is yielded and the generator goes on to its summary.
FailsOn ==
  /\ pc = "upstream"
  /\ Yield(Whole("error"), "finishing")
  /\ UNCHANGED <<upstream, answer, ending, bill, client>>

\* A ProviderError: the provider may have to be parked, which is an await.
Fails ==
  /\ pc = "upstream"
  /\ errored' = TRUE
  /\ \/ pc' = "parking" /\ UNCHANGED <<out, then>>
     \/ Yield(Whole("error"), "ending")
  /\ UNCHANGED <<upstream, answer, finished, gone, bill, client>>

Park ==
  /\ pc = "parking"
  /\ Yield(Whole("error"), "ending")
  /\ UNCHANGED <<upstream, answer, ending, bill, client>>

End ==
  /\ pc = "ending"
  /\ pc' = "over"
  /\ route' = RouteEnds
  /\ UNCHANGED <<upstream, answer, ending, out, then, bill, said>>

\* Variant: a refusal is not part of what was generated.
AbandonTextOnly ==
  /\ IF ~finished /\ ~errored /\ pc # "crediting" /\ completion
     THEN accounted' = accounted + 1 /\ pc' = "crediting"
     ELSE pc' = "over" /\ UNCHANGED accounted
  /\ UNCHANGED <<upstream, answer, finished, errored, out, then, debits, client>>

\* The finally of the generator when it is left early: what was generated is
\* billed.  A cleanup that is itself interrupted is not begun again.
Abandon ==
  /\ IF ~finished /\ ~errored /\ pc # "crediting" /\ (completion \/ refused)
     THEN accounted' = accounted + 1 /\ pc' = "crediting"
     ELSE pc' = "over" /\ UNCHANGED accounted
  /\ UNCHANGED <<upstream, answer, finished, errored, out, then, debits, client>>

\* The client goes away: GeneratorExit at a yield, a cancellation at an await,
\* which may be delivered again while the cleanup awaits the debit.
Leave ==
  /\ pc # "over"
  /\ ~gone \/ pc = "crediting"
  /\ gone' = TRUE
  /\ Abandon

\* Upstream raises something that is no ProviderError: nothing catches it.
Breaks ==
  /\ pc = "upstream"
  /\ UNCHANGED gone
  /\ Abandon

Next ==
  \/ Receive \/ Deliver \/ Ends \/ Finish \/ Credit \/ Fails \/ Park \/ End
  \/ Leave \/ Breaks

Spec == Init /\ [][Next]_vars

-----------------------------------------------------------------------------
(* Correctness *)

Members(s) == {s[i] : i \in DOMAIN s}
Kinds == {"text", "thinking", "refusal", "signature", "thinking_block", "citation",
          "fingerprint", "annotations",
          "fields", "extra_start", "extra_delta", "extra_stop", "error", "summary",
          "summary_tools"}
Events == [kind : Kinds, pieces : Seq(Nat)]
Pieces == [Channels -> Seq(Nat)]
Terminal == {"error", "summary", "summary_tools"}

InputOK ==
  /\ surface \in {"native", "openai", "anthropic"}
  /\ dialect \in {"openai", "anthropic", "ollama"}
  /\ redacting \in BOOLEAN
  /\ seen \in 0..MaxEvents
  /\ block \in {"none", "text", "thinking", "extra"}
PiecesOK == heard \in Pieces /\ held \in Pieces
EventsOK == out \in Seq(Events) /\ said \in Seq(Events)
ControlOK ==
  /\ pc \in {"upstream", "client", "finishing", "crediting", "parking", "ending", "over"}
  /\ then \in {"upstream", "finishing", "ending"}
  /\ completion \in BOOLEAN /\ refused \in BOOLEAN
  /\ finished \in BOOLEAN /\ errored \in BOOLEAN /\ gone \in BOOLEAN
BillOK == accounted \in 0..1 /\ debits \in 0..accounted

\* Types; in particular the accounting runs at most once and the credit is debited
\* at most once for each run of it.
TypeOK == InputOK /\ PiecesOK /\ EventsOK /\ ControlOK /\ BillOK

\* However a stream ends, short of a provider error, text or a refusal the client
\* was sent is accounted for: a disconnect fills the same buckets as a completed
\* stream (the finally of _handle_chat_stream).
EveryAnswerIsAccounted ==
  pc = "over" /\ ~errored /\ (\E e \in Members(said) : e.kind \in {"text", "refusal"})
    => accounted = 1

\* A stream that neither loses its client nor breaks yields exactly one terminal
\* event, an error or a summary; no stream yields anything after one.
OneTerminal ==
  /\ \A i \in DOMAIN said : said[i].kind \in Terminal => i = Len(said)
  /\ pc = "over" /\ ~gone /\ (finished \/ errored)
       => said # <<>> /\ said[Len(said)].kind \in Terminal

\* No text received before an extra block is delivered after the block's start, no
\* thinking after its signature or after the text that follows it.
OrderKept ==
  \A i, j \in DOMAIN said : i < j =>
    \A p \in Members(said[i].pieces), q \in Members(said[j].pieces) :
      \/ said[i].kind = "extra_start" /\ said[j].kind = "text"
      \/ said[i].kind \in {"signature", "text"} /\ said[j].kind = "thinking"
      => p < q

\* What the client has been sent of channel c, and that it came in order.
Sent(c) == {e \in Members(said) : e.kind = IF c = "extra" THEN "extra_delta" ELSE c}
InOrder(k) ==
  \A i, j \in DOMAIN said : said[i].kind = k /\ said[j].kind = k /\ i <= j =>
    \A m \in DOMAIN said[i].pieces, n \in DOMAIN said[j].pieces :
      i < j \/ m < n => said[i].pieces[m] < said[j].pieces[n]

\* Once the summary is delivered, the client has had every piece of every channel,
\* once and in the order it came: no redactor keeps a tail.
ReleasedBySummary ==
  /\ \A k \in {"text", "thinking", "refusal", "extra_delta"} : InOrder(k)
  /\ said # <<>> /\ said[Len(said)].kind \in {"summary", "summary_tools"} =>
       \A c \in Channels : UNION {Members(e.pieces) : e \in Sent(c)} = Members(heard[c])

\* The frames of /v1/messages are a well-formed message: block indexes count up
\* from zero, a delta or a stop belongs to the one block that is open and is of its
\* type, blocks do not nest, and all are closed at message_stop, the last frame.
BlocksWellFormed ==
  surface = "anthropic" =>
    LET f == route.frames
        Count(t, i) == Cardinality({j \in 1..(i - 1) : f[j].type = t})
        InBlock(i) == Count("start", i) = Count("stop", i) + 1 /\ f[i].index = Count("stop", i)
        Blocks == [thinking_delta |-> "thinking", signature_delta |-> "thinking",
                   text_delta |-> "text", citations_delta |-> "text",
                   extra_delta |-> "extra", input_json_delta |-> "tool_use"]
    IN \A i \in DOMAIN f :
         /\ f[i].type = "message_start" <=> i = 1
         /\ f[i].type = "start" => /\ Count("start", i) = Count("stop", i)
                                   /\ f[i].index = Count("start", i)
         /\ f[i].type = "stop" => InBlock(i)
         /\ f[i].type \in DOMAIN Blocks => InBlock(i) /\ f[i].block = Blocks[f[i].type]
         /\ f[i].type \in {"message_delta", "message_stop"}
              => Count("start", i) = Count("stop", i)
         /\ f[i].type \in {"error", "message_stop"} => i = Len(f)

=============================================================================
