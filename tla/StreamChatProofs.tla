--------------------------- MODULE StreamChatProofs ---------------------------
(* Proofs about StreamChat, for streams of any length. *)
EXTENDS StreamChat, SequenceTheorems, FiniteSetTheorems, TLAPS

\* The generator still receives, or has not finished what it received.
Streaming ==
  pc \in {"upstream", "finishing"} \/ (pc = "client" /\ then \in {"upstream", "finishing"})

\* What TypeOK and EveryAnswerIsAccounted rest on: where the generator is tells
\* whether it has accounted for the stream.
Billed ==
  /\ Streaming => ~finished /\ ~errored
  /\ pc = "parking" => errored
  /\ pc = "ending" \/ (pc = "client" /\ then = "ending") => finished \/ errored
  /\ ~finished /\ ~errored /\ pc \notin {"crediting", "over"} => accounted = 0
  /\ errored => accounted = 0 /\ ~finished /\ pc # "crediting"
  /\ pc = "crediting" => accounted = 1 /\ debits = 0
  /\ finished => accounted = 1
  /\ pc = "over" /\ ~errored /\ (completion \/ refused) => accounted = 1

\* Events that end no stream; t and r say whether a text or a refusal may be one.
Clean(es, t, r) ==
  \A i \in DOMAIN es :
    /\ es[i].kind \notin Terminal
    /\ es[i].kind = "text" => t
    /\ es[i].kind = "refusal" => r

\* What OneTerminal rests on: a terminal event is yielded alone, and last.
Ordered ==
  /\ held["text"] # <<>> => completion
  /\ pc = "client" => out # <<>>
  /\ pc = "client" /\ then # "ending" => Clean(out, completion, refused)
  /\ pc = "client" /\ then = "ending" => Len(out) = 1 /\ out[1].kind \in Terminal
  /\ pc \notin {"ending", "over"} => Clean(said, completion, refused)
  /\ pc = "ending" => said # <<>> /\ said[Len(said)].kind \in Terminal
  /\ \A i \in DOMAIN said :
       /\ said[i].kind \in Terminal => i = Len(said)
       /\ said[i].kind = "text" => completion
       /\ said[i].kind = "refusal" => refused
  /\ pc = "over" /\ ~gone /\ (finished \/ errored)
       => said # <<>> /\ said[Len(said)].kind \in Terminal

IInv == TypeOK /\ Billed /\ Ordered

-----------------------------------------------------------------------------
(* Sequences of events *)

\* What SubSeq cuts off a sequence is of the sequence's type.
LEMMA CutOK ==
  ASSUME NEW S, NEW s \in Seq(S), NEW m \in 1..(Len(s) + 1), NEW n \in 0..Len(s)
  PROVE  SubSeq(s, m, n) \in Seq(S)
<1>1. Len(s) \in Nat
  BY LenProperties
<1>2. \A i \in m..n : s[i] \in S
  BY <1>1, ElementOfSeq
<1> QED
  BY <1>1, <1>2, SubSeqProperties

\* A single event is clean if it ends nothing and is allowed.
LEMMA CleanOne ==
  ASSUME NEW k, NEW ps, NEW t, NEW r,
         k \notin Terminal, k = "text" => t, k = "refusal" => r
  PROVE  Clean(<<Event(k, ps)>>, t, r)
BY DEF Clean, Event

\* Clean sequences are clean when one follows the other.
LEMMA CleanConcat ==
  ASSUME NEW a \in Seq(Events), NEW b \in Seq(Events), NEW t, NEW r,
         Clean(a, t, r), Clean(b, t, r)
  PROVE  a \o b \in Seq(Events) /\ Clean(a \o b, t, r)
<1>1. /\ a \o b \in Seq(Events)
      /\ Len(a \o b) = Len(a) + Len(b)
      /\ \A i \in 1..(Len(a) + Len(b)) :
           (a \o b)[i] = IF i <= Len(a) THEN a[i] ELSE b[i - Len(a)]
  BY ConcatProperties
<1>2. Len(a) \in Nat /\ Len(b) \in Nat /\ DOMAIN a = 1..Len(a) /\ DOMAIN b = 1..Len(b)
      /\ DOMAIN (a \o b) = 1..Len(a \o b)
  BY <1>1, LenProperties
<1>3. ASSUME NEW i \in DOMAIN (a \o b)
      PROVE  \/ \E j \in DOMAIN a : (a \o b)[i] = a[j]
             \/ \E j \in DOMAIN b : (a \o b)[i] = b[j]
  <2>1. CASE i <= Len(a)
    BY <1>1, <1>2, <2>1
  <2>2. CASE ~(i <= Len(a))
    <3>1. i - Len(a) \in DOMAIN b
      BY <1>1, <1>2, <2>2
    <3> QED
      BY <1>1, <1>2, <2>2, <3>1
  <2> QED
    BY <2>1, <2>2
<1> QED
  BY <1>1, <1>3 DEF Clean

\* The event that releases a tail is clean if the channel's kind is allowed.
LEMMA RestClean ==
  ASSUME TypeOK, NEW c \in Channels, NEW k \in Kinds \ Terminal, NEW t, NEW r,
         k = "text" /\ held[c] # <<>> => t, k = "refusal" /\ held[c] # <<>> => r
  PROVE  Rest(c, k) \in Seq(Events) /\ Clean(Rest(c, k), t, r)
<1>1. held[c] \in Seq(Nat)
  BY DEF TypeOK, PiecesOK, Pieces
<1>2. CASE held[c] = <<>>
  BY <1>2 DEF Rest, Clean
<1>3. CASE held[c] # <<>>
  <2>1. Event(k, held[c]) \in Events
    BY <1>1 DEF Event, Events
  <2>2. Clean(<<Event(k, held[c])>>, t, r)
    BY <1>3, CleanOne
  <2> QED
    BY <1>3, <2>1, <2>2 DEF Rest
<1> QED
  BY <1>2, <1>3

-----------------------------------------------------------------------------
(* An event received leaves clean events to yield *)

\* Yielding says where the generator goes on.
Onward(l) ==
  /\ then' = l
  /\ pc' = IF out' = <<>> THEN l ELSE "client"

\* A piece fed to a redactor.
LEMMA FeedClean ==
  ASSUME TypeOK, NEW c \in Channels, NEW k \in Kinds \ Terminal,
         NEW before \in Seq(Events), NEW flushed \in Pieces, Feed(c, k, before, flushed),
         NEW t, NEW r, Clean(before, t, r), k = "text" => t, k = "refusal" => r
  PROVE  /\ heard' \in Pieces /\ held' \in Pieces
         /\ \A d \in Channels \ {c} : held'[d] = flushed[d]
         /\ out' \in Seq(Events) /\ Clean(out', t, r)
         /\ Onward("upstream")
<1> DEFINE piece == seen + 1
           all == Append(flushed[c], piece)
<1>1. piece \in Nat /\ heard \in Pieces /\ flushed[c] \in Seq(Nat)
  BY StreamAssumption DEF TypeOK, InputOK, PiecesOK, Pieces
<1>2. all \in Seq(Nat) /\ Len(all) = Len(flushed[c]) + 1 /\ Len(flushed[c]) \in Nat
  BY <1>1, LenProperties
<1>3. heard' \in Pieces
  <2>1. heard' = [heard EXCEPT ![c] = Append(@, piece)]
    BY DEF Feed
  <2>2. heard[c] \in Seq(Nat)
    BY <1>1 DEF Pieces
  <2>3. Append(heard[c], piece) \in Seq(Nat)
    BY <1>1, <2>2
  <2> QED
    BY <1>1, <2>1, <2>3 DEF Pieces
<1>4. ASSUME NEW ps \in Seq(Nat)
      PROVE  /\ before \o <<Event(k, ps)>> \in Seq(Events)
             /\ Clean(before \o <<Event(k, ps)>>, t, r)
  <2>1. <<Event(k, ps)>> \in Seq(Events)
    BY <1>4 DEF Event, Events
  <2>2. Clean(<<Event(k, ps)>>, t, r)
    BY CleanOne
  <2> QED
    BY <2>1, <2>2, CleanConcat
<1>5. ASSUME NEW h \in Seq(Nat), held' = [flushed EXCEPT ![c] = h]
      PROVE  held' \in Pieces /\ \A d \in Channels \ {c} : held'[d] = flushed[d]
  BY <1>5 DEF Pieces
<1>6. CASE /\ ~redacting
           /\ held' = flushed
           /\ Yield(before \o <<Event(k, <<piece>>)>>, "upstream")
  <2>1. <<piece>> \in Seq(Nat)
    BY <1>1
  <2> QED
    BY <1>3, <1>4, <1>6, <2>1 DEF Yield, Onward
<1>7. CASE /\ redacting
           /\ held' = [flushed EXCEPT ![c] = all]
           /\ Yield(before, "upstream")
  BY <1>2, <1>3, <1>5, <1>7 DEF Yield, Onward
<1>8. ASSUME NEW n \in 0..Len(flushed[c]),
             held' = [flushed EXCEPT ![c] = SubSeq(all, n + 1, Len(all))],
             Yield(before \o <<Event(k, SubSeq(all, 1, n))>>, "upstream")
      PROVE  /\ held' \in Pieces
             /\ \A d \in Channels \ {c} : held'[d] = flushed[d]
             /\ out' \in Seq(Events) /\ Clean(out', t, r)
             /\ Onward("upstream")
  <2>1. n + 1 \in 1..(Len(all) + 1) /\ n \in 0..Len(all) /\ Len(all) \in 0..Len(all)
        /\ 1 \in 1..(Len(all) + 1)
    BY <1>2
  <2>2. SubSeq(all, n + 1, Len(all)) \in Seq(Nat) /\ SubSeq(all, 1, n) \in Seq(Nat)
    BY <1>2, <2>1, CutOK
  <2> HIDE DEF all
  <2> QED
    BY <1>4, <1>5, <1>8, <2>2 DEF Yield, Onward
<1> QED
  BY <1>3, <1>6, <1>7, <1>8 DEF Feed

\* What an event received must keep for the rest of IInv to follow.
Received ==
  /\ heard' \in Pieces /\ held' \in Pieces
  /\ completion' \in BOOLEAN /\ refused' \in BOOLEAN
  /\ (completion => completion') /\ (refused => refused')
  /\ held'["text"] # <<>> => completion'
  /\ out' \in Seq(Events) /\ Clean(out', completion', refused')
  /\ Onward("upstream")

\* The channels, one of which is replaced or emptied.
LEMMA Emptied ==
  ASSUME TypeOK, NEW c \in Channels
  PROVE  /\ [held EXCEPT ![c] = <<>>] \in Pieces
         /\ \A d \in Channels \ {c} : [held EXCEPT ![c] = <<>>][d] = held[d]
BY DEF TypeOK, PiecesOK, Pieces

\* Text, thinking and refusals.
LEMMA TextReceived ==
  ASSUME TypeOK, Ordered, GetText
  PROVE  Received
<1> DEFINE before == Rest("thinking", "thinking")
           flushed == [held EXCEPT !["thinking"] = <<>>]
<1>1. "text" \in Channels /\ "thinking" \in Channels
      /\ "text" \in Kinds \ Terminal /\ "thinking" \in Kinds \ Terminal
  BY DEF Channels, Kinds, Terminal
<1>2. Feed("text", "text", before, flushed) /\ completion' = TRUE /\ refused' = refused
  BY DEF GetText
<1>3. before \in Seq(Events) /\ Clean(before, TRUE, refused)
  BY <1>1, RestClean
<1>4. flushed \in Pieces
  BY <1>1, Emptied
<1> HIDE DEF before, flushed
<1>5. /\ heard' \in Pieces /\ held' \in Pieces
      /\ out' \in Seq(Events) /\ Clean(out', TRUE, refused)
      /\ Onward("upstream")
  BY <1>1, <1>2, <1>3, <1>4, FeedClean
<1>6. refused \in BOOLEAN
  BY DEF TypeOK, ControlOK
<1> QED
  BY <1>2, <1>5, <1>6 DEF Received

LEMMA RefusalReceived ==
  ASSUME TypeOK, Ordered, GetRefusal
  PROVE  Received
<1>1. "refusal" \in Channels /\ "text" \in Channels \ {"refusal"}
      /\ "refusal" \in Kinds \ Terminal
  BY DEF Channels, Kinds, Terminal
<1>2. Feed("refusal", "refusal", <<>>, held) /\ completion' = completion
      /\ refused' = (refused \/ out' # <<>>)
  BY DEF GetRefusal
<1>3. <<>> \in Seq(Events) /\ Clean(<<>>, completion, TRUE) /\ held \in Pieces
  BY DEF Clean, TypeOK, PiecesOK
<1>3a. ("refusal" = "text" => completion) /\ ("refusal" = "refusal" => TRUE)
  OBVIOUS
<1>4. /\ heard' \in Pieces /\ held' \in Pieces
      /\ \A d \in Channels \ {"refusal"} : held'[d] = held[d]
      /\ out' \in Seq(Events) /\ Clean(out', completion, TRUE)
      /\ Onward("upstream")
  <2> DEFINE t == completion
             r == TRUE
  <2>1. Clean(<<>>, t, r) /\ ("refusal" = "text" => t) /\ ("refusal" = "refusal" => r)
    BY <1>3, <1>3a
  <2>2. Clean(out', t, r) => Clean(out', completion, TRUE)
    OBVIOUS
  <2> HIDE DEF t, r
  <2> QED
    BY <1>1, <1>2, <1>3, <2>1, <2>2, FeedClean
<1>5. completion \in BOOLEAN /\ refused \in BOOLEAN
  BY DEF TypeOK, ControlOK
<1>6. Clean(out', completion, refused')
  <2>1. CASE out' = <<>>
    BY <2>1 DEF Clean
  <2>2. CASE out' # <<>>
    <3>1. refused' = TRUE
      BY <1>2, <2>2
    <3> QED
      BY <1>4, <3>1
  <2> QED
    BY <2>1, <2>2
<1> QED
  BY <1>1, <1>2, <1>4, <1>5, <1>6 DEF Received, Ordered

LEMMA ThinkingReceived ==
  ASSUME TypeOK, Ordered, GetThinking
  PROVE  Received
<1>1. "thinking" \in Channels /\ "text" \in Channels \ {"thinking"}
      /\ "thinking" \in Kinds \ Terminal
  BY DEF Channels, Kinds, Terminal
<1>2. Feed("thinking", "thinking", <<>>, held) /\ completion' = completion
      /\ refused' = refused
  BY DEF GetThinking
<1>3. <<>> \in Seq(Events) /\ Clean(<<>>, completion, refused) /\ held \in Pieces
  BY DEF Clean, TypeOK, PiecesOK
<1>4. /\ heard' \in Pieces /\ held' \in Pieces /\ held'["text"] = held["text"]
      /\ out' \in Seq(Events) /\ Clean(out', completion, refused)
      /\ Onward("upstream")
  <2>1. PICK c \in Channels, k \in Kinds \ Terminal : c = "thinking" /\ k = "thinking"
    BY <1>1
  <2>2. Feed(c, k, <<>>, held) /\ (k = "text" => completion) /\ (k = "refusal" => refused)
    BY <1>2, <2>1
  <2>3. /\ heard' \in Pieces /\ held' \in Pieces
        /\ \A d \in Channels \ {c} : held'[d] = held[d]
        /\ out' \in Seq(Events) /\ Clean(out', completion, refused)
        /\ Onward("upstream")
    BY <1>3, <2>2, FeedClean, Zenon
  <2> QED
    BY <1>1, <2>1, <2>3
<1>5. completion \in BOOLEAN /\ refused \in BOOLEAN
  BY DEF TypeOK, ControlOK
<1> QED
  BY <1>2, <1>4, <1>5 DEF Received, Ordered

\* Events that pass whole, after a channel's tail.
LEMMA WholeReceived ==
  ASSUME TypeOK, Ordered, NEW c \in Channels, NEW k \in Kinds \ Terminal, NEW ps \in Seq(Nat),
         NEW ck \in Kinds \ Terminal, k \notin {"text", "refusal"}, ck # "refusal",
         ck = "text" => c = "text",
         NEW h \in Pieces, held' = h, h["text"] \in {held["text"], <<>>},
         UNCHANGED <<heard, completion, refused>>,
         \/ Yield(Rest(c, ck) \o <<Event(k, ps)>>, "upstream")
         \/ Yield(<<Event(k, ps)>>, "upstream")
  PROVE  Received
<1>1. completion \in BOOLEAN /\ refused \in BOOLEAN /\ heard \in Pieces
  BY DEF TypeOK, ControlOK, PiecesOK
<1>2. Rest(c, ck) \in Seq(Events) /\ Clean(Rest(c, ck), completion, refused)
  BY RestClean DEF Ordered
<1>3. <<Event(k, ps)>> \in Seq(Events)
  BY DEF Event, Events
<1>4. Clean(<<Event(k, ps)>>, completion, refused)
  BY CleanOne
<1>5. /\ Rest(c, ck) \o <<Event(k, ps)>> \in Seq(Events)
      /\ Clean(Rest(c, ck) \o <<Event(k, ps)>>, completion, refused)
  BY <1>2, <1>3, <1>4, CleanConcat
<1>6. out' \in Seq(Events) /\ Clean(out', completion, refused) /\ Onward("upstream")
  BY <1>3, <1>4, <1>5 DEF Yield, Onward
<1> QED
  BY <1>1, <1>6 DEF Received, Ordered

\* Every event received leaves the generator with clean events, or none, to yield.
LEMMA ReceiveClean ==
  ASSUME TypeOK, Ordered, Receive
  PROVE  Received
<1>1. /\ Channels = {"text", "thinking", "refusal", "extra"}
      /\ {"text", "thinking", "signature", "thinking_block", "citation", "fingerprint",
          "annotations", "fields", "extra_start", "extra_delta", "extra_stop"}
         \subseteq Kinds \ Terminal
  BY DEF Channels, Kinds, Terminal
<1>2. /\ seen + 1 \in Nat /\ <<seen + 1>> \in Seq(Nat) /\ <<>> \in Seq(Nat)
      /\ held \in Pieces /\ heard \in Pieces
  BY StreamAssumption DEF TypeOK, InputOK, PiecesOK
<1>3. CASE GetText
  BY <1>3, TextReceived
<1>4. CASE GetRefusal
  BY <1>4, RefusalReceived
<1>5. CASE GetThinking
  BY <1>5, ThinkingReceived
<1>6. CASE GetSignature
  <2>1. /\ [held EXCEPT !["thinking"] = <<>>] \in Pieces
        /\ [held EXCEPT !["thinking"] = <<>>]["text"] = held["text"]
    BY <1>1, Emptied
  <2>2. /\ held' = [held EXCEPT !["thinking"] = <<>>]
        /\ Yield(Rest("thinking", "thinking") \o <<Event("signature", <<seen + 1>>)>>, "upstream")
        /\ UNCHANGED <<heard, completion, refused>>
    BY <1>6 DEF GetSignature, Pass, Mark
  <2> QED
    BY <1>1, <1>2, <2>1, <2>2, WholeReceived
<1>7. CASE GetThinkingBlock
  <2>1. /\ [held EXCEPT !["thinking"] = <<>>] \in Pieces
        /\ [held EXCEPT !["thinking"] = <<>>]["text"] = held["text"]
    BY <1>1, Emptied
  <2>2. /\ held' = [held EXCEPT !["thinking"] = <<>>]
        /\ Yield(Rest("thinking", "thinking") \o <<Event("thinking_block", <<seen + 1>>)>>,
                 "upstream")
        /\ UNCHANGED <<heard, completion, refused>>
    BY <1>7 DEF GetThinkingBlock, Pass, Mark
  <2> QED
    BY <1>1, <1>2, <2>1, <2>2, WholeReceived
<1>8. CASE GetCitation
  <2>1. held' = held /\ UNCHANGED <<heard, completion, refused>>
        /\ Yield(<<Event("citation", <<>>)>>, "upstream")
    BY <1>8 DEF GetCitation, Whole
  <2> QED
    BY <1>1, <1>2, <2>1, WholeReceived
<1>9. CASE GetNote
  <2>1. PICK k \in {"fields", "fingerprint", "annotations"} :
               Yield(<<Event(k, <<>>)>>, "upstream")
    BY <1>9 DEF GetNote, Whole
  <2>2. held' = held /\ UNCHANGED <<heard, completion, refused>>
    BY <1>9 DEF GetNote
  <2>3. k \in Kinds \ Terminal /\ k \notin {"text", "refusal"}
    BY <1>1
  <2> QED
    BY <1>1, <1>2, <2>1, <2>2, <2>3, WholeReceived
<1>10. CASE GetExtraStart
  <2> DEFINE h == [held EXCEPT !["text"] = <<>>, !["extra"] = <<>>]
  <2>1. h \in Pieces /\ h["text"] = <<>>
    BY <1>1, <1>2 DEF Pieces
  <2>2. /\ held' = h
        /\ Yield(Rest("text", "text") \o <<Event("extra_start", <<seen + 1>>)>>, "upstream")
        /\ UNCHANGED <<heard, completion, refused>>
    BY <1>10 DEF GetExtraStart, Mark
  <2> HIDE DEF h
  <2> QED
    BY <1>1, <1>2, <2>1, <2>2, WholeReceived
<1>11. CASE GetExtraDelta
  <2> DEFINE piece == seen + 1
             all == Append(held["extra"], piece)
  <2>1. heard["extra"] \in Seq(Nat) /\ held["extra"] \in Seq(Nat)
    BY <1>1, <1>2 DEF Pieces
  <2>2. all \in Seq(Nat) /\ Len(all) = Len(held["extra"]) + 1 /\ Len(held["extra"]) \in Nat
    BY <1>2, <2>1, LenProperties
  <2>3. heard' \in Pieces
    <3>1. heard' = [heard EXCEPT !["extra"] = Append(@, piece)]
      BY <1>11 DEF GetExtraDelta
    <3>2. Append(heard["extra"], piece) \in Seq(Nat)
      BY <1>2, <2>1
    <3> QED
      BY <1>2, <3>1, <3>2 DEF Pieces
  <2>4. PICK n \in IF redacting THEN 0..Len(held["extra"]) ELSE {1} :
               /\ held' = [held EXCEPT !["extra"] = SubSeq(all, n + 1, Len(all))]
               /\ Yield(<<Event("extra_delta", SubSeq(all, 1, n))>>, "upstream")
    BY <1>11 DEF GetExtraDelta
  <2>5. n + 1 \in 1..(Len(all) + 1) /\ n \in 0..Len(all) /\ Len(all) \in 0..Len(all)
        /\ 1 \in 1..(Len(all) + 1)
    BY <2>2, <2>4
  <2> HIDE DEF all
  <2>6. SubSeq(all, n + 1, Len(all)) \in Seq(Nat) /\ SubSeq(all, 1, n) \in Seq(Nat)
    BY <2>2, <2>5, CutOK
  <2>7. held' \in Pieces /\ held'["text"] = held["text"]
    BY <1>1, <1>2, <2>4, <2>6 DEF Pieces
  <2>8. completion' = completion /\ refused' = refused
        /\ completion \in BOOLEAN /\ refused \in BOOLEAN
    BY <1>11 DEF GetExtraDelta, TypeOK, ControlOK
  <2>9. <<Event("extra_delta", SubSeq(all, 1, n))>> \in Seq(Events)
    BY <1>1, <2>6 DEF Event, Events
  <2>10. Clean(<<Event("extra_delta", SubSeq(all, 1, n))>>, completion, refused)
    BY <1>1, CleanOne
  <2> QED
    BY <2>3, <2>4, <2>7, <2>8, <2>9, <2>10 DEF Received, Ordered, Yield, Onward
<1>12. CASE GetExtraStop
  <2>1. /\ [held EXCEPT !["extra"] = <<>>] \in Pieces
        /\ [held EXCEPT !["extra"] = <<>>]["text"] = held["text"]
    BY <1>1, Emptied
  <2>2. /\ held' = [held EXCEPT !["extra"] = <<>>]
        /\ Yield(Rest("extra", "extra_delta") \o <<Event("extra_stop", <<seen + 1>>)>>, "upstream")
        /\ UNCHANGED <<heard, completion, refused>>
    BY <1>12 DEF GetExtraStop, Pass, Mark
  <2> QED
    BY <1>1, <1>2, <2>1, <2>2, WholeReceived
<1> QED
  BY <1>3, <1>4, <1>5, <1>6, <1>7, <1>8, <1>9, <1>10, <1>11, <1>12 DEF Receive

\* What every event received leaves alone.
LEMMA ReceiveFrame ==
  ASSUME TypeOK, Receive
  PROVE  /\ pc = "upstream" /\ InputOK'
         /\ UNCHANGED <<surface, dialect, redacting, finished, errored, gone,
                        accounted, debits, said, route>>
<1>1. ASSUME NEW from, NEW c \in {"none", "text", "thinking", "extra"}, Arrives(from, c)
      PROVE  /\ pc = "upstream" /\ InputOK'
             /\ UNCHANGED <<surface, dialect, redacting, finished, errored, gone,
                            accounted, debits, said, route>>
  BY <1>1, StreamAssumption DEF Arrives, TypeOK, InputOK, ending, bill, client
<1>2. \E from : \E c \in {"none", "text", "thinking", "extra"} : Arrives(from, c)
  <2>1. block \in {"none", "text", "thinking", "extra"}
    BY DEF TypeOK, InputOK
  <2>2. CASE GetText \/ GetRefusal \/ GetCitation
    BY <2>2 DEF GetText, GetRefusal, GetCitation
  <2>3. CASE GetThinking
    BY <2>3 DEF GetThinking
  <2>4. CASE GetSignature \/ GetThinkingBlock \/ GetExtraStop
    BY <2>4 DEF GetSignature, GetThinkingBlock, GetExtraStop
  <2>5. CASE GetNote
    BY <2>1, <2>5 DEF GetNote
  <2>6. CASE GetExtraStart \/ GetExtraDelta
    BY <2>6 DEF GetExtraStart, GetExtraDelta
  <2> QED
    BY <2>2, <2>3, <2>4, <2>5, <2>6 DEF Receive
<1> QED
  BY <1>1, <1>2

-----------------------------------------------------------------------------
(* The invariant *)

\* A clean event keeps a clean history clean.
LEMMA CleanAppend ==
  ASSUME NEW es \in Seq(Events), NEW e \in Events, NEW t, NEW r, Clean(es, t, r),
         e.kind \notin Terminal, e.kind = "text" => t, e.kind = "refusal" => r
  PROVE  Clean(Append(es, e), t, r)
<1>1. Len(es) \in Nat /\ DOMAIN es = 1..Len(es)
  BY LenProperties
<1>2. /\ DOMAIN Append(es, e) = 1..(Len(es) + 1)
      /\ \A i \in 1..Len(es) : Append(es, e)[i] = es[i]
      /\ Append(es, e)[Len(es) + 1] = e
  BY <1>1
<1>3. ASSUME NEW i \in 1..(Len(es) + 1)
      PROVE  i \in DOMAIN es \/ i = Len(es) + 1
  BY <1>1
<1> QED
  BY <1>2, <1>3, <1>1 DEF Clean

\* Clean histories satisfy what Ordered says of every history.
LEMMA CleanIsOrdered ==
  ASSUME NEW es, NEW t, NEW r, Clean(es, t, r)
  PROVE  \A i \in DOMAIN es : /\ es[i].kind \in Terminal => i = Len(es)
                              /\ es[i].kind = "text" => t
                              /\ es[i].kind = "refusal" => r
BY DEF Clean

\* The initial states satisfy the invariant.
LEMMA InitIInv == Init => IInv
<1> SUFFICES ASSUME Init PROVE IInv
  OBVIOUS
<1>0. InputOK
  BY StreamAssumption DEF Init, InputOK
<1>1. ControlOK /\ BillOK
  <2>1. completion = FALSE /\ refused = FALSE /\ finished = FALSE /\ errored = FALSE
        /\ gone = FALSE /\ pc = "upstream" /\ then = "upstream"
    BY DEF Init
  <2>2. accounted = 0 /\ debits = 0
    BY DEF Init
  <2>3. BillOK
    BY <2>2 DEF BillOK
  <2>4. FALSE \in BOOLEAN
    OBVIOUS
  <2>5. ControlOK
    BY <2>1, <2>4, Zenon DEF ControlOK
  <2> QED
    BY <2>3, <2>5
<1>2. PiecesOK /\ EventsOK
  BY DEF Init, PiecesOK, EventsOK, Pieces, Nothing
<1>3. Billed
  BY DEF Init, Billed, Streaming
<1>4. Ordered
  BY DEF Init, Ordered, Clean, Nothing, Channels
<1> QED
  BY <1>0, <1>1, <1>2, <1>3, <1>4 DEF IInv, TypeOK

\* Receiving.
LEMMA ReceiveIInv ==
  ASSUME IInv, Receive
  PROVE  IInv'
<1>1. /\ TypeOK /\ Billed /\ Ordered
      /\ Received
      /\ pc = "upstream" /\ InputOK'
      /\ UNCHANGED <<surface, dialect, redacting, finished, errored, gone,
                     accounted, debits, said, route>>
  BY ReceiveClean, ReceiveFrame DEF IInv
<1>2. TypeOK'
  <2>1. PiecesOK' /\ EventsOK'
    BY <1>1 DEF PiecesOK, EventsOK, Received, TypeOK
  <2>2. ControlOK'
    BY <1>1 DEF ControlOK, Received, TypeOK, Onward
  <2>3. BillOK'
    BY <1>1 DEF BillOK, TypeOK
  <2> QED
    BY <1>1, <2>1, <2>2, <2>3 DEF TypeOK
<1>3. Billed'
  BY <1>1 DEF Billed, Streaming, Received, Onward
<1>4. Ordered'
  <2>1. pc' \in {"upstream", "client"} /\ then' = "upstream"
        /\ (pc' = "client" => out' # <<>>)
    BY <1>1 DEF Received, Onward
  <2>2. Clean(said, completion, refused)
    BY <1>1 DEF Ordered
  <2>3. Clean(said', completion', refused')
    BY <1>1, <2>2 DEF Clean, Received
  <2>4. /\ held'["text"] # <<>> => completion'
        /\ Clean(out', completion', refused')
    BY <1>1 DEF Received
  <2> QED
    BY <2>1, <2>3, <2>4, CleanIsOrdered DEF Ordered
<1> QED
  BY <1>2, <1>3, <1>4 DEF IInv

\* Delivering an event.
LEMMA DeliverIInv ==
  ASSUME IInv, Deliver
  PROVE  IInv'
<1>1. TypeOK /\ Billed /\ Ordered
  BY DEF IInv
<1>2. /\ pc = "client" /\ out # <<>>
      /\ said' = Append(said, Head(out)) /\ out' = Tail(out)
      /\ pc' = (IF Tail(out) = <<>> THEN then ELSE "client")
      /\ UNCHANGED <<surface, dialect, redacting, seen, block, heard, held, completion,
                     refused, finished, errored, gone, then, accounted, debits>>
  BY <1>1 DEF Deliver, Ordered, upstream, answer, ending, bill
<1>3. /\ out \in Seq(Events) /\ said \in Seq(Events)
      /\ then \in {"upstream", "finishing", "ending"}
  BY <1>1 DEF TypeOK, EventsOK, ControlOK
<1>4. /\ Head(out) \in Events /\ Tail(out) \in Seq(Events)
      /\ Len(Tail(out)) = Len(out) - 1
      /\ \A i \in 1..Len(Tail(out)) : Tail(out)[i] = out[i + 1]
      /\ Len(out) \in Nat \ {0} /\ DOMAIN out = 1..Len(out)
      /\ Len(Tail(out)) \in Nat /\ DOMAIN Tail(out) = 1..Len(Tail(out))
      /\ Head(out) = out[1]
  BY <1>2, <1>3, HeadTailProperties, LenProperties, EmptySeq
<1>5. Len(said) \in Nat /\ DOMAIN said = 1..Len(said) /\ said' \in Seq(Events)
      /\ Len(said') = Len(said) + 1 /\ DOMAIN said' = 1..(Len(said) + 1)
      /\ (\A i \in 1..Len(said) : said'[i] = said[i]) /\ said'[Len(said) + 1] = Head(out)
  BY <1>2, <1>3, <1>4, LenProperties
<1>6. TypeOK'
  <2>1. InputOK'
    BY <1>1, <1>2 DEF InputOK, TypeOK
  <2>2. PiecesOK' /\ EventsOK'
    BY <1>1, <1>2, <1>4, <1>5 DEF PiecesOK, EventsOK, TypeOK
  <2>3. ControlOK' /\ BillOK'
    BY <1>1, <1>2, <1>3 DEF ControlOK, BillOK, TypeOK
  <2> QED
    BY <2>1, <2>2, <2>3 DEF TypeOK
<1>7. Billed'
  BY <1>1, <1>2, <1>3 DEF Billed, Streaming
<1>8. Clean(said, completion, refused)
  BY <1>1, <1>2 DEF Ordered
<1>9. CASE then # "ending"
  <2>1. Clean(out, completion, refused)
    BY <1>1, <1>2, <1>9 DEF Ordered
  <2>2. Clean(Tail(out), completion, refused)
    <3>1. \A i \in DOMAIN Tail(out) : i + 1 \in DOMAIN out /\ Tail(out)[i] = out[i + 1]
      BY <1>4
    <3> QED
      BY <2>1, <3>1 DEF Clean
  <2>3. Clean(said', completion, refused)
    <3>1. 1 \in DOMAIN out
      BY <1>4
    <3> QED
      BY <1>2, <1>3, <1>4, <1>8, <2>1, <3>1, CleanAppend DEF Clean
  <2>4. pc' \in {"upstream", "finishing", "client"} /\ (pc' = "client" => Tail(out) # <<>>)
    BY <1>2, <1>3, <1>9
  <2>5. Ordered'
    <3>1. \A i \in DOMAIN said' : /\ said'[i].kind \in Terminal => i = Len(said')
                                  /\ said'[i].kind = "text" => completion
                                  /\ said'[i].kind = "refusal" => refused
      BY <2>3, CleanIsOrdered
    <3> QED
      BY <1>1, <1>2, <1>9, <2>2, <2>3, <2>4, <3>1 DEF Ordered
  <2> QED
    BY <1>6, <1>7, <2>5 DEF IInv
<1>10. CASE then = "ending"
  <2>1. Len(out) = 1 /\ out[1].kind \in Terminal
    BY <1>1, <1>2, <1>10 DEF Ordered
  <2>2. pc' = "ending" /\ said'[Len(said')].kind \in Terminal /\ said' # <<>>
    <3>1. Tail(out) = <<>>
      <4>1. Len(Tail(out)) = 0
        BY <1>4, <2>1
      <4>2. \A es \in Seq(Events) : es # <<>> => Len(es) \in Nat \ {0}
        BY EmptySeq
      <4> QED
        BY <1>4, <4>1, <4>2
    <3> QED
      BY <1>2, <1>4, <1>5, <1>10, <2>1, <3>1
  <2>3. ASSUME NEW i \in DOMAIN said'
        PROVE  /\ said'[i].kind \in Terminal => i = Len(said')
               /\ said'[i].kind = "text" => completion
               /\ said'[i].kind = "refusal" => refused
    <3>1. CASE i = Len(said')
      BY <1>4, <1>5, <2>1, <2>2, <3>1 DEF Terminal
    <3>2. CASE i # Len(said')
      <4>1. i \in DOMAIN said /\ said'[i] = said[i]
        BY <1>5, <3>2
      <4> QED
        BY <1>8, <4>1 DEF Clean
    <3> QED
      BY <3>1, <3>2
  <2>4. Ordered'
    BY <1>1, <1>2, <2>2, <2>3 DEF Ordered
  <2> QED
    BY <1>6, <1>7, <2>4 DEF IInv
<1> QED
  BY <1>9, <1>10

\* Upstream has ended: the tails of the four channels are clean.
LEMMA EndsIInv ==
  ASSUME IInv, Ends
  PROVE  IInv'
<1>1. TypeOK /\ Billed /\ Ordered
  BY DEF IInv
<1> DEFINE tails == Rest("text", "text") \o Rest("thinking", "thinking")
                    \o Rest("refusal", "refusal") \o Rest("extra", "extra_delta")
<1>2. /\ pc = "upstream" /\ held' = Nothing
      /\ refused' = (refused \/ held["refusal"] # <<>>)
      /\ out' = tails /\ then' = "finishing"
      /\ pc' = (IF tails = <<>> THEN "finishing" ELSE "client")
      /\ UNCHANGED <<surface, dialect, redacting, seen, block, heard, completion,
                     finished, errored, gone, accounted, debits, said>>
  BY DEF Ends, Yield, upstream, ending, bill, client
<1>3. completion \in BOOLEAN /\ refused \in BOOLEAN /\ refused' \in BOOLEAN
      /\ (refused => refused')
  BY <1>1, <1>2 DEF TypeOK, ControlOK
<1>4. /\ Channels = {"text", "thinking", "refusal", "extra"}
      /\ {"text", "thinking", "refusal", "extra_delta"} \subseteq Kinds \ Terminal
  BY DEF Channels, Kinds, Terminal
<1>5. tails \in Seq(Events) /\ Clean(tails, completion, refused')
  <2>1. /\ held["text"] # <<>> => completion
        /\ held["refusal"] # <<>> => refused'
    BY <1>1, <1>2 DEF Ordered
  <2>2. Rest("text", "text") \in Seq(Events)
        /\ Clean(Rest("text", "text"), completion, refused')
    BY <1>1, <1>4, <2>1, RestClean
  <2>3. Rest("thinking", "thinking") \in Seq(Events)
        /\ Clean(Rest("thinking", "thinking"), completion, refused')
    BY <1>1, <1>4, <2>1, RestClean
  <2>4. Rest("refusal", "refusal") \in Seq(Events)
        /\ Clean(Rest("refusal", "refusal"), completion, refused')
    BY <1>1, <1>4, <2>1, RestClean
  <2>5. Rest("extra", "extra_delta") \in Seq(Events)
        /\ Clean(Rest("extra", "extra_delta"), completion, refused')
    BY <1>1, <1>4, <2>1, RestClean
  <2>6. /\ Rest("text", "text") \o Rest("thinking", "thinking") \in Seq(Events)
        /\ Clean(Rest("text", "text") \o Rest("thinking", "thinking"), completion, refused')
    BY <2>2, <2>3, CleanConcat
  <2>7. /\ (Rest("text", "text") \o Rest("thinking", "thinking"))
              \o Rest("refusal", "refusal") \in Seq(Events)
        /\ Clean((Rest("text", "text") \o Rest("thinking", "thinking"))
                    \o Rest("refusal", "refusal"), completion, refused')
    BY <2>4, <2>6, CleanConcat
  <2> QED
    BY <2>5, <2>7, CleanConcat
<1> HIDE DEF tails
<1>6. TypeOK'
  <2>1. InputOK'
    BY <1>1, <1>2 DEF InputOK, TypeOK
  <2>2. PiecesOK' /\ EventsOK'
    BY <1>1, <1>2, <1>5 DEF PiecesOK, EventsOK, TypeOK, Pieces, Nothing
  <2>3. ControlOK' /\ BillOK'
    BY <1>1, <1>2, <1>3 DEF ControlOK, BillOK, TypeOK
  <2> QED
    BY <2>1, <2>2, <2>3 DEF TypeOK
<1>7. Billed'
  BY <1>1, <1>2 DEF Billed, Streaming
<1>8. Ordered'
  <2>1. pc' \in {"finishing", "client"} /\ (pc' = "client" => out' # <<>>)
    BY <1>2
  <2>2. Clean(said', completion', refused')
    BY <1>1, <1>2, <1>3 DEF Ordered, Clean
  <2>3. held'["text"] = <<>>
    BY <1>2, <1>4 DEF Nothing
  <2> QED
    BY <1>2, <1>5, <2>1, <2>2, <2>3, CleanIsOrdered DEF Ordered
<1> QED
  BY <1>6, <1>7, <1>8 DEF IInv

\* Steps that yield at most a terminal event preserve the invariant if they
\* preserve the types and the bill.
LEMMA ClosingOrdered ==
  ASSUME IInv, UNCHANGED <<held, completion, refused, said, gone>>,
         pc \in {"upstream", "finishing", "crediting", "parking"},
         \/ pc' = "crediting" \/ pc' = "parking"
         \/ /\ pc' = "client" /\ then' = "ending"
            /\ \E k \in Terminal : out' = Whole(k)
         \/ pc' = "over" /\ ~finished' /\ ~errored'
  PROVE  Ordered'
<1>1. Ordered
  BY DEF IInv
<1>2. Clean(said, completion, refused)
  BY <1>1 DEF Ordered
<1>3. ASSUME NEW k \in Terminal
      PROVE  Whole(k) # <<>> /\ Len(Whole(k)) = 1 /\ Whole(k)[1].kind = k
  BY DEF Whole, Event
<1> QED
  BY <1>1, <1>2, <1>3, CleanIsOrdered DEF Ordered

LEMMA FinishIInv ==
  ASSUME IInv, Finish
  PROVE  IInv'
<1>1. TypeOK /\ Billed /\ Ordered
  BY DEF IInv
<1>2. /\ pc = "finishing" /\ finished' = TRUE /\ accounted' = accounted + 1
      /\ pc' = "crediting"
      /\ UNCHANGED <<surface, dialect, redacting, seen, block, heard, held, completion,
                     refused, errored, gone, out, then, debits, said, route>>
  BY DEF Finish, upstream, answer, client
<1>3. accounted = 0 /\ debits = 0 /\ ~errored
  BY <1>1, <1>2 DEF Billed, Streaming, TypeOK, BillOK
<1>4. TypeOK'
  BY <1>1, <1>2, <1>3 DEF TypeOK, InputOK, PiecesOK, EventsOK, ControlOK, BillOK
<1>5. Billed'
  BY <1>2, <1>3 DEF Billed, Streaming
<1>6. Ordered'
  BY <1>2, ClosingOrdered
<1> QED
  BY <1>4, <1>5, <1>6 DEF IInv

LEMMA CreditIInv ==
  ASSUME IInv, Credit
  PROVE  IInv'
<1>1. TypeOK /\ Billed /\ Ordered
  BY DEF IInv
<1>2. /\ pc = "crediting" /\ debits' = debits + 1
      /\ UNCHANGED <<surface, dialect, redacting, seen, block, heard, held, completion,
                     refused, finished, errored, gone, accounted, said, route>>
  BY DEF Credit, upstream, answer, ending, client
<1>3. accounted = 1 /\ debits = 0 /\ ~errored
  BY <1>1, <1>2 DEF Billed
<1>4. \/ /\ finished /\ pc' = "client" /\ then' = "ending"
         /\ \E k \in Terminal : out' = Whole(k)
      \/ ~finished /\ pc' = "over" /\ UNCHANGED <<out, then>>
  BY DEF Credit, Yield, Whole, Terminal
<1>5. TypeOK'
  <2>1. \A k \in Terminal : Whole(k) \in Seq(Events)
    BY DEF Whole, Event, Events, Terminal, Kinds
  <2>2. EventsOK'
    BY <1>1, <1>2, <1>4, <2>1 DEF EventsOK, TypeOK
  <2>3. ControlOK' /\ BillOK'
    BY <1>1, <1>2, <1>3, <1>4 DEF ControlOK, BillOK, TypeOK
  <2> QED
    BY <1>1, <1>2, <2>2, <2>3 DEF TypeOK, InputOK, PiecesOK
<1>6. Billed'
  BY <1>1, <1>2, <1>3, <1>4 DEF Billed, Streaming
<1>7. Ordered'
  BY <1>2, <1>3, <1>4, ClosingOrdered
<1> QED
  BY <1>5, <1>6, <1>7 DEF IInv

LEMMA FailsIInv ==
  ASSUME IInv, Fails \/ Park
  PROVE  IInv'
<1>1. TypeOK /\ Billed /\ Ordered
  BY DEF IInv
<1>2. /\ pc \in {"upstream", "parking"}
      /\ errored' = TRUE
      /\ UNCHANGED <<surface, dialect, redacting, seen, block, heard, held, completion,
                     refused, finished, gone, accounted, debits, said, route>>
  BY <1>1 DEF Fails, Park, Billed, upstream, answer, ending, bill, client, TypeOK, ControlOK
<1>3. accounted = 0 /\ debits = 0 /\ ~finished
  BY <1>1, <1>2 DEF Billed, Streaming, TypeOK, BillOK
<1>4. \/ pc' = "parking" /\ UNCHANGED <<out, then>>
      \/ pc' = "client" /\ then' = "ending" /\ out' = Whole("error")
  BY DEF Fails, Park, Yield, Whole
<1>5. TypeOK'
  <2>1. Whole("error") \in Seq(Events)
    BY DEF Whole, Event, Events, Kinds
  <2> QED
    BY <1>1, <1>2, <1>4, <2>1
       DEF TypeOK, InputOK, PiecesOK, EventsOK, ControlOK, BillOK
<1>6. Billed'
  BY <1>2, <1>3, <1>4 DEF Billed, Streaming
<1>7. Ordered'
  BY <1>2, <1>4, ClosingOrdered DEF Terminal
<1> QED
  BY <1>5, <1>6, <1>7 DEF IInv

LEMMA EndIInv ==
  ASSUME IInv, End
  PROVE  IInv'
<1>1. TypeOK /\ Billed /\ Ordered
  BY DEF IInv
<1>2. /\ pc = "ending" /\ pc' = "over"
      /\ UNCHANGED <<surface, dialect, redacting, seen, block, heard, held, completion,
                     refused, finished, errored, gone, out, then, accounted, debits, said>>
  BY DEF End, upstream, answer, ending, bill
<1>3. TypeOK'
  BY <1>1, <1>2 DEF TypeOK, InputOK, PiecesOK, EventsOK, ControlOK, BillOK
<1>4. Billed'
  BY <1>1, <1>2 DEF Billed, Streaming
<1>5. Ordered'
  BY <1>1, <1>2 DEF Ordered
<1> QED
  BY <1>3, <1>4, <1>5 DEF IInv

\* The finally of a generator left early.
LEMMA AbandonIInv ==
  ASSUME IInv, Leave \/ Breaks
  PROVE  IInv'
<1>1. TypeOK /\ Billed /\ Ordered
  BY DEF IInv
<1>2. /\ pc # "over"
      /\ gone' = TRUE \/ (gone' = gone /\ pc = "upstream")
      /\ UNCHANGED <<surface, dialect, redacting, seen, block, heard, held, completion,
                     refused, finished, errored, out, then, debits, said, route>>
  BY DEF Leave, Breaks, Abandon, upstream, answer, client
<1>3. \/ /\ ~finished /\ ~errored /\ pc # "crediting" /\ (completion \/ refused)
         /\ accounted' = accounted + 1 /\ pc' = "crediting"
      \/ /\ finished \/ errored \/ pc = "crediting" \/ (~completion /\ ~refused)
         /\ accounted' = accounted /\ pc' = "over"
  BY DEF Leave, Breaks, Abandon
<1>4. pc # "crediting" /\ ~finished /\ ~errored => accounted = 0 /\ debits = 0
  BY <1>1, <1>2 DEF Billed, TypeOK, BillOK
<1>5. gone' \in BOOLEAN /\ accounted' \in 0..1 /\ debits \in 0..accounted'
  <2>1. gone' \in BOOLEAN
    BY <1>1, <1>2 DEF TypeOK, ControlOK
  <2>2. accounted \in 0..1 /\ debits \in 0..accounted
    BY <1>1 DEF TypeOK, BillOK
  <2>3. CASE accounted' = accounted
    BY <2>1, <2>2, <2>3
  <2>4. CASE accounted' = accounted + 1 /\ ~finished /\ ~errored /\ pc # "crediting"
    BY <1>4, <2>1, <2>2, <2>4
  <2> QED
    BY <1>3, <2>3, <2>4
<1>6. TypeOK'
  BY <1>1, <1>2, <1>3, <1>5 DEF TypeOK, InputOK, PiecesOK, EventsOK, ControlOK, BillOK
<1>7. Billed'
  BY <1>1, <1>2, <1>3, <1>4 DEF Billed, Streaming
<1>8. Ordered'
  <2>1. gone' = FALSE => ~finished /\ ~errored
    BY <1>1, <1>2 DEF Billed, Streaming
  <2>2. pc' = "crediting" => Clean(said, completion, refused)
    <3>1. pc' = "crediting" => pc \notin {"ending", "over"}
      BY <1>1, <1>2, <1>3 DEF Billed
    <3> QED
      BY <1>1, <3>1 DEF Ordered
  <2>3. pc' \in {"crediting", "over"} /\ (gone' \in BOOLEAN)
    BY <1>3, <1>5
  <2> QED
    BY <1>1, <1>2, <2>1, <2>2, <2>3 DEF Ordered
<1> QED
  BY <1>6, <1>7, <1>8 DEF IInv

LEMMA NextIInv ==
  ASSUME IInv, [Next]_vars
  PROVE  IInv'
<1>1. CASE Receive
  BY <1>1, ReceiveIInv
<1>2. CASE Deliver
  BY <1>2, DeliverIInv
<1>3. CASE Ends
  BY <1>3, EndsIInv
<1>4. CASE Finish
  BY <1>4, FinishIInv
<1>5. CASE Credit
  BY <1>5, CreditIInv
<1>6. CASE Fails \/ Park
  BY <1>6, FailsIInv
<1>7. CASE End
  BY <1>7, EndIInv
<1>8. CASE Leave \/ Breaks
  BY <1>8, AbandonIInv
<1>9. CASE UNCHANGED vars
  <2>1. UNCHANGED <<surface, dialect, redacting, seen, block, heard, held, completion,
                    refused, finished, errored, gone, pc, out, then, accounted, debits, said>>
    BY <1>9 DEF vars, upstream, answer, ending, bill, client
  <2>2. TypeOK'
    BY <2>1 DEF IInv, TypeOK, InputOK, PiecesOK, EventsOK, ControlOK, BillOK
  <2>3. Billed'
    BY <2>1 DEF IInv, Billed, Streaming
  <2>4. Ordered'
    BY <2>1 DEF IInv, Ordered
  <2> QED
    BY <2>2, <2>3, <2>4 DEF IInv
<1> QED
  BY <1>1, <1>2, <1>3, <1>4, <1>5, <1>6, <1>7, <1>8, <1>9 DEF Next

-----------------------------------------------------------------------------
(* Theorems *)

LEMMA Inductive == Spec => []IInv
<1>1. IInv /\ [Next]_vars => IInv'
  BY NextIInv
<1> QED
  BY InitIInv, <1>1, PTL DEF Spec

\* Types hold, and with them that a stream is accounted for, and its credit
\* debited, at most once (the two calls of _record_stream_accounting).
THEOREM TypeCorrect == Spec => []TypeOK
<1>1. IInv => TypeOK
  BY DEF IInv
<1> QED
  BY <1>1, Inductive, PTL

\* However the stream ends short of a provider error, an answer whose text or
\* refusal the client was sent is accounted for (the finally of the generator).
THEOREM AnswersAreAccounted == Spec => []EveryAnswerIsAccounted
<1>1. IInv => EveryAnswerIsAccounted
  <2> SUFFICES ASSUME IInv, pc = "over", ~errored,
                      NEW e \in Members(said), e.kind \in {"text", "refusal"}
               PROVE  accounted = 1
    BY DEF EveryAnswerIsAccounted
  <2>1. PICK i \in DOMAIN said : e = said[i]
    BY DEF Members
  <2>2. completion \/ refused
    BY <2>1 DEF IInv, Ordered
  <2> QED
    BY <2>2 DEF IInv, Billed
<1> QED
  BY <1>1, Inductive, PTL

\* A stream yields nothing after a terminal event, and one that keeps its client
\* and does not break yields one (the event contract of _handle_chat_stream).
THEOREM EndsOnce == Spec => []OneTerminal
<1>1. IInv => OneTerminal
  BY DEF IInv, Ordered, OneTerminal
<1> QED
  BY <1>1, Inductive, PTL

-----------------------------------------------------------------------------
(* The pieces of the channels, from the redactors to the client *)

\* The kind of event that brings the client the pieces of a channel.
Told(c) == IF c = "extra" THEN "extra_delta" ELSE c

Below(ps, qs) == \A p \in Members(ps), q \in Members(qs) : p < q
Rising(ps) == \A m, n \in DOMAIN ps : m < n => ps[m] < ps[n]

\* The kinds of which an event that comes before has the earlier pieces.
Precedes == {<<"text", "text">>, <<"thinking", "thinking">>, <<"refusal", "refusal">>,
             <<"extra_delta", "extra_delta">>, <<"extra_start", "text">>,
             <<"signature", "thinking">>, <<"text", "thinking">>}
Sorted(es) ==
  /\ \A i \in DOMAIN es : Rising(es[i].pieces)
  /\ \A i, j \in DOMAIN es : i < j /\ <<es[i].kind, es[j].kind>> \in Precedes
       => Below(es[i].pieces, es[j].pieces)

\* What is held comes after what was yielded.
Ahead(es, h) ==
  /\ \A c \in Channels : Rising(h[c])
  /\ Below(h["text"], h["thinking"])
  /\ \A i \in DOMAIN es : \A c \in Channels :
       <<es[i].kind, Told(c)>> \in Precedes => Below(es[i].pieces, h[c])
UpToNow(es, h, s) ==
  /\ \A i \in DOMAIN es : \A p \in Members(es[i].pieces) : p <= s
  /\ \A c \in Channels : \A p \in Members(h[c]) : p <= s

\* Every piece heard is held or was yielded, and no other is.
Covers(es, h, hd) ==
  \A c \in Channels : \A p \in Nat :
    p \in Members(hd[c])
      <=> \/ p \in Members(h[c])
          \/ \E i \in DOMAIN es : es[i].kind = Told(c) /\ p \in Members(es[i].pieces)

\* After es was yielded and h is held, of hd heard in s events.
Flow(es, h, hd, s) ==
  /\ es \in Seq(Events) /\ h \in Pieces /\ hd \in Pieces /\ s \in Nat
  /\ Sorted(es) /\ Ahead(es, h) /\ UpToNow(es, h, s) /\ Covers(es, h, hd)

\* The members of sequences.
LEMMA MembersAppend ==
  ASSUME NEW ps \in Seq(Nat), NEW x \in Nat
  PROVE  /\ Append(ps, x) \in Seq(Nat) /\ Append(ps, x) # <<>>
         /\ Members(Append(ps, x)) = Members(ps) \union {x}
         /\ Rising(ps) /\ (\A p \in Members(ps) : p < x) => Rising(Append(ps, x))
<1> DEFINE qs == Append(ps, x)
<1>1. /\ Len(ps) \in Nat /\ DOMAIN ps = 1..Len(ps)
      /\ qs \in Seq(Nat) /\ DOMAIN qs = 1..(Len(ps) + 1) /\ qs # <<>>
      /\ \A i \in 1..Len(ps) : qs[i] = ps[i]
      /\ qs[Len(ps) + 1] = x
  BY LenProperties
<1> HIDE DEF qs
<1>2. \A i \in DOMAIN qs : i \in DOMAIN ps \/ i = Len(ps) + 1
  BY <1>1
<1>3. Members(qs) = Members(ps) \union {x}
  <2>1. \A p \in Members(qs) : p \in Members(ps) \union {x}
    BY <1>1, <1>2 DEF Members
  <2>2. \A p \in Members(ps) : p \in Members(qs)
    BY <1>1 DEF Members
  <2>3. x \in Members(qs)
    BY <1>1 DEF Members
  <2> QED
    BY <2>1, <2>2, <2>3
<1>4. ASSUME Rising(ps), \A p \in Members(ps) : p < x
      PROVE  Rising(qs)
  <2>1. \A i \in DOMAIN ps : ps[i] < x
    BY <1>4 DEF Members
  <2> QED
    BY <1>1, <1>2, <1>4, <2>1 DEF Rising
<1> QED
  BY <1>1, <1>3, <1>4 DEF qs

\* No piece is in an empty sequence.
LEMMA MembersEmpty == Members(<<>>) = {} /\ Rising(<<>>)
BY DEF Members, Rising

\* Pieces are numbers.
LEMMA MembersNat ==
  ASSUME NEW ps \in Seq(Nat)
  PROVE  Members(ps) \subseteq Nat
BY LenProperties DEF Members

\* A sequence cut in two.
LEMMA MembersCut ==
  ASSUME NEW ps \in Seq(Nat), Rising(ps), NEW n \in 0..Len(ps)
  PROVE  LET a == SubSeq(ps, 1, n)
             b == SubSeq(ps, n + 1, Len(ps))
         IN /\ a \in Seq(Nat) /\ b \in Seq(Nat)
            /\ Members(ps) = Members(a) \union Members(b)
            /\ Rising(a) /\ Rising(b) /\ Below(a, b)
<1> DEFINE a == SubSeq(ps, 1, n)
           b == SubSeq(ps, n + 1, Len(ps))
<1>1. /\ Len(ps) \in Nat /\ DOMAIN ps = 1..Len(ps) /\ n \in Nat /\ n <= Len(ps)
      /\ \A i \in 1..Len(ps) : ps[i] \in Nat
  BY LenProperties, ElementOfSeq
<1>2. /\ a \in Seq(Nat) /\ Len(a) = n /\ DOMAIN a = 1..n
      /\ \A i \in 1..n : a[i] = ps[i]
  <2>1. \A i \in 1..n : ps[i] \in Nat
    BY <1>1
  <2>2. /\ a \in Seq(Nat) /\ Len(a) = IF 1 <= n THEN n - 1 + 1 ELSE 0
        /\ \A i \in 1..(n - 1 + 1) : a[i] = ps[1 + i - 1]
    BY <1>1, <2>1, SubSeqProperties
  <2>3. DOMAIN a = 1..Len(a)
    BY <2>2, LenProperties
  <2> HIDE DEF a
  <2> QED
    BY <1>1, <2>2, <2>3
<1>3. /\ b \in Seq(Nat) /\ Len(b) = Len(ps) - n /\ DOMAIN b = 1..(Len(ps) - n)
      /\ \A i \in 1..(Len(ps) - n) : b[i] = ps[n + i]
  <2>1. \A i \in (n + 1)..Len(ps) : ps[i] \in Nat
    BY <1>1
  <2>2. /\ b \in Seq(Nat) /\ Len(b) = IF n + 1 <= Len(ps) THEN Len(ps) - (n + 1) + 1 ELSE 0
        /\ \A i \in 1..(Len(ps) - (n + 1) + 1) : b[i] = ps[(n + 1) + i - 1]
    BY <1>1, <2>1, SubSeqProperties
  <2>3. DOMAIN b = 1..Len(b)
    BY <2>2, LenProperties
  <2> HIDE DEF b
  <2>4. Len(b) = Len(ps) - n
    <3>1. CASE n = Len(ps)
      <4>1. ~(n + 1 <= Len(ps)) /\ Len(ps) - n = 0
        BY <1>1, <3>1
      <4> QED
        BY <2>2, <4>1
    <3>2. CASE n # Len(ps)
      <4>1. \A l \in Nat : n <= l /\ n # l => n + 1 <= l /\ l - (n + 1) + 1 = l - n
        BY <1>1
      <4>2. n + 1 <= Len(ps) /\ Len(ps) - (n + 1) + 1 = Len(ps) - n
        BY <1>1, <3>2, <4>1
      <4> QED
        BY <2>2, <4>2
    <3> QED
      BY <3>1, <3>2
  <2>5. ASSUME NEW i \in 1..(Len(ps) - n)
        PROVE  b[i] = ps[n + i]
    <3>1. i \in 1..(Len(ps) - (n + 1) + 1) /\ (n + 1) + i - 1 = n + i
      BY <1>1
    <3>2. b[i] = ps[(n + 1) + i - 1]
      BY <2>2, <3>1
    <3> QED
      BY <3>1, <3>2
  <2> QED
    BY <2>2, <2>3, <2>4, <2>5
<1> HIDE DEF a, b
<1>4. \A i \in DOMAIN a : i \in DOMAIN ps /\ a[i] = ps[i] /\ i <= n
  BY <1>1, <1>2
<1>5. ASSUME NEW i \in DOMAIN b
      PROVE  n + i \in DOMAIN ps /\ b[i] = ps[n + i] /\ i \in Int /\ i > 0
  <2>1. i \in 1..(Len(ps) - n)
    BY <1>3
  <2>2. n + i \in DOMAIN ps /\ i \in Int /\ i > 0
    BY <1>1, <2>1
  <2> QED
    BY <1>3, <2>1, <2>2
<1>6. \A i \in DOMAIN ps : i \in DOMAIN a \/ (i - n \in DOMAIN b /\ b[i - n] = ps[i])
  BY <1>1, <1>2, <1>3
<1>7. Members(ps) = Members(a) \union Members(b)
  <2>1. \A p \in Members(a) : p \in Members(ps)
    BY <1>4 DEF Members
  <2>2. \A p \in Members(b) : p \in Members(ps)
    BY <1>5 DEF Members
  <2>3. \A p \in Members(ps) : p \in Members(a) \/ p \in Members(b)
    BY <1>4, <1>6 DEF Members
  <2> QED
    BY <2>1, <2>2, <2>3
<1>8. Rising(a)
  BY <1>4 DEF Rising
<1>9. Rising(b)
  BY <1>1, <1>5 DEF Rising
<1>10. Below(a, b)
  <2> SUFFICES ASSUME NEW i \in DOMAIN a, NEW j \in DOMAIN b
               PROVE  a[i] < b[j]
    BY DEF Below, Members
  <2>1. i < n + j
    BY <1>1, <1>2, <1>3
  <2> QED
    BY <1>4, <1>5, <2>1 DEF Rising
<1> QED
  BY <1>2, <1>3, <1>7, <1>8, <1>9, <1>10 DEF a, b

\* The kinds that tell a channel's pieces are those of the channels.
LEMMA ToldKinds ==
  /\ \A c \in Channels : Told(c) \in Kinds
  /\ \A c, d \in Channels : Told(c) = Told(d) => c = d
  /\ \A c \in Channels : <<Told(c), Told(c)>> \in Precedes
  /\ \A c, d \in Channels : <<Told(c), Told(d)>> \in Precedes
       => c = d \/ (c = "text" /\ d = "thinking")
  /\ \A k, l : <<k, l>> \in Precedes => \E c \in Channels : l = Told(c)
BY DEF Told, Channels, Kinds, Precedes

\* The members are numbers.
LEMMA FlowNat ==
  ASSUME NEW es, NEW h, NEW hd, NEW s, Flow(es, h, hd, s)
  PROVE  /\ \A i \in DOMAIN es : es[i] \in Events /\ Members(es[i].pieces) \subseteq Nat
         /\ \A c \in Channels : /\ h[c] \in Seq(Nat) /\ hd[c] \in Seq(Nat)
                                /\ Members(h[c]) \subseteq Nat /\ Members(hd[c]) \subseteq Nat
<1>1. es \in Seq(Events) /\ h \in Pieces /\ hd \in Pieces
  BY DEF Flow
<1>2. ASSUME NEW i \in DOMAIN es
      PROVE  es[i] \in Events /\ Members(es[i].pieces) \subseteq Nat
  <2>1. es[i] \in Events
    BY <1>1, LenProperties, ElementOfSeq
  <2>2. es[i].pieces \in Seq(Nat)
    BY <2>1 DEF Events
  <2> QED
    BY <2>1, <2>2, MembersNat
<1>3. ASSUME NEW c \in Channels
      PROVE  h[c] \in Seq(Nat) /\ hd[c] \in Seq(Nat)
  BY <1>1 DEF Pieces
<1>4. ASSUME NEW c \in Channels
      PROVE  Members(h[c]) \subseteq Nat /\ Members(hd[c]) \subseteq Nat
  BY <1>3, MembersNat
<1> QED
  BY <1>2, <1>3, <1>4

\* Time passes.
LEMMA FlowLater ==
  ASSUME NEW es, NEW h, NEW hd, NEW s, Flow(es, h, hd, s), NEW n \in Nat, s <= n
  PROVE  Flow(es, h, hd, n)
<1>1. s \in Nat /\ UpToNow(es, h, s)
  BY DEF Flow
<1>2. ASSUME NEW i \in DOMAIN es, NEW p \in Members(es[i].pieces)
      PROVE  p <= n
  <2>1. p \in Nat
    BY FlowNat
  <2>2. p <= s
    BY <1>1 DEF UpToNow
  <2> QED
    BY <1>1, <2>1, <2>2
<1>3. ASSUME NEW c \in Channels, NEW p \in Members(h[c])
      PROVE  p <= n
  <2>1. p \in Nat
    BY FlowNat
  <2>2. p <= s
    BY <1>1 DEF UpToNow
  <2> QED
    BY <1>1, <2>1, <2>2
<1>4. UpToNow(es, h, n)
  BY <1>2, <1>3 DEF UpToNow
<1> QED
  BY <1>4 DEF Flow

\* A piece comes; no thinking is held when it is of the text.
LEMMA FlowHear ==
  ASSUME NEW es, NEW h, NEW hd, NEW s, Flow(es, h, hd, s),
         NEW n \in Nat, s < n, NEW c \in Channels, c = "text" => h["thinking"] = <<>>
  PROVE  Flow(es, [h EXCEPT ![c] = Append(@, n)], [hd EXCEPT ![c] = Append(@, n)], n)
<1> DEFINE g == [h EXCEPT ![c] = Append(@, n)]
           gd == [hd EXCEPT ![c] = Append(@, n)]
<1>1. /\ es \in Seq(Events) /\ h \in Pieces /\ hd \in Pieces /\ s \in Nat
      /\ Sorted(es) /\ Ahead(es, h) /\ UpToNow(es, h, s) /\ Covers(es, h, hd)
  BY DEF Flow
<1>2. /\ \A d \in Channels : \A p \in Members(h[d]) : p \in Nat /\ p <= s /\ p < n /\ p <= n
      /\ \A i \in DOMAIN es : \A p \in Members(es[i].pieces) :
           p \in Nat /\ p <= s /\ p < n /\ p <= n
  <2>1. ASSUME NEW d \in Channels, NEW p \in Members(h[d])
        PROVE  p \in Nat /\ p <= s /\ p < n /\ p <= n
    <3>1. p \in Nat
      BY FlowNat
    <3>2. p <= s
      BY <1>1 DEF UpToNow
    <3> QED
      BY <1>1, <3>1, <3>2
  <2>2. ASSUME NEW i \in DOMAIN es, NEW p \in Members(es[i].pieces)
        PROVE  p \in Nat /\ p <= s /\ p < n /\ p <= n
    <3>1. p \in Nat
      BY FlowNat
    <3>2. p <= s
      BY <1>1 DEF UpToNow
    <3> QED
      BY <1>1, <3>1, <3>2
  <2> QED
    BY <2>1, <2>2
<1>3. /\ Append(h[c], n) \in Seq(Nat) /\ Append(hd[c], n) \in Seq(Nat)
      /\ Members(Append(h[c], n)) = Members(h[c]) \union {n}
      /\ Members(Append(hd[c], n)) = Members(hd[c]) \union {n}
      /\ Rising(Append(h[c], n))
  <2>1. \A p \in Members(h[c]) : p < n
    BY <1>2
  <2>2. Rising(h[c])
    BY <1>1 DEF Ahead
  <2>3. h[c] \in Seq(Nat) /\ hd[c] \in Seq(Nat)
    BY FlowNat
  <2> QED
    BY <2>1, <2>2, <2>3, MembersAppend
<1>4. /\ g \in Pieces /\ gd \in Pieces
      /\ g[c] = Append(h[c], n) /\ gd[c] = Append(hd[c], n)
      /\ \A d \in Channels \ {c} : g[d] = h[d] /\ gd[d] = hd[d]
  BY <1>1, <1>3 DEF Pieces
<1> HIDE DEF g, gd
<1>4a. /\ Members(g[c]) = Members(h[c]) \union {n} /\ Members(gd[c]) = Members(hd[c]) \union {n}
       /\ \A d \in Channels \ {c} : Members(g[d]) = Members(h[d]) /\ Members(gd[d]) = Members(hd[d])
  BY <1>3, <1>4
<1>4b. \A d \in Channels : \A q \in Members(g[d]) : q \in Members(h[d]) \/ q = n
  BY <1>4a
<1>5. "text" \in Channels /\ "thinking" \in Channels
  BY DEF Channels
<1>6. Ahead(es, g)
  <2>1. \A d \in Channels : Rising(g[d])
    BY <1>1, <1>3, <1>4 DEF Ahead
  <2>2. Below(g["text"], g["thinking"])
    <3>1. CASE c = "text"
      <4>1. g["thinking"] = <<>>
        BY <1>4, <1>5, <3>1
      <4> QED
        BY <4>1, MembersEmpty DEF Below
    <3>2. CASE c # "text"
      <4>1. Members(g["text"]) = Members(h["text"])
        BY <1>4a, <1>5, <3>2
      <4>2. \A p \in Members(h["text"]) : p < n
        BY <1>2, <1>5
      <4>3. \A p \in Members(g["thinking"]) : p \in Members(h["thinking"]) \/ p = n
        BY <1>4b, <1>5
      <4>4. Below(h["text"], h["thinking"])
        BY <1>1 DEF Ahead
      <4> QED
        BY <4>1, <4>2, <4>3, <4>4 DEF Below
    <3> QED
      BY <3>1, <3>2
  <2>3. ASSUME NEW i \in DOMAIN es, NEW d \in Channels, <<es[i].kind, Told(d)>> \in Precedes
        PROVE  Below(es[i].pieces, g[d])
    <3>1. Below(es[i].pieces, h[d])
      BY <1>1, <2>3 DEF Ahead
    <3>2. \A p \in Members(es[i].pieces) : p < n
      BY <1>2
    <3> QED
      BY <1>4b, <3>1, <3>2 DEF Below
  <2> QED
    BY <2>1, <2>2, <2>3 DEF Ahead
<1>7. UpToNow(es, g, n)
  BY <1>2, <1>4b DEF UpToNow
<1>8. Covers(es, g, gd)
  <2> SUFFICES ASSUME NEW d \in Channels, NEW p \in Nat
               PROVE  p \in Members(gd[d])
                        <=> \/ p \in Members(g[d])
                            \/ \E i \in DOMAIN es : /\ es[i].kind = Told(d)
                                                    /\ p \in Members(es[i].pieces)
    BY DEF Covers
  <2>1. p \in Members(hd[d])
          <=> \/ p \in Members(h[d])
              \/ \E i \in DOMAIN es : es[i].kind = Told(d) /\ p \in Members(es[i].pieces)
    BY <1>1 DEF Covers
  <2> QED
    BY <1>4a, <2>1
<1>9. Flow(es, g, gd, n)
  BY <1>1, <1>4, <1>6, <1>7, <1>8 DEF Flow
<1> QED
  BY <1>9 DEF g, gd

\* An event is yielded: pieces that nothing held or yet to come should precede.
LEMMA FlowYield ==
  ASSUME NEW es, NEW h, NEW hd, NEW s, Flow(es, h, hd, s),
         NEW e \in Events, NEW g \in Pieces,
         Rising(e.pieces), \A p \in Members(e.pieces) : p <= s,
         \A i \in DOMAIN es : <<es[i].kind, e.kind>> \in Precedes
           => Below(es[i].pieces, e.pieces),
         \A c \in Channels : <<e.kind, Told(c)>> \in Precedes => Below(e.pieces, g[c]),
         \A c \in Channels : Rising(g[c]) /\ Members(g[c]) \subseteq Members(h[c]),
         \A c \in Channels : Members(h[c]) = Members(g[c]) \union
           (IF e.kind = Told(c) THEN Members(e.pieces) ELSE {})
  PROVE  Flow(Append(es, e), g, hd, s)
<1> DEFINE fs == Append(es, e)
<1>1. /\ es \in Seq(Events) /\ h \in Pieces /\ hd \in Pieces /\ s \in Nat
      /\ Sorted(es) /\ Ahead(es, h) /\ UpToNow(es, h, s) /\ Covers(es, h, hd)
  BY DEF Flow
<1>2. /\ Len(es) \in Nat /\ DOMAIN es = 1..Len(es)
      /\ fs \in Seq(Events) /\ DOMAIN fs = 1..(Len(es) + 1)
      /\ \A i \in 1..Len(es) : fs[i] = es[i]
      /\ fs[Len(es) + 1] = e
  BY <1>1, LenProperties
<1> HIDE DEF fs
<1>3. \A i \in DOMAIN fs : (i \in DOMAIN es /\ fs[i] = es[i]) \/ (i = Len(es) + 1 /\ fs[i] = e)
  BY <1>2
<1>4. "text" \in Channels /\ "thinking" \in Channels
  BY DEF Channels
<1>5. Sorted(fs)
  <2>1. \A i \in DOMAIN fs : Rising(fs[i].pieces)
    BY <1>1, <1>3 DEF Sorted
  <2>2. ASSUME NEW i \in DOMAIN fs, NEW j \in DOMAIN fs, i < j,
               <<fs[i].kind, fs[j].kind>> \in Precedes
        PROVE  Below(fs[i].pieces, fs[j].pieces)
    <3>1. i \in DOMAIN es /\ fs[i] = es[i]
      BY <1>2, <2>2
    <3>2. CASE j \in DOMAIN es /\ fs[j] = es[j]
      BY <1>1, <2>2, <3>1, <3>2 DEF Sorted
    <3>3. CASE fs[j] = e
      BY <2>2, <3>1, <3>3
    <3> QED
      BY <1>3, <3>2, <3>3
  <2> QED
    BY <2>1, <2>2 DEF Sorted
<1>6. Ahead(fs, g)
  <2>1. Below(g["text"], g["thinking"])
    <3>1. Below(h["text"], h["thinking"])
      BY <1>1 DEF Ahead
    <3>2. Members(g["text"]) \subseteq Members(h["text"])
          /\ Members(g["thinking"]) \subseteq Members(h["thinking"])
      BY <1>4
    <3> QED
      BY <3>1, <3>2 DEF Below
  <2>2. ASSUME NEW i \in DOMAIN fs, NEW c \in Channels, <<fs[i].kind, Told(c)>> \in Precedes
        PROVE  Below(fs[i].pieces, g[c])
    <3>1. CASE i \in DOMAIN es /\ fs[i] = es[i]
      <4>1. Below(es[i].pieces, h[c])
        BY <1>1, <2>2, <3>1 DEF Ahead
      <4>2. Members(g[c]) \subseteq Members(h[c])
        OBVIOUS
      <4> QED
        BY <3>1, <4>1, <4>2 DEF Below
    <3>2. CASE fs[i] = e
      BY <2>2, <3>2
    <3> QED
      BY <1>3, <3>1, <3>2
  <2> QED
    BY <2>1, <2>2 DEF Ahead
<1>7. UpToNow(fs, g, s)
  <2>1. \A i \in DOMAIN fs : \A p \in Members(fs[i].pieces) : p <= s
    BY <1>1, <1>3 DEF UpToNow
  <2>2. \A c \in Channels : \A p \in Members(g[c]) : p <= s
    BY <1>1 DEF UpToNow
  <2> QED
    BY <2>1, <2>2 DEF UpToNow
<1>8. Covers(fs, g, hd)
  <2> SUFFICES ASSUME NEW c \in Channels, NEW p \in Nat
               PROVE  p \in Members(hd[c])
                        <=> \/ p \in Members(g[c])
                            \/ \E i \in DOMAIN fs : /\ fs[i].kind = Told(c)
                                                    /\ p \in Members(fs[i].pieces)
    BY DEF Covers
  <2>1. p \in Members(hd[c])
          <=> \/ p \in Members(h[c])
              \/ \E i \in DOMAIN es : es[i].kind = Told(c) /\ p \in Members(es[i].pieces)
    BY <1>1 DEF Covers
  <2>2. (\E i \in DOMAIN fs : fs[i].kind = Told(c) /\ p \in Members(fs[i].pieces))
          <=> \/ \E i \in DOMAIN es : es[i].kind = Told(c) /\ p \in Members(es[i].pieces)
              \/ e.kind = Told(c) /\ p \in Members(e.pieces)
    <3>1. \A i \in DOMAIN es : i \in DOMAIN fs /\ fs[i] = es[i]
      BY <1>2
    <3>2. Len(es) + 1 \in DOMAIN fs /\ fs[Len(es) + 1] = e
      BY <1>2
    <3> QED
      BY <1>3, <3>1, <3>2
  <2>3. p \in Members(h[c]) <=> p \in Members(g[c]) \/ (e.kind = Told(c) /\ p \in Members(e.pieces))
    OBVIOUS
  <2> QED
    BY <2>1, <2>2, <2>3
<1>9. Flow(fs, g, hd, s)
  BY <1>1, <1>2, <1>5, <1>6, <1>7, <1>8 DEF Flow
<1> QED
  BY <1>9 DEF fs

\* A channel tells the start of what it holds, and keeps the rest.
LEMMA FlowTell ==
  ASSUME NEW es, NEW h, NEW hd, NEW s, Flow(es, h, hd, s),
         NEW c \in Channels, NEW n \in 0..Len(h[c])
  PROVE  Flow(Append(es, Event(Told(c), SubSeq(h[c], 1, n))),
              [h EXCEPT ![c] = SubSeq(h[c], n + 1, Len(h[c]))], hd, s)
<1> DEFINE a == SubSeq(h[c], 1, n)
           b == SubSeq(h[c], n + 1, Len(h[c]))
           e == Event(Told(c), a)
           g == [h EXCEPT ![c] = b]
<1>1. /\ h \in Pieces /\ s \in Nat
      /\ Ahead(es, h) /\ UpToNow(es, h, s)
  BY DEF Flow
<1>2. /\ a \in Seq(Nat) /\ b \in Seq(Nat)
      /\ Members(h[c]) = Members(a) \union Members(b)
      /\ Rising(a) /\ Rising(b) /\ Below(a, b)
  <2>1. h[c] \in Seq(Nat) /\ Rising(h[c])
    BY <1>1, FlowNat DEF Ahead
  <2> QED
    BY <2>1, MembersCut
<1> HIDE DEF a, b
<1>3. e \in Events /\ e.kind = Told(c) /\ e.pieces = a
  BY <1>2, ToldKinds DEF Event, Events
<1>4. g \in Pieces /\ g[c] = b /\ \A d \in Channels \ {c} : g[d] = h[d]
  BY <1>1, <1>2 DEF Pieces
<1> HIDE DEF e, g
<1>5. \A p \in Members(e.pieces) : p <= s
  BY <1>1, <1>2, <1>3 DEF UpToNow
<1>6. ASSUME NEW i \in DOMAIN es, <<es[i].kind, e.kind>> \in Precedes
      PROVE  Below(es[i].pieces, e.pieces)
  <2>1. Below(es[i].pieces, h[c])
    BY <1>1, <1>3, <1>6 DEF Ahead
  <2> QED
    BY <1>2, <1>3, <2>1 DEF Below
<1>7. ASSUME NEW d \in Channels, <<e.kind, Told(d)>> \in Precedes
      PROVE  Below(e.pieces, g[d])
  <2>1. CASE d = c
    BY <1>2, <1>3, <1>4, <2>1
  <2>2. CASE d # c
    <3>1. c = "text" /\ d = "thinking"
      BY <1>3, <1>7, <2>2, ToldKinds
    <3>2. Below(h[c], h[d])
      BY <1>1, <3>1 DEF Ahead
    <3>3. g[d] = h[d]
      BY <1>4, <2>2
    <3> QED
      BY <1>2, <1>3, <3>2, <3>3 DEF Below
  <2> QED
    BY <2>1, <2>2
<1>8. \A d \in Channels : Rising(g[d]) /\ Members(g[d]) \subseteq Members(h[d])
  BY <1>1, <1>2, <1>4 DEF Ahead
<1>9. ASSUME NEW d \in Channels
      PROVE  Members(h[d]) = Members(g[d]) \union
               (IF e.kind = Told(d) THEN Members(e.pieces) ELSE {})
  <2>1. CASE d = c
    BY <1>2, <1>3, <1>4, <2>1
  <2>2. CASE d # c
    <3>1. e.kind # Told(d)
      BY <1>3, <2>2, ToldKinds
    <3> QED
      BY <1>4, <2>2, <3>1
  <2> QED
    BY <2>1, <2>2
<1>10. Rising(e.pieces)
  BY <1>2, <1>3
<1>11. Flow(Append(es, e), g, hd, s)
  BY <1>3, <1>4, <1>5, <1>6, <1>7, <1>8, <1>9, <1>10, FlowYield
<1> QED
  BY <1>11 DEF a, b, e, g

\* The event that releases what a channel holds, if it holds anything.
RestOf(h, c) == IF h[c] = <<>> THEN <<>> ELSE <<Event(Told(c), h[c])>>

\* What a channel held is yielded: the flow is kept.
LEMMA FlowRest ==
  ASSUME NEW es, NEW h, NEW hd, NEW s, Flow(es, h, hd, s), NEW c \in Channels
  PROVE  /\ RestOf(h, c) \in Seq(Events)
         /\ Flow(es \o RestOf(h, c), [h EXCEPT ![c] = <<>>], hd, s)
<1>1. es \in Seq(Events) /\ h \in Pieces /\ h[c] \in Seq(Nat)
  BY FlowNat DEF Flow
<1>2. CASE h[c] = <<>>
  <2>1. [h EXCEPT ![c] = <<>>] = h
    BY <1>1, <1>2 DEF Pieces
  <2>2. es \o <<>> = es
    BY <1>1, ConcatEmptySeq
  <2> QED
    BY <1>2, <2>1, <2>2 DEF RestOf
<1>3. CASE h[c] # <<>>
  <2> DEFINE n == Len(h[c])
             e == Event(Told(c), h[c])
  <2>1. n \in Nat /\ n \in 0..Len(h[c])
    BY <1>1, LenProperties
  <2>2. SubSeq(h[c], 1, n) = h[c]
    BY <1>1, SubSeqFull
  <2>3. SubSeq(h[c], n + 1, Len(h[c])) = <<>>
    BY <2>1, SubSeqEmpty
  <2>4. Flow(Append(es, Event(Told(c), SubSeq(h[c], 1, n))),
             [h EXCEPT ![c] = SubSeq(h[c], n + 1, Len(h[c]))], hd, s)
    BY <2>1, FlowTell
  <2>5. Flow(Append(es, e), [h EXCEPT ![c] = <<>>], hd, s)
    BY <2>2, <2>3, <2>4
  <2>6. e \in Events
    BY <1>1, ToldKinds DEF Event, Events
  <2> HIDE DEF e, n
  <2>7. Append(es, e) = es \o <<e>> /\ <<e>> \in Seq(Events)
    BY <1>1, <2>6
  <2>8. RestOf(h, c) = <<e>>
    BY <1>3 DEF RestOf, e
  <2> QED
    BY <2>5, <2>7, <2>8
<1> QED
  BY <1>2, <1>3

\* An event that is no channel's is yielded, when what must come before it is not held.
LEMMA FlowPass ==
  ASSUME NEW es, NEW h, NEW hd, NEW s, Flow(es, h, hd, s), NEW e \in Events,
         \A c \in Channels : e.kind # Told(c),
         \A c \in Channels : <<e.kind, Told(c)>> \in Precedes => h[c] = <<>>,
         e.pieces = <<>> \/ e.pieces = <<s>>
  PROVE  Flow(Append(es, e), h, hd, s)
<1>1. h \in Pieces /\ s \in Nat /\ Ahead(es, h)
  BY DEF Flow
<1>2. Rising(e.pieces) /\ \A p \in Members(e.pieces) : p <= s
  <2>1. CASE e.pieces = <<>>
    BY <2>1, MembersEmpty
  <2>2. CASE e.pieces = <<s>>
    BY <1>1, <2>2 DEF Members, Rising
  <2> QED
    BY <2>1, <2>2
<1>3. ASSUME NEW i \in DOMAIN es, <<es[i].kind, e.kind>> \in Precedes
      PROVE  FALSE
  BY <1>3, ToldKinds
<1>4. ASSUME NEW c \in Channels, <<e.kind, Told(c)>> \in Precedes
      PROVE  Below(e.pieces, h[c])
  BY <1>4, MembersEmpty DEF Below
<1>5. \A c \in Channels : Rising(h[c]) /\ Members(h[c]) \subseteq Members(h[c])
  BY <1>1 DEF Ahead
<1>6. \A c \in Channels : Members(h[c]) = Members(h[c]) \union
         (IF e.kind = Told(c) THEN Members(e.pieces) ELSE {})
  OBVIOUS
<1> QED
  BY <1>1, <1>2, <1>3, <1>4, <1>5, <1>6, FlowYield

-----------------------------------------------------------------------------
(* Every event received keeps the pieces in order *)

\* Which redactors may hold something.
Tails ==
  /\ held["thinking"] # <<>> => block = "thinking"
  /\ held["extra"] # <<>> => block = "extra"
  /\ held["refusal"] # <<>> => dialect = "openai"
  /\ block = "extra" => dialect = "anthropic" /\ held["text"] = <<>>
  /\ ~redacting => \A c \in Channels : held[c] = <<>>

\* A history and events that go on to it, with one more.
LEMMA OneMore ==
  ASSUME NEW a \in Seq(Events), NEW b \in Seq(Events), NEW e \in Events
  PROVE  /\ a \o b \in Seq(Events) /\ b \o <<e>> \in Seq(Events)
         /\ Append(a \o b, e) = a \o (b \o <<e>>)
         /\ Append(a, e) = a \o <<e>>
         /\ a \o <<>> = a
<1>1. <<e>> \in Seq(Events)
  OBVIOUS
<1>2. a \o b \in Seq(Events) /\ b \o <<e>> \in Seq(Events)
  BY <1>1, ConcatProperties
<1>3. \A es \in Seq(Events) : Append(es, e) = es \o <<e>>
  OBVIOUS
<1>4. (a \o b) \o <<e>> = a \o (b \o <<e>>)
  BY <1>1, ConcatAssociative
<1> QED
  BY <1>2, <1>3, <1>4, ConcatEmptySeq

\* A piece fed to a redactor.
LEMMA FeedFlow ==
  ASSUME TypeOK, NEW c \in Channels, NEW before \in Seq(Events), NEW flushed \in Pieces,
         Feed(c, Told(c), before, flushed), Flow(said \o before, flushed, heard, seen),
         c = "text" => flushed["thinking"] = <<>>,
         ~redacting => flushed[c] = <<>>, seen' = seen + 1
  PROVE  /\ Flow(said \o out', held', heard', seen')
         /\ ~redacting => held' = flushed
         /\ \A d \in Channels \ {c} : held'[d] = flushed[d]
<1> DEFINE piece == seen + 1
           all == Append(flushed[c], piece)
           h1 == [flushed EXCEPT ![c] = Append(@, piece)]
           hd1 == [heard EXCEPT ![c] = Append(@, piece)]
<1>1. piece \in Nat /\ seen < piece /\ flushed[c] \in Seq(Nat) /\ said \in Seq(Events)
  BY StreamAssumption DEF TypeOK, InputOK, EventsOK, Pieces
<1>2. seen' = piece /\ heard' = hd1
  BY DEF Feed
<1>3. all \in Seq(Nat) /\ Len(all) = Len(flushed[c]) + 1 /\ Len(flushed[c]) \in Nat
  BY <1>1, LenProperties
<1>4. h1 = [flushed EXCEPT ![c] = all] /\ h1[c] = all /\ h1 \in Pieces
  BY <1>1, <1>3 DEF Pieces
<1>5. \/ ~redacting /\ held' = flushed /\ out' = before \o <<Event(Told(c), <<piece>>)>>
      \/ redacting /\ held' = [flushed EXCEPT ![c] = all] /\ out' = before
      \/ /\ redacting
         /\ \E n \in 0..Len(flushed[c]) :
              /\ held' = [flushed EXCEPT ![c] = SubSeq(all, n + 1, Len(all))]
              /\ out' = before \o <<Event(Told(c), SubSeq(all, 1, n))>>
  BY DEF Feed, Yield
<1> HIDE DEF piece
<1>6. Flow(said \o before, h1, hd1, piece)
  BY <1>1, FlowHear
<1> HIDE DEF all, h1, hd1
<1>7. ASSUME NEW n \in 0..Len(all)
      PROVE  Flow(said \o (before \o <<Event(Told(c), SubSeq(all, 1, n))>>),
                  [flushed EXCEPT ![c] = SubSeq(all, n + 1, Len(all))], heard', seen')
  <2> DEFINE e == Event(Told(c), SubSeq(all, 1, n))
             g == [h1 EXCEPT ![c] = SubSeq(h1[c], n + 1, Len(h1[c]))]
  <2>1. Flow(Append(said \o before, Event(Told(c), SubSeq(h1[c], 1, n))), g, hd1, piece)
    BY <1>4, <1>6, <1>7, FlowTell
  <2>2. Flow(Append(said \o before, e), g, heard', seen')
    BY <1>2, <1>4, <2>1
  <2>3. g = [flushed EXCEPT ![c] = SubSeq(all, n + 1, Len(all))]
    BY <1>4
  <2>4. e \in Events
    <3>1. n \in 0..Len(all) /\ 1 \in 1..(Len(all) + 1)
      BY <1>3, <1>7
    <3>2. SubSeq(all, 1, n) \in Seq(Nat)
      BY <1>3, <3>1, CutOK
    <3> QED
      BY <3>2, ToldKinds DEF Event, Events
  <2> HIDE DEF e, g
  <2>5. Append(said \o before, e) = said \o (before \o <<e>>)
    BY <1>1, <2>4, OneMore, ZenonT(40)
  <2> QED
    BY <2>2, <2>3, <2>5 DEF e
<1>8. CASE ~redacting /\ held' = flushed /\ out' = before \o <<Event(Told(c), <<piece>>)>>
  <2>1. flushed[c] = <<>>
    BY <1>8
  <2>2. all = <<piece>> /\ Len(all) = 1
    BY <1>1, <2>1 DEF all, piece
  <2>3. SubSeq(all, 1, 1) = all /\ SubSeq(all, 1 + 1, Len(all)) = <<>>
    <3>1. SubSeq(all, 1, Len(all)) = all
      BY <1>3, SubSeqFull
    <3>2. 1 + 1 \in Int /\ Len(all) \in Int /\ Len(all) < 1 + 1
      BY <2>2
    <3>3. SubSeq(all, 1 + 1, Len(all)) = <<>>
      BY <3>2, SubSeqEmpty
    <3> QED
      BY <2>2, <3>1, <3>3
  <2>4. [flushed EXCEPT ![c] = <<>>] = flushed
    BY <2>1 DEF Pieces
  <2>5. Flow(said \o (before \o <<Event(Told(c), SubSeq(all, 1, 1))>>),
             [flushed EXCEPT ![c] = SubSeq(all, 1 + 1, Len(all))], heard', seen')
    <3>1. 1 \in 0..Len(all)
      BY <2>2
    <3> QED
      BY <1>7, <3>1
  <2> QED
    BY <1>8, <2>2, <2>3, <2>4, <2>5
<1>9. CASE redacting /\ held' = [flushed EXCEPT ![c] = all] /\ out' = before
  BY <1>2, <1>4, <1>6, <1>9
<1>10. ASSUME redacting, NEW n \in 0..Len(flushed[c]),
              held' = [flushed EXCEPT ![c] = SubSeq(all, n + 1, Len(all))],
              out' = before \o <<Event(Told(c), SubSeq(all, 1, n))>>
       PROVE  Flow(said \o out', held', heard', seen')
  <2>1. n \in 0..Len(all)
    BY <1>3
  <2> QED
    BY <1>7, <1>10, <2>1
<1>11. \A d \in Channels \ {c} : held'[d] = flushed[d]
  BY <1>5 DEF Pieces
<1> QED
  BY <1>5, <1>8, <1>9, <1>10, <1>11 DEF piece

\* The release of a channel, as the generator writes it.
LEMMA RestIs ==
  ASSUME NEW c \in Channels, NEW k, k = Told(c)
  PROVE  Rest(c, k) = RestOf(held, c)
BY DEF Rest, RestOf

\* What the generator waits for upstream with.
Waiting == TypeOK /\ Tails /\ out = <<>> /\ Flow(said, held, heard, seen)

\* An event that passes whole, after a channel's tail.
LEMMA PassFlow ==
  ASSUME Waiting, NEW c \in Channels, NEW e \in Events, seen' = seen + 1, heard' = heard,
         held' = [held EXCEPT ![c] = <<>>], out' = RestOf(held, c) \o <<e>>,
         \A d \in Channels : e.kind # Told(d),
         \A d \in Channels : <<e.kind, Told(d)>> \in Precedes => d = c,
         e.pieces = <<seen + 1>>
  PROVE  Flow(said \o out', held', heard', seen')
<1> DEFINE piece == seen + 1
           h == [held EXCEPT ![c] = <<>>]
<1>1. /\ piece \in Nat /\ seen <= piece /\ said \in Seq(Events) /\ held \in Pieces
      /\ Flow(said, held, heard, seen)
  BY StreamAssumption DEF Waiting, TypeOK, InputOK, EventsOK, PiecesOK
<1>2. RestOf(held, c) \in Seq(Events) /\ Flow(said \o RestOf(held, c), h, heard, seen)
  BY <1>1, FlowRest
<1>3. Flow(said \o RestOf(held, c), h, heard, piece)
  BY <1>1, <1>2, FlowLater
<1>4. h[c] = <<>>
  BY <1>1 DEF Pieces
<1>5. e.pieces = <<piece>>
  OBVIOUS
<1>6. seen' = piece /\ held' = h
  OBVIOUS
<1> HIDE DEF piece, h
<1>7. Flow(Append(said \o RestOf(held, c), e), h, heard, piece)
  BY <1>3, <1>4, <1>5, FlowPass
<1>8. Append(said \o RestOf(held, c), e) = said \o (RestOf(held, c) \o <<e>>)
  BY <1>1, <1>2, OneMore, ZenonT(40)
<1> QED
  BY <1>6, <1>7, <1>8

\* An event of no pieces.
LEMMA WholeFlow ==
  ASSUME Waiting, NEW e \in Events, seen' = seen + 1, heard' = heard, held' = held,
         out' = <<e>>, \A d \in Channels : e.kind # Told(d),
         \A d \in Channels : <<e.kind, Told(d)>> \notin Precedes, e.pieces = <<>>
  PROVE  Flow(said \o out', held', heard', seen')
<1> DEFINE piece == seen + 1
<1>1. /\ piece \in Nat /\ seen <= piece /\ said \in Seq(Events)
      /\ Flow(said, held, heard, seen)
  BY StreamAssumption DEF Waiting, TypeOK, InputOK, EventsOK
<1>2. seen' = piece
  OBVIOUS
<1> HIDE DEF piece
<1>3. Flow(said, held, heard, piece)
  BY <1>1, FlowLater
<1>4. Flow(Append(said, e), held, heard, piece)
  BY <1>3, FlowPass
<1>5. Append(said, e) = said \o <<e>>
  BY <1>1
<1> QED
  BY <1>2, <1>4, <1>5

\* The text of an upstream event passes its redactor: the flow is kept.
LEMMA ReceiveFlow ==
  ASSUME Waiting, Receive
  PROVE  Tails' /\ Flow(said \o out', held', heard', seen')
<1>1. /\ Channels = {"text", "thinking", "refusal", "extra"}
      /\ Told("text") = "text" /\ Told("thinking") = "thinking"
      /\ Told("refusal") = "refusal" /\ Told("extra") = "extra_delta"
  BY DEF Channels, Told
<1>2. /\ TypeOK /\ Tails /\ out = <<>> /\ Flow(said, held, heard, seen)
      /\ said \in Seq(Events) /\ held \in Pieces /\ heard \in Pieces
      /\ seen + 1 \in Nat
  BY StreamAssumption DEF Waiting, TypeOK, InputOK, EventsOK, PiecesOK
<1>3. <<>> \in Seq(Events) /\ Flow(said \o <<>>, held, heard, seen)
  <2>1. said \o <<>> = said
    BY <1>2, ConcatEmptySeq
  <2> QED
    BY <1>2, <2>1
<1>4. CASE GetText
  <2> DEFINE before == RestOf(held, "thinking")
             flushed == [held EXCEPT !["thinking"] = <<>>]
  <2>1. /\ Arrives(BeforeText, "text")
        /\ Feed("text", "text", Rest("thinking", "thinking"), flushed)
    BY <1>4 DEF GetText
  <2>2. /\ block \in BeforeText /\ block # "extra" /\ block' = "text" /\ seen' = seen + 1
        /\ UNCHANGED <<dialect, redacting>>
    BY <2>1 DEF Arrives, BeforeText
  <2>3. /\ flushed \in Pieces /\ flushed["thinking"] = <<>>
        /\ \A d \in Channels \ {"thinking"} : flushed[d] = held[d]
    BY <1>1, <1>2 DEF Pieces
  <2>4. Rest("thinking", "thinking") = before
    BY <1>1, RestIs
  <2>5. before \in Seq(Events) /\ Flow(said \o before, flushed, heard, seen)
    BY <1>1, <1>2, FlowRest
  <2>6. ~redacting => flushed["text"] = <<>>
    BY <1>1, <1>2, <2>3 DEF Tails
  <2> HIDE DEF before, flushed
  <2>7. /\ Flow(said \o out', held', heard', seen')
        /\ ~redacting => held' = flushed
        /\ \A d \in Channels \ {"text"} : held'[d] = flushed[d]
    BY <1>1, <1>2, <2>1, <2>2, <2>3, <2>4, <2>5, <2>6, FeedFlow
  <2>8. Tails'
    BY <1>1, <1>2, <2>2, <2>3, <2>7 DEF Tails
  <2> QED
    BY <2>7, <2>8
<1>5. CASE GetRefusal
  <2>1. /\ dialect = "openai" /\ Arrives({"none", "text"}, "text")
        /\ Feed("refusal", "refusal", <<>>, held)
    BY <1>5 DEF GetRefusal
  <2>2. /\ block \in {"none", "text"} /\ block' = "text" /\ seen' = seen + 1
        /\ UNCHANGED <<dialect, redacting>>
    BY <2>1 DEF Arrives
  <2>3. ~redacting => held["refusal"] = <<>>
    BY <1>1, <1>2 DEF Tails
  <2>4. /\ Flow(said \o out', held', heard', seen')
        /\ ~redacting => held' = held
        /\ \A d \in Channels \ {"refusal"} : held'[d] = held[d]
    <3> DEFINE flushed == held
    <3>1. "refusal" \in Channels /\ "refusal" # "text" /\ flushed \in Pieces
          /\ Feed("refusal", Told("refusal"), <<>>, flushed)
      BY <1>1, <1>2, <2>1
    <3>2. Flow(said \o <<>>, flushed, heard, seen) /\ (~redacting => flushed["refusal"] = <<>>)
      BY <1>3, <2>3
    <3>3. held = flushed
      OBVIOUS
    <3> HIDE DEF flushed
    <3> QED
      BY <1>2, <1>3, <2>2, <3>1, <3>2, <3>3, FeedFlow
  <2>5. Tails'
    BY <1>1, <1>2, <2>1, <2>2, <2>4 DEF Tails
  <2> QED
    BY <2>4, <2>5
<1>6. CASE GetThinking
  <2>1. /\ Arrives({"none", "text", "thinking"}, "thinking")
        /\ Feed("thinking", "thinking", <<>>, held)
    BY <1>6 DEF GetThinking
  <2>2. /\ block \in {"none", "text", "thinking"} /\ block' = "thinking" /\ seen' = seen + 1
        /\ UNCHANGED <<dialect, redacting>>
    BY <2>1 DEF Arrives
  <2>3. ~redacting => held["thinking"] = <<>>
    BY <1>1, <1>2 DEF Tails
  <2>4. /\ Flow(said \o out', held', heard', seen')
        /\ ~redacting => held' = held
        /\ \A d \in Channels \ {"thinking"} : held'[d] = held[d]
    <3> DEFINE flushed == held
    <3>1. "thinking" \in Channels /\ "thinking" # "text" /\ flushed \in Pieces
          /\ Feed("thinking", Told("thinking"), <<>>, flushed)
      BY <1>1, <1>2, <2>1
    <3>2. Flow(said \o <<>>, flushed, heard, seen) /\ (~redacting => flushed["thinking"] = <<>>)
      BY <1>3, <2>3
    <3>3. held = flushed
      OBVIOUS
    <3> HIDE DEF flushed
    <3> QED
      BY <1>2, <1>3, <2>2, <3>1, <3>2, <3>3, FeedFlow
  <2>5. Tails'
    BY <1>1, <1>2, <2>2, <2>4 DEF Tails
  <2> QED
    BY <2>4, <2>5
<1>7. ASSUME NEW c \in {"thinking", "extra"}, NEW k \in {"signature", "thinking_block", "extra_stop"},
             NEW from, Arrives(from, "none"), Pass(c, Told(c), k),
             k = "signature" => c = "thinking", block = "extra" => c = "extra",
             block = "thinking" => c = "thinking"
      PROVE  Tails' /\ Flow(said \o out', held', heard', seen')
  <2> DEFINE e == Event(k, <<seen + 1>>)
  <2>1. /\ block' = "none" /\ seen' = seen + 1 /\ UNCHANGED <<dialect, redacting, heard>>
        /\ held' = [held EXCEPT ![c] = <<>>]
        /\ out' = RestOf(held, c) \o <<e>>
    BY <1>1, <1>7, RestIs DEF Arrives, Pass, Yield, Mark
  <2>2. e \in Events /\ e.kind = k /\ e.pieces = <<seen + 1>>
    BY <1>2 DEF Events, Event, Kinds
  <2>3. \A d \in Channels : k # Told(d) /\ (<<k, Told(d)>> \in Precedes => d = c)
    BY <1>1, <1>7 DEF Precedes
  <2>4. c \in Channels
    BY <1>1
  <2> HIDE DEF e
  <2>5. Flow(said \o out', held', heard', seen')
    BY <2>1, <2>2, <2>3, <2>4, PassFlow
  <2>6. held'[c] = <<>> /\ \A d \in Channels \ {c} : held'[d] = held[d]
    BY <1>2, <2>1, <2>4 DEF Pieces
  <2>7. Tails'
    BY <1>1, <1>2, <1>7, <2>1, <2>4, <2>6 DEF Tails
  <2> QED
    BY <2>5, <2>7
<1>8. CASE GetSignature
  <2>1. Arrives({"none", "text", "thinking"}, "none") /\ Pass("thinking", "thinking", "signature")
        /\ block # "extra"
    BY <1>8 DEF GetSignature, Arrives
  <2> QED
    BY <1>1, <1>7, <2>1
<1>9. CASE GetThinkingBlock
  <2>1. Arrives({"none", "text"}, "none") /\ Pass("thinking", "thinking", "thinking_block")
        /\ block # "extra"
    BY <1>9 DEF GetThinkingBlock, Arrives
  <2> QED
    BY <1>1, <1>7, <2>1
<1>10. CASE GetExtraStop
  <2>1. Arrives({"extra"}, "none") /\ Pass("extra", "extra_delta", "extra_stop")
        /\ block = "extra"
    BY <1>10 DEF GetExtraStop, Arrives
  <2> QED
    BY <1>1, <1>7, <2>1
<1>11. ASSUME NEW from, NEW to \in {"none", "text"}, Arrives(from, to),
              block \in {"none", "text"},
              NEW k \in {"citation", "fields", "fingerprint", "annotations"},
              Yield(<<Event(k, <<>>)>>, "upstream"), UNCHANGED <<heard, held>>
       PROVE  Tails' /\ Flow(said \o out', held', heard', seen')
  <2> DEFINE e == Event(k, <<>>)
  <2>1. /\ block' = to /\ seen' = seen + 1 /\ UNCHANGED <<dialect, redacting>>
        /\ out' = <<e>>
    BY <1>11 DEF Arrives, Yield
  <2>2. e \in Events /\ e.kind = k /\ e.pieces = <<>>
    BY <1>3 DEF Events, Event, Kinds
  <2>3. \A d \in Channels : k # Told(d) /\ <<k, Told(d)>> \notin Precedes
    BY <1>1, <1>11 DEF Precedes
  <2> HIDE DEF e
  <2>4. Flow(said \o out', held', heard', seen')
    BY <1>11, <2>1, <2>2, <2>3, WholeFlow
  <2>5. Tails'
    BY <1>1, <1>2, <1>11, <2>1 DEF Tails
  <2> QED
    BY <2>4, <2>5
<1>12. CASE GetCitation
  <2>1. /\ Arrives({"none", "text"}, "text") /\ block \in {"none", "text"}
        /\ Yield(<<Event("citation", <<>>)>>, "upstream") /\ UNCHANGED <<heard, held>>
    BY <1>12 DEF GetCitation, Arrives, Whole
  <2> QED
    BY <1>11, <2>1
<1>13. CASE GetNote
  <2>1. /\ Arrives({"none", "text"}, block) /\ block \in {"none", "text"}
        /\ UNCHANGED <<heard, held>>
    BY <1>13 DEF GetNote, Arrives
  <2>2. PICK k \in {"citation", "fields", "fingerprint", "annotations"} :
               Yield(<<Event(k, <<>>)>>, "upstream")
    BY <1>13 DEF GetNote, Whole
  <2> QED
    BY <1>11, <2>1, <2>2
<1>14. CASE GetExtraStart
  <2> DEFINE e == Event("extra_start", <<seen + 1>>)
             h == [held EXCEPT !["text"] = <<>>, !["extra"] = <<>>]
  <2>1. /\ dialect = "anthropic" /\ block \in {"none", "text"} /\ block' = "extra"
        /\ seen' = seen + 1 /\ UNCHANGED <<dialect, redacting, heard>>
        /\ held' = h
        /\ out' = RestOf(held, "text") \o <<e>>
    BY <1>1, <1>14, RestIs DEF GetExtraStart, Arrives, Yield, Mark
  <2>2. e \in Events /\ e.kind = "extra_start" /\ e.pieces = <<seen + 1>>
    BY <1>2 DEF Events, Event, Kinds
  <2>3. \A d \in Channels :
          "extra_start" # Told(d) /\ (<<"extra_start", Told(d)>> \in Precedes => d = "text")
    BY <1>1 DEF Precedes
  <2>4. held["extra"] = <<>> /\ held["thinking"] = <<>>
    BY <1>2, <2>1 DEF Tails
  <2>5. h = [held EXCEPT !["text"] = <<>>] /\ h["text"] = <<>>
        /\ \A d \in Channels \ {"text"} : h[d] = held[d]
    BY <1>1, <1>2, <2>4 DEF Pieces
  <2> HIDE DEF e, h
  <2>6. Flow(said \o out', held', heard', seen')
    <3>1. "text" \in Channels /\ held' = [held EXCEPT !["text"] = <<>>]
      BY <1>1, <2>1, <2>5
    <3>2. \A d \in Channels : e.kind # Told(d) /\ (<<e.kind, Told(d)>> \in Precedes => d = "text")
      BY <2>2, <2>3
    <3> QED
      BY <2>1, <2>2, <3>1, <3>2, PassFlow
  <2>7. Tails'
    BY <1>1, <1>2, <2>1, <2>4, <2>5 DEF Tails
  <2> QED
    BY <2>6, <2>7
<1>15. CASE GetExtraDelta
  <2> DEFINE piece == seen + 1
             all == Append(held["extra"], piece)
             h1 == [held EXCEPT !["extra"] = Append(@, piece)]
             hd1 == [heard EXCEPT !["extra"] = Append(@, piece)]
  <2>1. /\ block = "extra" /\ block' = "extra" /\ seen' = piece /\ heard' = hd1
        /\ UNCHANGED <<dialect, redacting>>
    BY <1>15 DEF GetExtraDelta, Arrives
  <2>2. PICK n \in IF redacting THEN 0..Len(held["extra"]) ELSE {1} :
               /\ held' = [held EXCEPT !["extra"] = SubSeq(all, n + 1, Len(all))]
               /\ out' = <<Event("extra_delta", SubSeq(all, 1, n))>>
    BY <1>15 DEF GetExtraDelta, Yield
  <2>3. held["extra"] \in Seq(Nat)
    BY <1>1, <1>2 DEF Pieces
  <2>4. piece \in Nat /\ seen < piece
    BY <1>2 DEF TypeOK, InputOK
  <2>5. all \in Seq(Nat) /\ Len(all) = Len(held["extra"]) + 1 /\ Len(held["extra"]) \in Nat
    BY <2>3, <2>4, LenProperties
  <2>6. h1 = [held EXCEPT !["extra"] = all] /\ h1["extra"] = all
    BY <1>1, <1>2 DEF Pieces
  <2> HIDE DEF piece
  <2>7. Flow(said, h1, hd1, piece)
    BY <1>1, <1>2, <2>4, FlowHear
  <2> HIDE DEF all, h1, hd1
  <2>8. n \in 0..Len(all)
    BY <2>2, <2>5
  <2>9. Flow(Append(said, Event("extra_delta", SubSeq(all, 1, n))),
             [h1 EXCEPT !["extra"] = SubSeq(all, n + 1, Len(all))], hd1, piece)
    BY <1>1, <2>6, <2>7, <2>8, FlowTell
  <2>10. [h1 EXCEPT !["extra"] = SubSeq(all, n + 1, Len(all))] = held'
    BY <2>2, <2>6
  <2>11. Append(said, Event("extra_delta", SubSeq(all, 1, n))) = said \o out'
    <3>1. SubSeq(all, 1, n) \in Seq(Nat)
      BY <2>5, <2>8, CutOK
    <3>2. Event("extra_delta", SubSeq(all, 1, n)) \in Events
      BY <3>1 DEF Event, Events, Kinds
    <3> QED
      BY <1>2, <2>2, <3>2, OneMore
  <2>12. Flow(said \o out', held', heard', seen')
    BY <2>1, <2>9, <2>10, <2>11
  <2>13. ~redacting => held'["extra"] = <<>>
    <3>1. SUFFICES ASSUME ~redacting PROVE held'["extra"] = <<>>
      OBVIOUS
    <3>2. n = 1 /\ held["extra"] = <<>>
      BY <1>1, <1>2, <2>2, <3>1 DEF Tails
    <3>3. Len(all) = 1
      BY <2>5, <3>2
    <3>4. 1 + 1 \in Int /\ Len(all) \in Int /\ Len(all) < 1 + 1
      BY <3>3
    <3>5. SubSeq(all, 1 + 1, Len(all)) = <<>>
      BY <3>4, SubSeqEmpty
    <3> QED
      BY <1>1, <1>2, <2>2, <3>2, <3>5 DEF Pieces
  <2>14. \A d \in Channels \ {"extra"} : held'[d] = held[d]
    BY <1>2, <2>2 DEF Pieces
  <2>15. Tails'
    BY <1>1, <1>2, <2>1, <2>13, <2>14 DEF Tails
  <2> QED
    BY <2>12, <2>15
<1> QED
  BY <1>4, <1>5, <1>6, <1>8, <1>9, <1>10, <1>12, <1>13, <1>14, <1>15 DEF Receive

-----------------------------------------------------------------------------
(* Nothing is lost or overtaken *)

Summaries == {"summary", "summary_tools"}

\* Where the generator is tells what is still held and still to yield.
Concluded ==
  /\ finished \/ pc = "finishing" \/ (pc = "client" /\ then = "finishing")
       => \A c \in Channels : held[c] = <<>>
  /\ pc \in {"upstream", "finishing", "parking", "ending"} \/ (pc = "crediting" /\ finished)
       => out = <<>>
  /\ (\E i \in DOMAIN said : said[i].kind \in Summaries) => finished /\ out = <<>>
  /\ pc = "client" /\ then = "ending" /\ out[1].kind \in Summaries => finished

\* What OrderKept and ReleasedBySummary rest on: what was said, what is about to be
\* and what is held is what was heard, in an order that keeps to what came first.
Flowing == Tails /\ Concluded /\ Flow(said \o out, held, heard, seen)

\* A history that ends nothing has no summary.
LEMMA CleanUnfinished ==
  ASSUME NEW es, NEW t, NEW r, Clean(es, t, r)
  PROVE  ~\E i \in DOMAIN es : es[i].kind \in Summaries
BY DEF Clean, Summaries, Terminal

\* Nothing was heard, held or yielded yet.
LEMMA InitFlowing == Init => Flowing
<1> SUFFICES ASSUME Init PROVE Flowing
  OBVIOUS
<1>1. /\ held = Nothing /\ heard = Nothing /\ said = <<>> /\ out = <<>> /\ seen = 0
      /\ block = "none" /\ pc = "upstream" /\ ~finished
  BY DEF Init
<1>2. \A c \in Channels : held[c] = <<>> /\ heard[c] = <<>>
  BY <1>1 DEF Nothing
<1>3. said \o out = <<>> /\ said \o out \in Seq(Events)
  BY <1>1
<1>4. held \in Pieces /\ heard \in Pieces
  BY <1>1 DEF Nothing, Pieces
<1>5. "text" \in Channels /\ "thinking" \in Channels /\ "extra" \in Channels
      /\ "refusal" \in Channels
  BY DEF Channels
<1>6. Tails
  BY <1>1, <1>2, <1>5 DEF Tails
<1>7. Concluded
  BY <1>1, <1>2 DEF Concluded
<1>8. \A c \in Channels : Rising(held[c]) /\ Members(held[c]) = {} /\ Members(heard[c]) = {}
  BY <1>2, MembersEmpty
<1>9. Sorted(<<>>) /\ Ahead(<<>>, held) /\ UpToNow(<<>>, held, 0) /\ Covers(<<>>, held, heard)
  BY <1>5, <1>8 DEF Sorted, Ahead, UpToNow, Covers, Below
<1>10. Flow(said \o out, held, heard, seen)
  BY <1>1, <1>3, <1>4, <1>9 DEF Flow
<1> QED
  BY <1>6, <1>7, <1>10 DEF Flowing

\* An event of the upstream arrives.
LEMMA ReceiveFlowing ==
  ASSUME IInv, IInv', Flowing, Receive
  PROVE  Flowing'
<1>1. /\ pc = "upstream" /\ UNCHANGED <<finished, said>>
      /\ TypeOK /\ Billed /\ Ordered /\ Ordered'
      /\ Onward("upstream")
  BY ReceiveFrame, ReceiveClean DEF IInv, Received
<1>2. Waiting
  <2>1. out = <<>> /\ said \in Seq(Events)
    BY <1>1 DEF Flowing, Concluded, TypeOK, EventsOK
  <2>2. said \o out = said
    BY <2>1, ConcatEmptySeq
  <2> QED
    BY <1>1, <2>1, <2>2 DEF Flowing, Waiting
<1>3. Tails' /\ Flow(said' \o out', held', heard', seen')
  BY <1>1, <1>2, ReceiveFlow
<1>4. Concluded'
  <2>1. pc' \in {"upstream", "client"} /\ then' = "upstream" /\ (pc' = "upstream" => out' = <<>>)
    BY <1>1 DEF Onward
  <2>2. ~finished'
    BY <1>1 DEF Billed, Streaming
  <2>3. ~\E i \in DOMAIN said' : said'[i].kind \in Summaries
    BY <1>1, <2>1, CleanUnfinished DEF Ordered
  <2> QED
    BY <2>1, <2>2, <2>3 DEF Concluded
<1> QED
  BY <1>3, <1>4 DEF Flowing

\* The client takes an event.
LEMMA DeliverFlowing ==
  ASSUME IInv, IInv', Flowing, Deliver
  PROVE  Flowing'
<1>1. TypeOK /\ Billed /\ Ordered /\ Ordered'
  BY DEF IInv
<1>2. /\ pc = "client" /\ out # <<>>
      /\ said' = Append(said, Head(out)) /\ out' = Tail(out)
      /\ pc' = (IF Tail(out) = <<>> THEN then ELSE "client")
      /\ UNCHANGED <<dialect, redacting, seen, block, heard, held, finished, then>>
  BY <1>1 DEF Deliver, Ordered, upstream, answer, ending, bill
<1>3. /\ out \in Seq(Events) /\ said \in Seq(Events)
      /\ then \in {"upstream", "finishing", "ending"}
  BY <1>1 DEF TypeOK, EventsOK, ControlOK
<1>4. said' \o out' = said \o out
  <2>1. /\ Head(out) \in Events /\ Tail(out) \in Seq(Events) /\ <<Head(out)>> \in Seq(Events)
    BY <1>2, <1>3, HeadTailProperties
  <2>2. out = <<Head(out)>> \o Tail(out)
    BY <1>2, <1>3
  <2>3. Append(said, Head(out)) = said \o <<Head(out)>>
    BY <1>3, <2>1
  <2>4. (said \o <<Head(out)>>) \o Tail(out) = said \o (<<Head(out)>> \o Tail(out))
    BY <1>3, <2>1, ConcatAssociative
  <2> QED
    BY <1>2, <2>2, <2>3, <2>4
<1>5. Tails'
  BY <1>2 DEF Flowing, Tails
<1>6. Concluded'
  <2>1. pc' # "client" => out' = <<>>
    BY <1>2
  <2>2. finished' \/ pc' = "finishing" \/ (pc' = "client" /\ then' = "finishing")
          => \A c \in Channels : held'[c] = <<>>
    BY <1>2, <1>3 DEF Flowing, Concluded
  <2>3. (\E i \in DOMAIN said' : said'[i].kind \in Summaries) => finished' /\ out' = <<>>
    <3>1. CASE then # "ending"
      <4>1. pc' \notin {"ending", "over"}
        BY <1>2, <1>3, <3>1
      <4> QED
        BY <1>1, <4>1, CleanUnfinished DEF Ordered
    <3>2. CASE then = "ending"
      <4>1. Len(out) = 1
        BY <1>1, <1>2, <3>2 DEF Ordered
      <4>2. Tail(out) = <<>>
        <5>1. Tail(out) \in Seq(Events) /\ Len(Tail(out)) = 0
          BY <1>2, <1>3, <4>1, HeadTailProperties
        <5>2. \A es \in Seq(Events) : es # <<>> => Len(es) \in Nat \ {0}
          BY EmptySeq
        <5> QED
          BY <5>1, <5>2
      <4>3. pc # "over" /\ ~\E i \in DOMAIN said : said[i].kind \in Summaries
        BY <1>1, <1>2, CleanUnfinished DEF Ordered
      <4>4. \A i \in DOMAIN said' : (i \in DOMAIN said /\ said'[i] = said[i]) \/ said'[i] = out[1]
        <5>1. DOMAIN said = 1..Len(said) /\ Len(said) \in Nat /\ Head(out) = out[1]
              /\ Head(out) \in Events
          BY <1>2, <1>3, LenProperties, HeadTailProperties
        <5>2. /\ DOMAIN said' = 1..(Len(said) + 1) /\ said'[Len(said) + 1] = Head(out)
              /\ \A i \in 1..Len(said) : said'[i] = said[i]
          BY <1>2, <1>3, <5>1
        <5>3. \A i \in 1..(Len(said) + 1) : i \in 1..Len(said) \/ i = Len(said) + 1
          BY <5>1
        <5> QED
          BY <5>1, <5>2, <5>3
      <4>5. out[1].kind \in Summaries => finished
        BY <1>2, <3>2 DEF Flowing, Concluded
      <4> QED
        BY <1>2, <4>2, <4>3, <4>4, <4>5
    <3> QED
      BY <3>1, <3>2
  <2>4. pc' = "client" /\ then' = "ending" => FALSE
    <3>1. SUFFICES ASSUME pc' = "client", then = "ending" PROVE FALSE
      BY <1>2
    <3>2. Len(out) = 1
      BY <1>1, <1>2, <3>1 DEF Ordered
    <3>3. Tail(out) \in Seq(Events) /\ Len(Tail(out)) = 0
      BY <1>2, <1>3, <3>2, HeadTailProperties
    <3>4. \A es \in Seq(Events) : es # <<>> => Len(es) \in Nat \ {0}
      BY EmptySeq
    <3> QED
      BY <1>2, <1>3, <3>1, <3>3, <3>4
  <2> QED
    BY <2>1, <2>2, <2>3, <2>4 DEF Concluded
<1> QED
  BY <1>2, <1>4, <1>5, <1>6 DEF Flowing

\* Five sequences one after the other.
Cat(x, y) == x \o y

\* Cat keeps the type and is associative.
LEMMA CatFacts ==
  /\ \A x, y \in Seq(Events) : Cat(x, y) \in Seq(Events)
  /\ \A x, y, z \in Seq(Events) : Cat(Cat(x, y), z) = Cat(x, Cat(y, z))
<1>1. ASSUME NEW x \in Seq(Events), NEW y \in Seq(Events)
      PROVE  Cat(x, y) \in Seq(Events)
  BY ConcatProperties DEF Cat
<1>2. ASSUME NEW x \in Seq(Events), NEW y \in Seq(Events), NEW z \in Seq(Events)
      PROVE  Cat(Cat(x, y), z) = Cat(x, Cat(y, z))
  BY ConcatAssociative DEF Cat
<1> QED
  BY <1>1, <1>2

\* What the four channels held is yielded, one channel after the other.
LEMMA FourTails ==
  ASSUME NEW es \in Seq(Events), NEW a \in Seq(Events), NEW b \in Seq(Events),
         NEW c \in Seq(Events), NEW d \in Seq(Events)
  PROVE  Cat(Cat(Cat(Cat(es, a), b), c), d) = Cat(es, Cat(Cat(Cat(a, b), c), d))
<1>1. Cat(a, b) \in Seq(Events) /\ Cat(Cat(a, b), c) \in Seq(Events)
  BY CatFacts
<1>2. Cat(Cat(es, a), b) = Cat(es, Cat(a, b))
  BY CatFacts
<1>3. Cat(Cat(es, Cat(a, b)), c) = Cat(es, Cat(Cat(a, b), c))
  BY <1>1, CatFacts
<1>4. Cat(Cat(es, Cat(Cat(a, b), c)), d) = Cat(es, Cat(Cat(Cat(a, b), c), d))
  BY <1>1, CatFacts
<1> QED
  BY <1>2, <1>3, <1>4

\* The tails of the four channels.
LEMMA EndsFlowing ==
  ASSUME IInv, IInv', Flowing, Ends
  PROVE  Flowing'
<1>1. TypeOK /\ Billed /\ Ordered /\ Ordered'
  BY DEF IInv
<1> DEFINE a == Rest("text", "text")
           b == Rest("thinking", "thinking")
           c == Rest("refusal", "refusal")
           d == Rest("extra", "extra_delta")
<1>2. /\ pc = "upstream" /\ held' = Nothing
      /\ out' = ((a \o b) \o c) \o d /\ then' = "finishing"
      /\ pc' \in {"client", "finishing"} /\ (pc' = "finishing" => out' = <<>>)
      /\ UNCHANGED <<dialect, redacting, seen, block, heard, finished, said>>
  BY DEF Ends, Yield, upstream, ending, bill, client
<1>3. out = <<>> /\ said \in Seq(Events) /\ held \in Pieces /\ Flow(said, held, heard, seen)
  <2>1. out = <<>> /\ said \in Seq(Events) /\ held \in Pieces
    BY <1>1, <1>2 DEF Flowing, Concluded, TypeOK, EventsOK, PiecesOK
  <2>2. said \o out = said
    BY <2>1, ConcatEmptySeq
  <2> QED
    BY <2>1, <2>2 DEF Flowing
<1>4. /\ Channels = {"text", "thinking", "refusal", "extra"}
      /\ Told("text") = "text" /\ Told("thinking") = "thinking"
      /\ Told("refusal") = "refusal" /\ Told("extra") = "extra_delta"
  BY DEF Channels, Told
<1> DEFINE h1 == [held EXCEPT !["text"] = <<>>]
           h2 == [h1 EXCEPT !["thinking"] = <<>>]
           h3 == [h2 EXCEPT !["refusal"] = <<>>]
           h4 == [h3 EXCEPT !["extra"] = <<>>]
<1>5. /\ a = RestOf(held, "text") /\ b = RestOf(h1, "thinking")
      /\ c = RestOf(h2, "refusal") /\ d = RestOf(h3, "extra")
  <2>1. h1["thinking"] = held["thinking"] /\ h2["refusal"] = held["refusal"]
        /\ h3["extra"] = held["extra"]
    BY <1>3, <1>4 DEF Pieces
  <2> QED
    BY <1>4, <2>1 DEF Rest, RestOf
<1>6. h4 = Nothing
  BY <1>3, <1>4 DEF Pieces, Nothing
<1> HIDE DEF a, b, c, d
<1>7. a \in Seq(Events) /\ Flow(said \o a, h1, heard, seen)
  BY <1>3, <1>4, <1>5, FlowRest
<1> HIDE DEF h1
<1>8. b \in Seq(Events) /\ Flow((said \o a) \o b, h2, heard, seen)
  BY <1>4, <1>5, <1>7, FlowRest
<1> HIDE DEF h2
<1>9. c \in Seq(Events) /\ Flow(((said \o a) \o b) \o c, h3, heard, seen)
  BY <1>4, <1>5, <1>8, FlowRest
<1> HIDE DEF h3
<1>10. d \in Seq(Events) /\ Flow((((said \o a) \o b) \o c) \o d, h4, heard, seen)
  BY <1>4, <1>5, <1>9, FlowRest
<1> HIDE DEF h4
<1>11. (((said \o a) \o b) \o c) \o d = said \o (((a \o b) \o c) \o d)
  <2>1. /\ said \in Seq(Events) /\ a \in Seq(Events) /\ b \in Seq(Events)
        /\ c \in Seq(Events) /\ d \in Seq(Events)
    BY <1>3, <1>7, <1>8, <1>9, <1>10
  <2>2. Cat(Cat(Cat(Cat(said, a), b), c), d) = Cat(said, Cat(Cat(Cat(a, b), c), d))
    BY <2>1, FourTails
  <2> QED
    BY <2>2, Zenon DEF Cat
<1>12. Flow(said' \o out', held', heard', seen')
  BY <1>2, <1>6, <1>10, <1>11
<1>13. \A x \in Channels : held'[x] = <<>>
  BY <1>2 DEF Nothing
<1>14. Tails'
  BY <1>2, <1>4, <1>13 DEF Flowing, Tails
<1>15. Concluded'
  <2>1. ~\E i \in DOMAIN said' : said'[i].kind \in Summaries
    BY <1>1, <1>2, CleanUnfinished DEF Ordered
  <2> QED
    BY <1>2, <1>13, <2>1 DEF Concluded
<1> QED
  BY <1>12, <1>14, <1>15 DEF Flowing

\* Steps that yield at most a terminal event.
LEMMA ClosingFlowing ==
  ASSUME IInv, IInv', Flowing,
         UNCHANGED <<dialect, redacting, seen, block, heard, held, said>>,
         \/ pc' = "client" /\ then' = "ending" /\ out = <<>>
            /\ \E k \in Terminal : out' = Whole(k) /\ (k \in Summaries => finished')
         \/ pc' # "client" /\ out' = out,
         finished' => \A c \in Channels : held[c] = <<>>,
         finished => finished',
         pc' \notin {"upstream", "finishing"},
         pc' \in {"parking", "ending"} \/ (pc' = "crediting" /\ finished') => out' = <<>>
  PROVE  Flowing'
<1>1. /\ TypeOK /\ Ordered' /\ Tails /\ Concluded
      /\ Flow(said \o out, held, heard, seen) /\ said \in Seq(Events)
  BY DEF IInv, Flowing, TypeOK, EventsOK
<1>2. Tails'
  BY <1>1 DEF Tails
<1>3. CASE pc' = "client" /\ then' = "ending" /\ out = <<>>
           /\ \E k \in Terminal : out' = Whole(k) /\ (k \in Summaries => finished')
  <2>1. PICK k \in Terminal : out' = Whole(k) /\ (k \in Summaries => finished')
    BY <1>3
  <2> DEFINE e == Event(k, <<>>)
  <2>2. e \in Events /\ e.kind = k /\ e.pieces = <<>> /\ out' = <<e>> /\ out'[1].kind = k
    BY <2>1 DEF Event, Events, Kinds, Terminal, Whole
  <2>3. \A c \in Channels : k # Told(c) /\ <<k, Told(c)>> \notin Precedes
    BY DEF Terminal, Channels, Told, Precedes
  <2>4. Flow(said, held, heard, seen)
    <3>1. said \o out = said
      BY <1>1, <1>3, ConcatEmptySeq
    <3> QED
      BY <1>1, <3>1
  <2> HIDE DEF e
  <2>5. Flow(Append(said, e), held, heard, seen)
    BY <2>2, <2>3, <2>4, FlowPass
  <2>6. Append(said, e) = said \o out'
    BY <1>1, <2>2
  <2>7. Concluded'
    <3>1. ~\E i \in DOMAIN said' : said'[i].kind \in Summaries
      BY <1>1, <1>3, CleanUnfinished DEF Ordered
    <3> QED
      BY <1>3, <2>1, <2>2, <3>1 DEF Concluded
  <2> QED
    BY <1>2, <2>5, <2>6, <2>7 DEF Flowing
<1>4. CASE pc' # "client" /\ out' = out
  <2>1. Concluded'
    BY <1>1, <1>4 DEF Concluded
  <2> QED
    BY <1>1, <1>2, <1>4, <2>1 DEF Flowing
<1> QED
  BY <1>3, <1>4

\* Every step keeps Flowing.
LEMMA NextFlowing ==
  ASSUME IInv, IInv', Flowing, [Next]_vars
  PROVE  Flowing'
<1>0. TypeOK /\ Billed /\ Ordered /\ Concluded /\ Tails
  BY DEF IInv, Flowing
<1>1. CASE Receive
  BY <1>1, ReceiveFlowing
<1>2. CASE Deliver
  BY <1>2, DeliverFlowing
<1>3. CASE Ends
  BY <1>3, EndsFlowing
<1>4. CASE Finish
  <2>1. /\ pc = "finishing" /\ pc' = "crediting" /\ finished' = TRUE
        /\ UNCHANGED <<dialect, redacting, seen, block, heard, held, said, out>>
    BY <1>4 DEF Finish, upstream, answer, client
  <2>2. out = <<>> /\ \A c \in Channels : held[c] = <<>>
    BY <1>0, <2>1 DEF Concluded
  <2> QED
    BY <2>1, <2>2, ClosingFlowing
<1>5. CASE Credit
  <2>1. /\ pc = "crediting"
        /\ UNCHANGED <<dialect, redacting, seen, block, heard, held, said, finished>>
    BY <1>5 DEF Credit, upstream, answer, ending, client
  <2>2. \/ /\ finished /\ pc' = "client" /\ then' = "ending"
           /\ \E k \in Terminal : out' = Whole(k)
        \/ ~finished /\ pc' = "over" /\ out' = out
    BY <1>5 DEF Credit, Yield, Whole, Terminal
  <2>3. finished => out = <<>> /\ \A c \in Channels : held[c] = <<>>
    BY <1>0, <2>1 DEF Concluded
  <2> QED
    BY <2>1, <2>2, <2>3, ClosingFlowing
<1>6. CASE Fails \/ Park
  <2>1. /\ pc \in {"upstream", "parking"}
        /\ UNCHANGED <<dialect, redacting, seen, block, heard, held, said, finished>>
    BY <1>6 DEF Fails, Park, upstream, answer, ending, client
  <2>2. \/ pc' = "parking" /\ out' = out
        \/ pc' = "client" /\ then' = "ending" /\ out' = Whole("error")
    BY <1>6 DEF Fails, Park, Yield, Whole
  <2>3. out = <<>> /\ (finished => \A c \in Channels : held[c] = <<>>)
    BY <1>0, <2>1 DEF Concluded
  <2>4. "error" \in Terminal /\ "error" \notin Summaries
    BY DEF Terminal, Summaries
  <2> QED
    BY <2>1, <2>2, <2>3, <2>4, ClosingFlowing
<1>7. CASE End
  <2>1. /\ pc = "ending" /\ pc' = "over"
        /\ UNCHANGED <<dialect, redacting, seen, block, heard, held, said, finished, out>>
    BY <1>7 DEF End, upstream, answer, ending, bill
  <2>2. finished => \A c \in Channels : held[c] = <<>>
    BY <1>0 DEF Concluded
  <2> QED
    BY <2>1, <2>2, ClosingFlowing
<1>8. CASE Leave \/ Breaks
  <2>1. /\ UNCHANGED <<dialect, redacting, seen, block, heard, held, said, finished, out>>
        /\ pc' = "over" \/ (pc' = "crediting" /\ ~finished)
    BY <1>8 DEF Leave, Breaks, Abandon, upstream, answer, client
  <2>2. finished => \A c \in Channels : held[c] = <<>>
    BY <1>0 DEF Concluded
  <2> QED
    BY <2>1, <2>2, ClosingFlowing
<1>9. CASE UNCHANGED vars
  <2>1. UNCHANGED <<dialect, redacting, seen, block, heard, held, finished, pc, out, then, said>>
    BY <1>9 DEF vars, upstream, answer, ending, bill, client
  <2>2. Tails' /\ Concluded'
    BY <1>0, <2>1 DEF Tails, Concluded
  <2> QED
    BY <2>1, <2>2 DEF Flowing
<1> QED
  BY <1>1, <1>2, <1>3, <1>4, <1>5, <1>6, <1>7, <1>8, <1>9 DEF Next

\* The invariant of the flow of pieces.
LEMMA FlowInductive == Spec => [](IInv /\ Flowing)
<1>1. Init => IInv /\ Flowing
  BY InitIInv, InitFlowing
<1>2. IInv /\ Flowing /\ [Next]_vars => (IInv /\ Flowing)'
  BY NextIInv, NextFlowing
<1> QED
  BY <1>1, <1>2, PTL DEF Spec

\* The history is the start of what is said and what is about to be.
LEMMA SaidFirst ==
  ASSUME TypeOK
  PROVE  \A i \in DOMAIN said : i \in DOMAIN (said \o out) /\ (said \o out)[i] = said[i]
<1>1. said \in Seq(Events) /\ out \in Seq(Events)
  BY DEF TypeOK, EventsOK
<1> QED
  BY <1>1, ConcatProperties, LenProperties

\* A redactor that holds back a tail never lets it be overtaken: no text from before
\* an extra block comes after the block has started, no thinking after its signature
\* or after later text (the flushes of _handle_chat_stream).
THEOREM OrderIsKept == Spec => []OrderKept
<1>1. IInv /\ Flowing => OrderKept
  <2> SUFFICES ASSUME IInv, Flowing, NEW i \in DOMAIN said, NEW j \in DOMAIN said, i < j,
                      NEW p \in Members(said[i].pieces), NEW q \in Members(said[j].pieces),
                      \/ said[i].kind = "extra_start" /\ said[j].kind = "text"
                      \/ said[i].kind \in {"signature", "text"} /\ said[j].kind = "thinking"
               PROVE  p < q
    BY DEF OrderKept
  <2>1. /\ i \in DOMAIN (said \o out) /\ (said \o out)[i] = said[i]
        /\ j \in DOMAIN (said \o out) /\ (said \o out)[j] = said[j]
    BY SaidFirst DEF IInv
  <2>2. <<said[i].kind, said[j].kind>> \in Precedes
    BY DEF Precedes
  <2>3. Below(said[i].pieces, said[j].pieces)
    BY <2>1, <2>2 DEF Flowing, Flow, Sorted
  <2> QED
    BY <2>3 DEF Below
<1> QED
  BY <1>1, FlowInductive, PTL

\* When the summary is delivered the client has had every piece of every channel,
\* once and in the order it came: no redactor keeps a tail (the flushes at the end of
\* _handle_chat_stream).
THEOREM TailsAreReleased == Spec => []ReleasedBySummary
<1>1. IInv /\ Flowing => ReleasedBySummary
  <2> SUFFICES ASSUME IInv, Flowing PROVE ReleasedBySummary
    OBVIOUS
  <2>1. /\ said \in Seq(Events) /\ Flow(said \o out, held, heard, seen) /\ Concluded /\ TypeOK
    BY DEF IInv, Flowing, TypeOK, EventsOK
  <2>2. \A i \in DOMAIN said : i \in DOMAIN (said \o out) /\ (said \o out)[i] = said[i]
    BY <2>1, SaidFirst
  <2>3. ASSUME NEW k \in {"text", "thinking", "refusal", "extra_delta"}
        PROVE  InOrder(k)
    <3> SUFFICES ASSUME NEW i \in DOMAIN said, NEW j \in DOMAIN said,
                        said[i].kind = k, said[j].kind = k, i <= j,
                        NEW m \in DOMAIN said[i].pieces, NEW n \in DOMAIN said[j].pieces,
                        i < j \/ m < n
                 PROVE  said[i].pieces[m] < said[j].pieces[n]
      BY DEF InOrder
    <3>1. CASE i < j
      <4>1. <<k, k>> \in Precedes
        BY DEF Precedes
      <4>2. Below(said[i].pieces, said[j].pieces)
        BY <2>1, <2>2, <3>1, <4>1 DEF Flow, Sorted
      <4> QED
        BY <4>2 DEF Below, Members
    <3>2. CASE ~(i < j)
      <4>1. i = j /\ m < n
        BY <2>1, <3>2, LenProperties
      <4>2. Rising(said[i].pieces)
        BY <2>1, <2>2 DEF Flow, Sorted
      <4> QED
        BY <4>1, <4>2 DEF Rising
    <3> QED
      BY <3>1, <3>2
  <2>4. ASSUME said # <<>>, said[Len(said)].kind \in Summaries, NEW c \in Channels
        PROVE  UNION {Members(e.pieces) : e \in Sent(c)} = Members(heard[c])
    <3>1. Len(said) \in DOMAIN said
      BY <2>1, <2>4, EmptySeq, LenProperties
    <3>2. finished /\ out = <<>>
      BY <2>1, <2>4, <3>1 DEF Concluded
    <3>3. held[c] = <<>> /\ said \o out = said
      BY <2>1, <3>2, ConcatEmptySeq DEF Concluded
    <3>4. Flow(said, held, heard, seen) /\ Covers(said, held, heard)
      BY <2>1, <3>3 DEF Flow
    <3>5. \A p \in Nat : p \in Members(heard[c])
                <=> \E i \in DOMAIN said : said[i].kind = Told(c) /\ p \in Members(said[i].pieces)
      BY <3>3, <3>4, MembersEmpty DEF Covers
    <3>6. /\ Members(heard[c]) \subseteq Nat
          /\ \A i \in DOMAIN said : Members(said[i].pieces) \subseteq Nat
      BY <3>4, FlowNat
    <3>7. \A p : p \in UNION {Members(e.pieces) : e \in Sent(c)}
                <=> \E i \in DOMAIN said : said[i].kind = Told(c) /\ p \in Members(said[i].pieces)
      <4>1. \A e : e \in Sent(c) <=> \E i \in DOMAIN said : e = said[i] /\ said[i].kind = Told(c)
        BY DEF Sent, Members, Told
      <4> QED
        BY <4>1
    <3> QED
      BY <3>5, <3>6, <3>7
  <2> QED
    BY <2>3, <2>4 DEF ReleasedBySummary, Summaries
<1> QED
  BY <1>1, FlowInductive, PTL

-----------------------------------------------------------------------------
(* Frames *)

Types == {"message_start", "start", "stop", "thinking_delta", "signature_delta", "text_delta",
          "citations_delta", "extra_delta", "input_json_delta", "message_delta", "message_stop",
          "error"}
Blocks == {"none", "text", "thinking", "extra", "redacted", "tool_use"}
Frames == [type : Types, index : Nat, block : Blocks]
Routes == [started : BOOLEAN, open : Blocks, index : Nat, frames : Seq(Frames)]

\* The frames of type t before the i-th.
Count(f, t, i) == Cardinality({j \in 1..(i - 1) : f[j].type = t})
Inside(f, i) ==
  Count(f, "start", i) = Count(f, "stop", i) + 1 /\ f[i].index = Count(f, "stop", i)
Outside(f, i) == Count(f, "start", i) = Count(f, "stop", i)

\* The types of the deltas, each with that of its block; the frames that come last.
Deltas == {<<"thinking_delta", "thinking">>, <<"signature_delta", "thinking">>,
           <<"text_delta", "text">>, <<"citations_delta", "text">>,
           <<"extra_delta", "extra">>, <<"input_json_delta", "tool_use">>}
Lasts == {"error", "message_stop"}

\* What BlocksWellFormed says of a frame, but for the last ones.
InPlace(f, i) ==
  /\ f[i].type = "message_start" <=> i = 1
  /\ f[i].type = "start" => Outside(f, i) /\ f[i].index = Count(f, "start", i)
  /\ f[i].type = "stop" => Inside(f, i)
  /\ \A d \in Deltas : f[i].type = d[1] => Inside(f, i) /\ f[i].block = d[2]
  /\ f[i].type \in {"message_delta", "message_stop"} => Outside(f, i)
Placed(f) == \A i \in DOMAIN f : InPlace(f, i)
Final(f) == \A i \in DOMAIN f : f[i].type \in Lasts => i = Len(f)
Going(f) == \A i \in DOMAIN f : f[i].type \notin Lasts

\* How many blocks have been started and stopped.
Starts(f) == Count(f, "start", Len(f) + 1)
Stops(f) == Count(f, "stop", Len(f) + 1)

\* A route that has the frames of a message and knows which block is open.
Sound(r) ==
  /\ r \in Routes
  /\ Placed(r.frames) /\ Final(r.frames)
  /\ r.index = Stops(r.frames)
  /\ Starts(r.frames) = r.index + (IF r.open = "none" THEN 0 ELSE 1)
  /\ r.started <=> r.frames # <<>>

\* Counts are natural numbers, which a frame appended leaves alone up to itself.
LEMMA CountAppend ==
  ASSUME NEW f \in Seq(Frames), NEW x \in Frames, NEW t \in Types
  PROVE  /\ Count(f, t, Len(f) + 1) \in Nat
         /\ \A i \in 1..(Len(f) + 1) : Count(Append(f, x), t, i) = Count(f, t, i)
         /\ Count(Append(f, x), t, Len(f) + 2)
              = Count(f, t, Len(f) + 1) + (IF x.type = t THEN 1 ELSE 0)
<1> DEFINE g == Append(f, x)
           Of(h, i) == {j \in 1..(i - 1) : h[j].type = t}
<1>1. /\ Len(f) \in Nat
      /\ \A j \in 1..Len(f) : g[j] = f[j]
      /\ g[Len(f) + 1] = x
  BY LenProperties
<1>2. ASSUME NEW i \in 1..(Len(f) + 1)
      PROVE  Of(g, i) = Of(f, i)
  <2>1. \A j \in 1..(i - 1) : j \in 1..Len(f)
    BY <1>1
  <2> HIDE DEF g
  <2> QED
    BY <1>1, <2>1
<1>3. IsFiniteSet(Of(f, Len(f) + 1))
  <2>1. IsFiniteSet(1..((Len(f) + 1) - 1))
    BY <1>1, FS_Interval
  <2> QED
    BY <2>1, FS_Subset
<1>4. Of(g, Len(f) + 2)
        = IF x.type = t THEN Of(f, Len(f) + 1) \union {Len(f) + 1} ELSE Of(f, Len(f) + 1)
  <2>1. \A j : j \in 1..((Len(f) + 2) - 1) <=> j \in 1..((Len(f) + 1) - 1) \/ j = Len(f) + 1
    BY <1>1
  <2>2. \A j \in 1..((Len(f) + 1) - 1) : g[j] = f[j]
    BY <1>1
  <2> HIDE DEF g
  <2> QED
    BY <1>1, <2>1, <2>2
<1>5. Len(f) + 1 \notin Of(f, Len(f) + 1)
  BY <1>1
<1>6. Cardinality(Of(f, Len(f) + 1)) \in Nat
  BY <1>3, FS_CardinalityType
<1>7. Cardinality(Of(f, Len(f) + 1) \union {Len(f) + 1}) = Cardinality(Of(f, Len(f) + 1)) + 1
  BY <1>3, <1>5, FS_AddElement
<1>8. \A h, i : Count(h, t, i) = Cardinality(Of(h, i))
  BY DEF Count
<1> HIDE DEF Of, g
<1>9. Count(g, t, Len(f) + 2) = Count(f, t, Len(f) + 1) + (IF x.type = t THEN 1 ELSE 0)
  BY <1>4, <1>6, <1>7, <1>8
<1>10. \A i \in 1..(Len(f) + 1) : Count(g, t, i) = Count(f, t, i)
  BY <1>2, <1>8
<1>11. Count(f, t, Len(f) + 1) \in Nat
  BY <1>6, <1>8
<1> QED
  BY <1>9, <1>10, <1>11 DEF g

\* What the last frame must be for its place.
Fits(f, x) ==
  /\ x.type = "message_start" <=> f = <<>>
  /\ x.type = "start" => Starts(f) = Stops(f) /\ x.index = Starts(f)
  /\ x.type = "stop" \/ (\E d \in Deltas : x.type = d[1])
       => Starts(f) = Stops(f) + 1 /\ x.index = Stops(f)
  /\ \A d \in Deltas : x.type = d[1] => x.block = d[2]
  /\ x.type \in {"message_delta", "message_stop"} => Starts(f) = Stops(f)

\* A frame that fits goes after frames that are in place and go on.
LEMMA AppendFrame ==
  ASSUME NEW f \in Seq(Frames), NEW x \in Frames, Placed(f), Going(f), Fits(f, x)
  PROVE  /\ Append(f, x) \in Seq(Frames) /\ Append(f, x) # <<>>
         /\ Placed(Append(f, x)) /\ Final(Append(f, x))
         /\ x.type \notin Lasts => Going(Append(f, x))
         /\ Starts(Append(f, x)) = Starts(f) + (IF x.type = "start" THEN 1 ELSE 0)
         /\ Stops(Append(f, x)) = Stops(f) + (IF x.type = "stop" THEN 1 ELSE 0)
         /\ Starts(f) \in Nat /\ Stops(f) \in Nat
<1> DEFINE g == Append(f, x)
<1>1. /\ Len(f) \in Nat /\ DOMAIN f = 1..Len(f)
      /\ g \in Seq(Frames) /\ Len(g) = Len(f) + 1 /\ DOMAIN g = 1..(Len(f) + 1)
      /\ \A j \in 1..Len(f) : g[j] = f[j]
      /\ g[Len(f) + 1] = x
      /\ g # <<>>
  BY LenProperties
<1>2. "start" \in Types /\ "stop" \in Types
  BY DEF Types
<1>3. /\ Starts(f) \in Nat /\ Stops(f) \in Nat
      /\ \A i \in 1..(Len(f) + 1) : /\ Count(g, "start", i) = Count(f, "start", i)
                                    /\ Count(g, "stop", i) = Count(f, "stop", i)
      /\ Count(g, "start", Len(f) + 2) = Starts(f) + (IF x.type = "start" THEN 1 ELSE 0)
      /\ Count(g, "stop", Len(f) + 2) = Stops(f) + (IF x.type = "stop" THEN 1 ELSE 0)
  BY <1>2, CountAppend DEF Starts, Stops
<1> HIDE DEF g
<1>4. /\ Starts(g) = Starts(f) + (IF x.type = "start" THEN 1 ELSE 0)
      /\ Stops(g) = Stops(f) + (IF x.type = "stop" THEN 1 ELSE 0)
  <2>1. Len(g) + 1 = Len(f) + 2
    BY <1>1
  <2> QED
    BY <1>3, <2>1 DEF Starts, Stops
<1>5. ASSUME NEW i \in 1..Len(f)
      PROVE  InPlace(g, i)
  <2>1. i \in 1..(Len(f) + 1) /\ g[i] = f[i] /\ i \in DOMAIN f
    BY <1>1
  <2>2. InPlace(f, i)
    BY <2>1 DEF Placed
  <2>3. Count(g, "start", i) = Count(f, "start", i) /\ Count(g, "stop", i) = Count(f, "stop", i)
    BY <1>3, <2>1
  <2> QED
    BY <2>1, <2>2, <2>3 DEF InPlace, Inside, Outside
<1>6. InPlace(g, Len(f) + 1)
  <2>1. /\ Count(g, "start", Len(f) + 1) = Starts(f)
        /\ Count(g, "stop", Len(f) + 1) = Stops(f)
    BY <1>1, <1>3 DEF Starts, Stops
  <2>2. f = <<>> <=> Len(f) + 1 = 1
    BY <1>1, EmptySeq
  <2> QED
    BY <1>1, <2>1, <2>2 DEF InPlace, Inside, Outside, Fits
<1>7. Placed(g)
  <2>1. \A i \in DOMAIN g : i \in 1..Len(f) \/ i = Len(f) + 1
    BY <1>1
  <2> QED
    BY <1>5, <1>6, <2>1 DEF Placed
<1>8. Final(g) /\ (x.type \notin Lasts => Going(g))
  <2>1. \A i \in DOMAIN g : (i \in DOMAIN f /\ g[i] = f[i]) \/ (i = Len(g) /\ g[i] = x)
    BY <1>1
  <2> QED
    BY <2>1 DEF Final, Going
<1> QED
  BY <1>1, <1>3, <1>4, <1>7, <1>8 DEF g

-----------------------------------------------------------------------------
(* Steps of the route on /v1/messages *)

\* A route that may still say something.
Talking(r) == Sound(r) /\ Going(r.frames)


\* A frame said is one more frame of the route.
LEMMA SayIs ==
  ASSUME NEW r \in Routes, NEW t \in Types
  PROVE  LET x == [type |-> t, index |-> r.index, block |-> r.open]
         IN /\ x \in Frames
            /\ Say(r, t) \in Routes
            /\ Say(r, t).frames = Append(r.frames, x)
            /\ Say(r, t).open = r.open /\ Say(r, t).index = r.index
            /\ Say(r, t).started = r.started
<1> DEFINE x == [type |-> t, index |-> r.index, block |-> r.open]
<1>1. x \in Frames /\ r.frames \in Seq(Frames)
  BY DEF Routes, Frames
<1>2. Say(r, t) = [r EXCEPT !.frames = Append(r.frames, x)]
  BY DEF Say, Routes
<1> HIDE DEF x
<1>3. Append(r.frames, x) \in Seq(Frames)
  BY <1>1
<1>4. /\ Say(r, t) \in Routes
      /\ Say(r, t).frames = Append(r.frames, x)
      /\ Say(r, t).open = r.open /\ Say(r, t).index = r.index
      /\ Say(r, t).started = r.started
  BY <1>2, <1>3 DEF Routes
<1> QED
  BY <1>1, <1>4 DEF x

\* A frame other than a start or a stop leaves the open block as it is.
LEMMA SayFits ==
  ASSUME NEW r, Talking(r), NEW t \in Types \ {"start", "stop", "message_start"}, r.started,
         \A d \in Deltas : t = d[1] => r.open = d[2],
         t \in {"message_delta", "message_stop"} => r.open = "none"
  PROVE  /\ Sound(Say(r, t)) /\ Say(r, t).started
         /\ Say(r, t).open = r.open
         /\ t \notin Lasts => Talking(Say(r, t))
<1> DEFINE x == [type |-> t, index |-> r.index, block |-> r.open]
           f == r.frames
<1>1. r \in Routes /\ f \in Seq(Frames) /\ x \in Frames
  BY SayIs DEF Talking, Sound, Routes
<1>2. \A d \in Deltas : d[2] # "none"
  BY DEF Deltas
<1>3. Fits(f, x)
  <2>1. /\ f # <<>> /\ r.index \in Nat /\ Stops(f) = r.index
        /\ Starts(f) = r.index + (IF r.open = "none" THEN 0 ELSE 1)
    BY <1>1 DEF Talking, Sound, Routes
  <2>2. x.type = t /\ x.block = r.open /\ x.index = r.index
    OBVIOUS
  <2>3. t \notin {"start", "stop", "message_start"}
    OBVIOUS
  <2> HIDE DEF x, f
  <2>4. \A d \in Deltas : x.type = d[1] =>
          Starts(f) = Stops(f) + 1 /\ x.index = Stops(f) /\ x.block = d[2]
    BY <1>2, <2>1, <2>2
  <2>5. x.type \in {"message_delta", "message_stop"} => Starts(f) = Stops(f)
    BY <2>1, <2>2
  <2> QED
    BY <2>1, <2>2, <2>3, <2>4, <2>5 DEF Fits
<1>4. /\ Append(f, x) # <<>>
      /\ Placed(Append(f, x)) /\ Final(Append(f, x))
      /\ t \notin Lasts => Going(Append(f, x))
      /\ Starts(Append(f, x)) = Starts(f) /\ Stops(Append(f, x)) = Stops(f)
  BY <1>1, <1>3, AppendFrame DEF Talking, Sound
<1>5. /\ Say(r, t) \in Routes /\ Say(r, t).frames = Append(f, x)
      /\ Say(r, t).open = r.open /\ Say(r, t).index = r.index /\ Say(r, t).started = r.started
  BY <1>1, SayIs
<1> HIDE DEF x, f
<1> QED
  BY <1>4, <1>5 DEF Talking, Sound, f

\* The first frame.
LEMMA StartRoute ==
  ASSUME NEW r, Talking(r), ~r.started
  PROVE  LET r1 == [Say(r, "message_start") EXCEPT !.started = TRUE]
         IN Talking(r1) /\ r1.started /\ r1.open = r.open
<1> DEFINE x == [type |-> "message_start", index |-> r.index, block |-> r.open]
           f == r.frames
           r1 == [Say(r, "message_start") EXCEPT !.started = TRUE]
<1>1. r \in Routes /\ f \in Seq(Frames) /\ x \in Frames /\ "message_start" \in Types
  BY SayIs DEF Talking, Sound, Routes, Types
<1>2. f = <<>>
  BY DEF Talking, Sound
<1>3. Fits(f, x)
  <2>1. \A d \in Deltas : d[1] # "message_start"
    BY DEF Deltas
  <2>2. x.type = "message_start"
    OBVIOUS
  <2> HIDE DEF x, f
  <2> QED
    BY <1>2, <2>1, <2>2 DEF Fits
<1>4. /\ Append(f, x) # <<>>
      /\ Placed(Append(f, x)) /\ Final(Append(f, x))
      /\ Going(Append(f, x))
      /\ Starts(Append(f, x)) = Starts(f) /\ Stops(Append(f, x)) = Stops(f)
  BY <1>1, <1>3, AppendFrame DEF Talking, Sound, Lasts
<1>5. /\ Say(r, "message_start") \in Routes /\ Say(r, "message_start").frames = Append(f, x)
      /\ Say(r, "message_start").open = r.open /\ Say(r, "message_start").index = r.index
  BY <1>1, SayIs
<1> HIDE DEF x, f
<1>6. /\ r1 \in Routes /\ r1.frames = Append(f, x) /\ r1.open = r.open /\ r1.index = r.index
      /\ r1.started
  BY <1>5 DEF Routes
<1> HIDE DEF r1
<1>7. Talking(r1) /\ r1.started /\ r1.open = r.open
  BY <1>4, <1>6 DEF Talking, Sound, f
<1> QED
  BY <1>7 DEF r1

\* Closing leaves no block open.
LEMMA CloseRoute ==
  ASSUME NEW r, Talking(r), r.started
  PROVE  Talking(Close(r)) /\ Close(r).started /\ Close(r).open = "none"
<1>1. CASE r.open = "none"
  BY <1>1 DEF Close
<1>2. CASE r.open # "none"
  <2> DEFINE x == [type |-> "stop", index |-> r.index, block |-> r.open]
             f == r.frames
             s == Say(r, "stop")
  <2>1. r \in Routes /\ f \in Seq(Frames) /\ x \in Frames /\ "stop" \in Types
    BY SayIs DEF Talking, Sound, Routes, Types
  <2>2. Fits(f, x)
    <3>1. /\ f # <<>> /\ r.index \in Nat /\ Stops(f) = r.index /\ Starts(f) = r.index + 1
      BY <1>2, <2>1 DEF Talking, Sound, Routes
    <3>2. x.type = "stop" /\ x.index = r.index
      OBVIOUS
    <3>3. \A d \in Deltas : d[1] # "stop"
      BY DEF Deltas
    <3> HIDE DEF x, f
    <3> QED
      BY <3>1, <3>2, <3>3 DEF Fits
  <2>3. /\ Append(f, x) # <<>>
        /\ Placed(Append(f, x)) /\ Final(Append(f, x))
        /\ Going(Append(f, x))
        /\ Starts(Append(f, x)) = Starts(f) /\ Stops(Append(f, x)) = Stops(f) + 1
    BY <2>1, <2>2, AppendFrame DEF Talking, Sound, Lasts
  <2>4. /\ s \in Routes /\ s.frames = Append(f, x)
        /\ s.index = r.index /\ s.started = r.started
    BY <2>1, SayIs
  <2>5. Close(r) = [s EXCEPT !.index = s.index + 1, !.open = "none"]
    BY <1>2 DEF Close
  <2> HIDE DEF x, f, s
  <2>6. /\ Close(r) \in Routes /\ Close(r).frames = Append(f, x)
        /\ Close(r).index = r.index + 1 /\ Close(r).open = "none"
        /\ Close(r).started = r.started
    <3>1. s.index + 1 \in Nat /\ "none" \in Blocks
      BY <2>1, <2>4 DEF Routes, Blocks
    <3> QED
      BY <2>4, <2>5, <3>1 DEF Routes
  <2>7. Starts(f) = r.index + 1 /\ Stops(f) = r.index /\ r.index \in Nat
    BY <1>2, <2>1 DEF Talking, Sound, f, Routes
  <2> QED
    BY <2>3, <2>6, <2>7 DEF Talking, Sound
<1> QED
  BY <1>1, <1>2

\* Opening a block where none is open.
LEMMA OpenRoute ==
  ASSUME NEW r, Talking(r), r.started, r.open = "none", NEW b \in Blocks \ {"none"}
  PROVE  Talking(Open(r, b)) /\ Open(r, b).started /\ Open(r, b).open = b
<1> DEFINE q == [r EXCEPT !.open = b]
           x == [type |-> "start", index |-> q.index, block |-> q.open]
           f == r.frames
<1>1. r \in Routes /\ "start" \in Types
  BY DEF Talking, Sound, Types
<1>2. /\ q \in Routes /\ q.frames = f /\ q.index = r.index /\ q.open = b
      /\ q.started = r.started
  BY <1>1 DEF Routes
<1>3. f \in Seq(Frames) /\ x \in Frames
  BY <1>1, <1>2, SayIs DEF Routes
<1>4. Fits(f, x)
  <2>1. /\ f # <<>> /\ r.index \in Nat /\ Stops(f) = r.index /\ Starts(f) = r.index
    BY <1>1 DEF Talking, Sound, Routes
  <2>2. x.type = "start" /\ x.index = r.index
    BY <1>2
  <2>3. \A d \in Deltas : d[1] # "start"
    BY DEF Deltas
  <2> HIDE DEF x, f
  <2> QED
    BY <2>1, <2>2, <2>3 DEF Fits
<1>5. /\ Append(f, x) # <<>>
      /\ Placed(Append(f, x)) /\ Final(Append(f, x))
      /\ Going(Append(f, x))
      /\ Starts(Append(f, x)) = Starts(f) + 1 /\ Stops(Append(f, x)) = Stops(f)
  BY <1>3, <1>4, AppendFrame DEF Talking, Sound, Lasts
<1>6. /\ Say(q, "start") \in Routes /\ Say(q, "start").frames = Append(q.frames, x)
      /\ Say(q, "start").open = q.open /\ Say(q, "start").index = q.index
      /\ Say(q, "start").started = q.started
  BY <1>1, <1>2, SayIs
<1>7. Open(r, b) = Say(q, "start")
  BY DEF Open
<1> HIDE DEF q, x, f
<1>8. /\ Open(r, b) \in Routes /\ Open(r, b).frames = Append(f, x)
      /\ Open(r, b).open = b /\ Open(r, b).index = r.index /\ Open(r, b).started
  BY <1>2, <1>6, <1>7
<1>9. Starts(f) = r.index /\ Stops(f) = r.index /\ r.index \in Nat
  BY <1>1 DEF Talking, Sound, f, Routes
<1> QED
  BY <1>5, <1>8, <1>9 DEF Talking, Sound

\* The block of an event is the open one after Within.
LEMMA WithinRoute ==
  ASSUME NEW r, Talking(r), r.started, NEW b \in Blocks \ {"none"}
  PROVE  Talking(Within(r, b)) /\ Within(r, b).started /\ Within(r, b).open = b
BY CloseRoute, OpenRoute DEF Within

\* An event leaves the route sound; an error is the only one after which it has no
\* more to say.
LEMMA MessagesSound ==
  ASSUME NEW r0, Talking(r0), NEW e \in Events, e.kind = "extra_delta" => r0.open = "extra"
  PROVE  LET r1 == ToMessages(r0, e)
         IN /\ Sound(r1) /\ r1.started
            /\ e.kind # "error" => Talking(r1)
            /\ e.kind = "extra_start" => r1.open = "extra"
            /\ e.kind = "extra_delta" => r1.open = "extra"
            /\ e.kind \in {"summary", "summary_tools"} => r1.open = "none"
<1> DEFINE r == IF r0.started THEN r0
                ELSE [Say(r0, "message_start") EXCEPT !.started = TRUE]
           r1 == ToMessages(r0, e)
<1>1. Talking(r) /\ r.started /\ r.open = r0.open
  <2>0. r0.started \in BOOLEAN
    BY DEF Talking, Sound, Routes
  <2>1. CASE r0.started
    BY <2>1
  <2>2. CASE ~r0.started
    BY <2>2, StartRoute
  <2> QED
    BY <2>0, <2>1, <2>2
<1>2. r1 = CASE e.kind = "thinking" -> Say(Within(r, "thinking"), "thinking_delta")
       [] e.kind = "signature" -> IF r.open = "thinking"
                                  THEN Close(Say(r, "signature_delta")) ELSE r
       [] e.kind = "thinking_block" -> Redacted(r)
       [] e.kind = "extra_start" -> Open(Close(r), "extra")
       [] e.kind = "extra_delta" -> Say(r, "extra_delta")
       [] e.kind = "extra_stop" -> IF r.open = "extra" THEN Close(r) ELSE r
       [] e.kind \in {"text", "refusal"} -> Say(Within(r, "text"), "text_delta")
       [] e.kind = "citation" -> Say(Within(r, "text"), "citations_delta")
       [] e.kind = "error" -> Say(r, "error")
       [] e.kind = "summary" -> Close(r)
       [] e.kind = "summary_tools" ->
            Close(Say(Open(Close(r), "tool_use"), "input_json_delta"))
       [] OTHER -> r
  BY DEF ToMessages
<1> HIDE DEF r, r1
<1>3. /\ {"thinking", "text", "extra", "redacted", "tool_use"} \subseteq Blocks \ {"none"}
      /\ {"thinking_delta", "signature_delta", "text_delta", "citations_delta",
          "extra_delta", "input_json_delta", "error"}
         \subseteq Types \ {"start", "stop", "message_start", "message_delta", "message_stop"}
  BY DEF Blocks, Types
<1>4. ASSUME NEW d \in Deltas, NEW q, Talking(q), q.started, q.open = d[2]
      PROVE  Talking(Say(q, d[1])) /\ Say(q, d[1]).started /\ Say(q, d[1]).open = d[2]
  <2>1. /\ d[1] \in Types \ {"start", "stop", "message_start", "message_delta", "message_stop"}
        /\ d[1] \notin Lasts
        /\ \A c \in Deltas : d[1] = c[1] => c[2] = d[2]
    BY <1>3 DEF Deltas, Lasts
  <2> QED
    BY <1>4, <2>1, SayFits
<1>5. ASSUME Talking(r1), r1.started, e.kind = "extra_start" => r1.open = "extra",
             e.kind = "extra_delta" => r1.open = "extra",
             e.kind \in {"summary", "summary_tools"} => r1.open = "none"
      PROVE  /\ Sound(r1) /\ r1.started
             /\ e.kind # "error" => Talking(r1)
             /\ e.kind = "extra_start" => r1.open = "extra"
             /\ e.kind = "extra_delta" => r1.open = "extra"
             /\ e.kind \in {"summary", "summary_tools"} => r1.open = "none"
  BY <1>5 DEF Talking
<1>6. CASE e.kind = "thinking"
  <2>1. Talking(Within(r, "thinking")) /\ Within(r, "thinking").started
        /\ Within(r, "thinking").open = "thinking"
    BY <1>1, <1>3, WithinRoute
  <2>2. r1 = Say(Within(r, "thinking"), "thinking_delta")
    BY <1>2, <1>6
  <2>3. <<"thinking_delta", "thinking">> \in Deltas
    BY DEF Deltas
  <2>4. Talking(r1) /\ r1.started
    BY <1>4, <2>1, <2>2, <2>3
  <2> QED
    BY <1>5, <1>6, <2>4 DEF r1
<1>7. CASE e.kind = "signature"
  <2>1. CASE r.open = "thinking"
    <3>1. r1 = Close(Say(r, "signature_delta"))
      BY <1>2, <1>7, <2>1
    <3>2. <<"signature_delta", "thinking">> \in Deltas
      BY DEF Deltas
    <3>3. Talking(Say(r, "signature_delta")) /\ Say(r, "signature_delta").started
      BY <1>1, <1>4, <2>1, <3>2
    <3>4. Talking(r1) /\ r1.started
      BY <3>1, <3>3, CloseRoute
    <3> QED
      BY <1>5, <1>7, <3>4 DEF r1
  <2>2. CASE r.open # "thinking"
    <3>1. r1 = r
      BY <1>2, <1>7, <2>2
    <3> QED
      BY <1>1, <1>5, <1>7, <3>1 DEF r1
  <2> QED
    BY <2>1, <2>2
<1>8. CASE e.kind = "thinking_block"
  <2>1. r1 = Close(Open(Close(r), "redacted"))
    BY <1>2, <1>8 DEF Redacted
  <2>2. Talking(Open(Close(r), "redacted")) /\ Open(Close(r), "redacted").started
    BY <1>1, <1>3, CloseRoute, OpenRoute
  <2>3. Talking(r1) /\ r1.started
    BY <2>1, <2>2, CloseRoute
  <2> QED
    BY <1>5, <1>8, <2>3 DEF r1
<1>9. CASE e.kind = "extra_start"
  <2>1. r1 = Open(Close(r), "extra")
    BY <1>2, <1>9
  <2>2. Talking(r1) /\ r1.started /\ r1.open = "extra"
    BY <1>1, <1>3, <2>1, CloseRoute, OpenRoute
  <2> QED
    BY <1>5, <1>9, <2>2 DEF r1
<1>10. CASE e.kind = "extra_delta"
  <2>1. r1 = Say(r, "extra_delta")
    BY <1>2, <1>10
  <2>2. <<"extra_delta", "extra">> \in Deltas
    BY DEF Deltas
  <2>3. Talking(r1) /\ r1.started /\ r1.open = "extra"
    BY <1>1, <1>4, <1>10, <2>1, <2>2
  <2> QED
    BY <1>5, <1>10, <2>3 DEF r1
<1>11. CASE e.kind = "extra_stop"
  <2>1. r1 = IF r.open = "extra" THEN Close(r) ELSE r
    BY <1>2, <1>11
  <2>2. Talking(r1) /\ r1.started
    BY <1>1, <2>1, CloseRoute
  <2> QED
    BY <1>5, <1>11, <2>2 DEF r1
<1>12. CASE e.kind \in {"text", "refusal"}
  <2>1. Talking(Within(r, "text")) /\ Within(r, "text").started
        /\ Within(r, "text").open = "text"
    BY <1>1, <1>3, WithinRoute
  <2>2. r1 = Say(Within(r, "text"), "text_delta")
    BY <1>2, <1>12
  <2>3. <<"text_delta", "text">> \in Deltas
    BY DEF Deltas
  <2>4. Talking(r1) /\ r1.started
    BY <1>4, <2>1, <2>2, <2>3
  <2> QED
    BY <1>5, <1>12, <2>4 DEF r1
<1>13. CASE e.kind = "citation"
  <2>1. Talking(Within(r, "text")) /\ Within(r, "text").started
        /\ Within(r, "text").open = "text"
    BY <1>1, <1>3, WithinRoute
  <2>2. r1 = Say(Within(r, "text"), "citations_delta")
    BY <1>2, <1>13
  <2>3. <<"citations_delta", "text">> \in Deltas
    BY DEF Deltas
  <2>4. Talking(r1) /\ r1.started
    BY <1>4, <2>1, <2>2, <2>3
  <2> QED
    BY <1>5, <1>13, <2>4 DEF r1
<1>14. CASE e.kind = "error"
  <2>1. r1 = Say(r, "error")
    BY <1>2, <1>14
  <2>2. "error" \in Types \ {"start", "stop", "message_start"}
        /\ (\A d \in Deltas : "error" # d[1])
    BY <1>3 DEF Deltas
  <2>3. Sound(r1) /\ r1.started
    BY <1>1, <2>1, <2>2, SayFits
  <2> QED
    BY <1>14, <2>3 DEF r1
<1>15. CASE e.kind = "summary"
  <2>1. r1 = Close(r)
    BY <1>2, <1>15
  <2>2. Talking(r1) /\ r1.started /\ r1.open = "none"
    BY <1>1, <2>1, CloseRoute
  <2> QED
    BY <1>5, <1>15, <2>2 DEF r1
<1>16. CASE e.kind = "summary_tools"
  <2> DEFINE q == Open(Close(r), "tool_use")
  <2>1. r1 = Close(Say(q, "input_json_delta"))
    BY <1>2, <1>16
  <2>2. Talking(q) /\ q.started /\ q.open = "tool_use"
    BY <1>1, <1>3, CloseRoute, OpenRoute
  <2>3. <<"input_json_delta", "tool_use">> \in Deltas
    BY DEF Deltas
  <2> HIDE DEF q
  <2>4. Talking(Say(q, "input_json_delta")) /\ Say(q, "input_json_delta").started
    BY <1>4, <2>2, <2>3
  <2>5. Talking(r1) /\ r1.started /\ r1.open = "none"
    BY <2>1, <2>4, CloseRoute
  <2> QED
    BY <1>5, <1>16, <2>5 DEF r1
<1>17. CASE e.kind \in {"fingerprint", "annotations", "fields"}
  <2>1. r1 = r
    BY <1>2, <1>17
  <2> QED
    BY <1>1, <1>5, <1>17, <2>1 DEF r1
<1>18. e.kind \in Kinds
  BY DEF Events
<1> QED
  BY <1>6, <1>7, <1>8, <1>9, <1>10, <1>11, <1>12, <1>13, <1>14, <1>15, <1>16, <1>17, <1>18
     DEF Kinds, r1

-----------------------------------------------------------------------------
(* The message the client gets *)

\* Where deltas of an extra block may be among the events to yield.
DeltaFirst(es, b) == \A i \in DOMAIN es : es[i].kind = "extra_delta" => i = 1 /\ b = "extra"
ExtraLast(es) == es # <<>> /\ es[Len(es)].kind \in {"extra_start", "extra_delta"}

\* What BlocksWellFormed rests on: the frames are in place and the route knows which
\* block is open, and a delta of an extra block finds that block open.
Framed ==
  surface = "anthropic" =>
    /\ Sound(route)
    /\ pc # "over" /\ ~(pc = "ending" /\ errored) => Going(route.frames)
    /\ route.started <=> said # <<>>
    /\ pc = "ending" /\ ~errored => route.open = "none"
    /\ pc = "upstream" /\ block = "extra" => route.open = "extra"
    /\ pc = "client" =>
         /\ DeltaFirst(out, route.open)
         /\ then = "upstream" /\ block = "extra" => ExtraLast(out)
         /\ then = "ending" /\ out[1].kind = "error" => errored

NoDelta(es) == es \in Seq(Events) /\ \A i \in DOMAIN es : es[i].kind # "extra_delta"

\* NoDelta of a concatenation, of one event, of what a channel held.
LEMMA NoDeltaConcat ==
  ASSUME NEW a, NEW b, NoDelta(a), NoDelta(b)
  PROVE  NoDelta(a \o b)
<1>1. /\ a \o b \in Seq(Events)
      /\ Len(a \o b) = Len(a) + Len(b)
      /\ \A i \in 1..(Len(a) + Len(b)) :
           (a \o b)[i] = IF i <= Len(a) THEN a[i] ELSE b[i - Len(a)]
  BY ConcatProperties DEF NoDelta
<1>2. Len(a) \in Nat /\ Len(b) \in Nat /\ DOMAIN a = 1..Len(a) /\ DOMAIN b = 1..Len(b)
      /\ DOMAIN (a \o b) = 1..Len(a \o b)
  BY <1>1, LenProperties DEF NoDelta
<1>3. ASSUME NEW i \in DOMAIN (a \o b)
      PROVE  (a \o b)[i].kind # "extra_delta"
  <2>1. CASE i <= Len(a)
    BY <1>1, <1>2, <2>1 DEF NoDelta
  <2>2. CASE ~(i <= Len(a))
    <3>1. i - Len(a) \in DOMAIN b
      BY <1>1, <1>2, <2>2
    <3> QED
      BY <1>1, <1>2, <2>2, <3>1 DEF NoDelta
  <2> QED
    BY <2>1, <2>2
<1> QED
  BY <1>1, <1>3 DEF NoDelta

LEMMA NoDeltaOne ==
  ASSUME NEW e \in Events, e.kind # "extra_delta"
  PROVE  NoDelta(<<e>>)
BY DEF NoDelta

LEMMA NoDeltaRest ==
  ASSUME TypeOK, NEW c \in Channels \ {"extra"}
  PROVE  NoDelta(Rest(c, c))
<1>1. held[c] \in Seq(Nat)
  BY DEF TypeOK, PiecesOK, Pieces
<1>2. Event(c, held[c]) \in Events /\ Event(c, held[c]).kind # "extra_delta"
  BY <1>1 DEF Event, Events, Kinds, Channels
<1>3. NoDelta(<<>>)
  BY DEF NoDelta
<1> QED
  BY <1>2, <1>3, NoDeltaOne DEF Rest

LEMMA NoDeltaFirst ==
  ASSUME NEW es, NEW b, NoDelta(es)
  PROVE  DeltaFirst(es, b)
BY DEF NoDelta, DeltaFirst

\* The last of the events that follow others.
LEMMA LastOfTwo ==
  ASSUME NEW a \in Seq(Events), NEW e \in Events
  PROVE  a \o <<e>> # <<>> /\ (a \o <<e>>)[Len(a \o <<e>>)] = e
<1>1. <<e>> \in Seq(Events) /\ Len(<<e>>) = 1 /\ <<e>>[1] = e
  OBVIOUS
<1>2. Len(a) \in Nat
  BY LenProperties
<1>3. /\ Len(a \o <<e>>) = Len(a) + 1 /\ a \o <<e>> \in Seq(Events)
      /\ (a \o <<e>>)[Len(a) + 1]
           = IF Len(a) + 1 <= Len(a) THEN a[Len(a) + 1] ELSE <<e>>[Len(a) + 1 - Len(a)]
  BY <1>1, <1>2, ConcatProperties
<1>4. (a \o <<e>>)[Len(a) + 1] = e
  BY <1>1, <1>2, <1>3
<1>5. a \o <<e>> # <<>>
  BY <1>2, <1>3, EmptySeq
<1> QED
  BY <1>3, <1>4, <1>5

\* A piece fed to a redactor other than the extra block's is no delta of that block.
LEMMA FeedNoDelta ==
  ASSUME TypeOK, NEW c \in Channels \ {"extra"}, NEW before, NoDelta(before),
         NEW flushed \in Pieces, Feed(c, c, before, flushed)
  PROVE  NoDelta(out')
<1> DEFINE piece == seen + 1
           all == Append(flushed[c], piece)
<1>1. piece \in Nat /\ flushed[c] \in Seq(Nat)
  BY StreamAssumption DEF TypeOK, InputOK, Pieces
<1>2. all \in Seq(Nat) /\ Len(all) = Len(flushed[c]) + 1 /\ Len(flushed[c]) \in Nat
  BY <1>1, LenProperties
<1>3. ASSUME NEW ps \in Seq(Nat)
      PROVE  NoDelta(before \o <<Event(c, ps)>>)
  <2>1. Event(c, ps) \in Events /\ Event(c, ps).kind # "extra_delta"
    BY DEF Event, Events, Kinds, Channels
  <2> QED
    BY <2>1, NoDeltaOne, NoDeltaConcat
<1>4. \/ out' = before \o <<Event(c, <<piece>>)>>
      \/ out' = before
      \/ \E n \in 0..Len(flushed[c]) : out' = before \o <<Event(c, SubSeq(all, 1, n))>>
  BY DEF Feed, Yield
<1> HIDE DEF all, piece
<1>5. ASSUME NEW n \in 0..Len(flushed[c])
      PROVE  SubSeq(all, 1, n) \in Seq(Nat)
  <2>1. n \in 0..Len(all) /\ 1 \in 1..(Len(all) + 1)
    BY <1>2
  <2> QED
    BY <1>2, <2>1, CutOK
<1>6. <<piece>> \in Seq(Nat)
  BY <1>1
<1> QED
  BY <1>3, <1>4, <1>5, <1>6

\* What an event received may leave to yield.
LEMMA ReceiveDeltas ==
  ASSUME TypeOK, Receive
  PROVE  /\ DeltaFirst(out', block)
         /\ block' = "extra" => ExtraLast(out')
<1>1. Channels = {"text", "thinking", "refusal", "extra"}
  BY DEF Channels
<1>2. held \in Pieces /\ seen + 1 \in Nat /\ <<seen + 1>> \in Seq(Nat) /\ <<>> \in Seq(Nat)
      /\ NoDelta(<<>>)
  BY StreamAssumption DEF TypeOK, InputOK, PiecesOK, NoDelta
<1>3. ASSUME NoDelta(out'), block' # "extra"
      PROVE  /\ DeltaFirst(out', block)
             /\ block' = "extra" => ExtraLast(out')
  BY <1>3, NoDeltaFirst
<1>4. ASSUME NEW k \in Kinds \ {"extra_delta"}, NEW ps \in Seq(Nat)
      PROVE  Event(k, ps) \in Events /\ Event(k, ps).kind = k /\ NoDelta(<<Event(k, ps)>>)
  <2>1. Event(k, ps) \in Events /\ Event(k, ps).kind = k
    BY DEF Event, Events
  <2> QED
    BY <2>1, NoDeltaOne
<1>5. {"signature", "thinking_block", "citation", "fields", "fingerprint", "annotations",
       "extra_start", "extra_stop"} \subseteq Kinds \ {"extra_delta"}
  BY DEF Kinds
<1>6. CASE GetText
  <2>1. /\ block' = "text"
        /\ Feed("text", "text", Rest("thinking", "thinking"), [held EXCEPT !["thinking"] = <<>>])
    BY <1>6 DEF GetText, Arrives
  <2>2. [held EXCEPT !["thinking"] = <<>>] \in Pieces /\ NoDelta(Rest("thinking", "thinking"))
    BY <1>1, Emptied, NoDeltaRest
  <2>3. NoDelta(out')
    BY <1>1, <2>1, <2>2, FeedNoDelta
  <2> QED
    BY <1>3, <2>1, <2>3
<1>7. CASE GetRefusal \/ GetThinking
  <2>1. PICK c \in {"refusal", "thinking"} : Feed(c, c, <<>>, held)
    BY <1>7 DEF GetRefusal, GetThinking
  <2>2. block' # "extra"
    BY <1>7 DEF GetRefusal, GetThinking, Arrives
  <2>3. NoDelta(out')
    <3> DEFINE flushed == held
    <3>1. flushed \in Pieces /\ Feed(c, c, <<>>, flushed)
      BY <1>2, <2>1
    <3> HIDE DEF flushed
    <3> QED
      BY <1>1, <1>2, <3>1, FeedNoDelta
  <2> QED
    BY <1>3, <2>2, <2>3
<1>8. CASE GetSignature \/ GetThinkingBlock
  <2>1. PICK k \in {"signature", "thinking_block"} :
              out' = Rest("thinking", "thinking") \o <<Event(k, <<seen + 1>>)>>
    BY <1>8 DEF GetSignature, GetThinkingBlock, Pass, Yield, Mark
  <2>2. block' = "none"
    BY <1>8 DEF GetSignature, GetThinkingBlock, Arrives
  <2>3. NoDelta(Rest("thinking", "thinking"))
    BY <1>1, NoDeltaRest
  <2>4. NoDelta(<<Event(k, <<seen + 1>>)>>)
    BY <1>2, <1>4, <1>5
  <2>5. NoDelta(out')
    BY <2>1, <2>3, <2>4, NoDeltaConcat
  <2> QED
    BY <1>3, <2>2, <2>5
<1>9. CASE GetCitation \/ GetNote
  <2>1. PICK k \in {"citation", "fields", "fingerprint", "annotations"} :
              out' = <<Event(k, <<>>)>>
    BY <1>9 DEF GetCitation, GetNote, Yield, Whole
  <2>2. block' # "extra"
    BY <1>9 DEF GetCitation, GetNote, Arrives
  <2>3. NoDelta(out')
    BY <1>2, <1>4, <1>5, <2>1
  <2> QED
    BY <1>3, <2>2, <2>3
<1>10. CASE GetExtraStart
  <2> DEFINE e == Event("extra_start", <<seen + 1>>)
  <2>1. out' = Rest("text", "text") \o <<e>>
    BY <1>10 DEF GetExtraStart, Yield, Mark
  <2>2. NoDelta(Rest("text", "text"))
    BY <1>1, NoDeltaRest
  <2>3. e \in Events /\ e.kind = "extra_start" /\ NoDelta(<<e>>)
    BY <1>2, <1>4, <1>5
  <2> HIDE DEF e
  <2>4. NoDelta(out')
    BY <2>1, <2>2, <2>3, NoDeltaConcat
  <2>5. ExtraLast(out')
    BY <2>1, <2>2, <2>3, LastOfTwo DEF NoDelta, ExtraLast
  <2> QED
    BY <2>4, <2>5, NoDeltaFirst
<1>11. CASE GetExtraDelta
  <2>1. block = "extra"
    BY <1>11 DEF GetExtraDelta, Arrives
  <2>2. PICK ps : out' = <<Event("extra_delta", ps)>>
    BY <1>11 DEF GetExtraDelta, Yield
  <2>3. Len(out') = 1 /\ DOMAIN out' = {1} /\ out'[1].kind = "extra_delta" /\ out' # <<>>
    BY <2>2 DEF Event
  <2> QED
    BY <2>1, <2>3 DEF DeltaFirst, ExtraLast
<1>12. CASE GetExtraStop
  <2> DEFINE e == Event("extra_stop", <<seen + 1>>)
  <2>1. block = "extra" /\ block' = "none" /\ out' = Rest("extra", "extra_delta") \o <<e>>
    BY <1>12 DEF GetExtraStop, Pass, Arrives, Yield, Mark
  <2>2. e \in Events /\ e.kind = "extra_stop"
    BY <1>2, <1>4, <1>5
  <2> HIDE DEF e
  <2>3. DeltaFirst(out', block)
    <3>1. CASE Rest("extra", "extra_delta") = <<>>
      BY <2>1, <2>2, <3>1 DEF DeltaFirst
    <3>2. CASE Rest("extra", "extra_delta") # <<>>
      <4> DEFINE d == Event("extra_delta", held["extra"])
      <4>1. Rest("extra", "extra_delta") = <<d>>
        BY <3>2 DEF Rest
      <4>2. d \in Events
        BY <1>1, <1>2 DEF Events, Event, Kinds, Pieces
      <4> HIDE DEF d
      <4>3. <<d>> \in Seq(Events) /\ <<e>> \in Seq(Events) /\ Len(<<d>>) = 1 /\ Len(<<e>>) = 1
            /\ <<e>>[1] = e
        BY <2>2, <4>2
      <4>4. /\ out' \in Seq(Events) /\ Len(out') = 1 + 1
            /\ \A i \in 1..(1 + 1) : out'[i] = IF i <= 1 THEN <<d>>[i] ELSE <<e>>[i - 1]
        BY <2>1, <4>1, <4>3, ConcatProperties
      <4>5. DOMAIN out' = 1..2
        BY <4>4, LenProperties
      <4>6. ASSUME NEW i \in DOMAIN out', i # 1
            PROVE  out'[i] = e
        <5>1. i = 2 /\ i - 1 = 1 /\ ~(i <= 1) /\ i \in 1..(1 + 1)
          BY <4>5, <4>6
        <5> QED
          BY <4>3, <4>4, <5>1
      <4> QED
        BY <2>1, <2>2, <4>6 DEF DeltaFirst
    <3> QED
      BY <3>1, <3>2
  <2> QED
    BY <2>1, <2>3
<1> QED
  BY <1>6, <1>7, <1>8, <1>9, <1>10, <1>11, <1>12 DEF Receive

\* No frame was sent yet.
LEMMA InitFramed == Init => Framed
<1> SUFFICES ASSUME Init PROVE Framed
  OBVIOUS
<1>1. /\ pc = "upstream" /\ said = <<>> /\ block = "none"
      /\ route = [started |-> FALSE, open |-> "none", index |-> 0, frames |-> <<>>]
  BY DEF Init
<1>2. /\ route.frames = <<>> /\ route.open = "none" /\ route.index = 0 /\ route.started = FALSE
      /\ route \in Routes
  BY <1>1 DEF Routes, Blocks
<1>3. \A t : Count(<<>>, t, 1) = 0
  <2> TAKE t
  <2>1. {j \in 1..(1 - 1) : <<>>[j].type = t} = {}
    OBVIOUS
  <2> QED
    BY <2>1, FS_EmptySet DEF Count
<1>4. Starts(<<>>) = 0 /\ Stops(<<>>) = 0
  <2>1. Len(<<>>) + 1 = 1
    OBVIOUS
  <2> QED
    BY <1>3, <2>1 DEF Starts, Stops
<1>5. Placed(<<>>) /\ Final(<<>>) /\ Going(<<>>)
  BY DEF Placed, Final, Going
<1>6. Sound(route)
  BY <1>2, <1>4, <1>5 DEF Sound
<1> QED
  BY <1>1, <1>2, <1>5, <1>6 DEF Framed

\* An event of the upstream arrives.
LEMMA ReceiveFramed ==
  ASSUME IInv, Framed, Receive
  PROVE  Framed'
<1> SUFFICES ASSUME surface' = "anthropic" PROVE Framed'
  BY DEF Framed
<1>1. /\ pc = "upstream" /\ UNCHANGED <<surface, route, said, errored>>
      /\ TypeOK /\ Onward("upstream")
  BY ReceiveFrame, ReceiveClean DEF IInv, Received
<1>2. DeltaFirst(out', block) /\ (block' = "extra" => ExtraLast(out'))
  BY <1>1, ReceiveDeltas
<1>3. /\ Sound(route) /\ Going(route.frames) /\ (route.started <=> said # <<>>)
      /\ block = "extra" => route.open = "extra"
  BY <1>1 DEF Framed
<1>4. DeltaFirst(out', route.open)
  BY <1>2, <1>3 DEF DeltaFirst
<1>5. /\ pc' \in {"upstream", "client"} /\ then' = "upstream"
      /\ pc' = "upstream" => out' = <<>>
  BY <1>1 DEF Onward
<1>6. pc' = "upstream" => block' # "extra"
  BY <1>2, <1>5 DEF ExtraLast
<1> QED
  BY <1>1, <1>2, <1>3, <1>4, <1>5, <1>6 DEF Framed

\* The tail of a sequence is empty when it has one element.
LEMMA OneLeft ==
  ASSUME NEW es \in Seq(Events), es # <<>>
  PROVE  Tail(es) = <<>> <=> Len(es) = 1
<1>1. Tail(es) \in Seq(Events) /\ Len(Tail(es)) = Len(es) - 1 /\ Len(es) \in Nat
  BY HeadTailProperties, LenProperties
<1>2. Tail(es) = <<>> => Len(Tail(es)) = 0
  <2>1. Len(<<>>) = 0
    OBVIOUS
  <2>2. ASSUME Tail(es) = <<>> PROVE Len(Tail(es)) = 0
    BY <2>1, <2>2, Zenon
  <2> QED
    BY <2>2
<1>3. Len(Tail(es)) = 0 => Tail(es) = <<>>
  BY <1>1, EmptySeq
<1> QED
  BY <1>1, <1>2, <1>3

\* The client takes an event: the route sends its frames.
LEMMA DeliverFramed ==
  ASSUME IInv, Framed, Deliver
  PROVE  Framed'
<1> SUFFICES ASSUME surface' = "anthropic" PROVE Framed'
  BY DEF Framed
<1>1. TypeOK /\ Billed /\ Ordered
  BY DEF IInv
<1>2. /\ pc = "client" /\ out # <<>>
      /\ said' = Append(said, Head(out)) /\ out' = Tail(out)
      /\ pc' = (IF Tail(out) = <<>> THEN then ELSE "client")
      /\ UNCHANGED <<surface, block, errored, then>>
      /\ route' = Render(route, Head(out))
  BY <1>1 DEF Deliver, Ordered, upstream, answer, ending, bill
<1>3. /\ out \in Seq(Events) /\ said \in Seq(Events)
      /\ then \in {"upstream", "finishing", "ending"}
  BY <1>1 DEF TypeOK, EventsOK, ControlOK
<1>4. /\ Head(out) \in Events /\ Tail(out) \in Seq(Events)
      /\ Len(Tail(out)) = Len(out) - 1
      /\ \A i \in 1..Len(Tail(out)) : Tail(out)[i] = out[i + 1]
      /\ Len(out) \in Nat \ {0} /\ DOMAIN out = 1..Len(out)
      /\ Len(Tail(out)) \in Nat /\ DOMAIN Tail(out) = 1..Len(Tail(out))
      /\ Head(out) = out[1] /\ 1 \in DOMAIN out
  BY <1>2, <1>3, HeadTailProperties, LenProperties, EmptySeq
<1>5. /\ Sound(route) /\ Going(route.frames)
      /\ DeltaFirst(out, route.open)
      /\ then = "upstream" /\ block = "extra" => ExtraLast(out)
      /\ then = "ending" /\ out[1].kind = "error" => errored
  BY <1>2 DEF Framed
<1> DEFINE e == Head(out)
<1>6. route' = ToMessages(route, e)
  BY <1>2 DEF Render
<1>7. Talking(route) /\ e \in Events /\ (e.kind = "extra_delta" => route.open = "extra")
  BY <1>4, <1>5 DEF Talking, DeltaFirst
<1>8. /\ Sound(route') /\ route'.started
      /\ e.kind # "error" => Talking(route')
      /\ e.kind = "extra_start" => route'.open = "extra"
      /\ e.kind = "extra_delta" => route'.open = "extra"
      /\ e.kind \in {"summary", "summary_tools"} => route'.open = "none"
  BY <1>6, <1>7, MessagesSound
<1>9. e = out[1]
  BY <1>4
<1> HIDE DEF e
<1>10. said' # <<>>
  BY <1>2, <1>3, <1>4
<1>11. then = "ending" => Len(out) = 1 /\ e.kind \in Terminal /\ (e.kind = "error" => errored)
  BY <1>1, <1>2, <1>5, <1>9 DEF Ordered
<1>12. then # "ending" => e.kind \notin Terminal
  <2>1. then # "ending" => Clean(out, completion, refused)
    BY <1>1, <1>2 DEF Ordered
  <2> QED
    BY <1>4, <1>9, <2>1 DEF Clean
<1>13. Tail(out) = <<>> <=> Len(out) = 1
  BY <1>2, <1>3, OneLeft
<1>14. Len(out) = 1 => Tail(out) = <<>>
  BY <1>13
<1>15. pc' # "over" /\ ~(pc' = "ending" /\ errored') => Going(route'.frames)
  <2>1. CASE then = "ending"
    <3>1. pc' = "ending"
      BY <1>2, <1>11, <1>14, <2>1
    <3>2. ~errored => e.kind # "error"
      BY <1>11, <2>1
    <3> QED
      BY <1>2, <1>8, <3>1, <3>2 DEF Talking
  <2>2. CASE then # "ending"
    <3>1. e.kind # "error"
      BY <1>12, <2>2 DEF Terminal
    <3> QED
      BY <1>8, <3>1 DEF Talking
  <2> QED
    BY <2>1, <2>2
<1>16. pc' = "ending" /\ ~errored' => route'.open = "none"
  <2> SUFFICES ASSUME pc' = "ending", ~errored' PROVE route'.open = "none"
    OBVIOUS
  <2>1. then = "ending"
    BY <1>2
  <2>2. e.kind \in {"summary", "summary_tools"}
    BY <1>2, <1>11, <2>1 DEF Terminal
  <2> QED
    BY <1>8, <2>2
<1>17. pc' = "upstream" /\ block' = "extra" => route'.open = "extra"
  <2> SUFFICES ASSUME pc' = "upstream", block' = "extra" PROVE route'.open = "extra"
    OBVIOUS
  <2>1. then = "upstream" /\ Tail(out) = <<>>
    BY <1>2
  <2>2. Len(out) = 1 /\ ExtraLast(out)
    BY <1>2, <1>5, <1>13, <2>1
  <2>3. e.kind \in {"extra_start", "extra_delta"}
    BY <1>9, <2>2 DEF ExtraLast
  <2> QED
    BY <1>8, <2>3
<1>18. pc' = "client" => /\ DeltaFirst(out', route'.open)
                         /\ then' = "upstream" /\ block' = "extra" => ExtraLast(out')
                         /\ then' = "ending" /\ out'[1].kind = "error" => errored'
  <2> SUFFICES ASSUME pc' = "client"
               PROVE  /\ DeltaFirst(out', route'.open)
                      /\ then' = "upstream" /\ block' = "extra" => ExtraLast(out')
                      /\ then' = "ending" /\ out'[1].kind = "error" => errored'
    OBVIOUS
  <2>1. Tail(out) # <<>> /\ Len(out) # 1
    BY <1>2, <1>3, <1>14
  <2>2. \A i \in DOMAIN Tail(out) : /\ i + 1 \in DOMAIN out /\ i + 1 # 1
                                    /\ Tail(out)[i] = out[i + 1]
    BY <1>4
  <2>3. DeltaFirst(out', route'.open)
    BY <1>2, <1>5, <2>2 DEF DeltaFirst
  <2>4. then = "upstream" /\ block = "extra" => ExtraLast(out')
    <3>1. Len(Tail(out)) \in DOMAIN Tail(out) /\ Len(Tail(out)) + 1 = Len(out)
      BY <1>4, <2>1
    <3>2. Tail(out)[Len(Tail(out))] = out[Len(out)]
      BY <2>2, <3>1
    <3> QED
      BY <1>2, <1>5, <2>1, <3>2 DEF ExtraLast
  <2>5. then # "ending"
    BY <1>11, <2>1
  <2> QED
    BY <1>2, <2>3, <2>4, <2>5
<1> QED
  BY <1>8, <1>10, <1>15, <1>16, <1>17, <1>18 DEF Framed

\* When upstream has ended, what an extra block still holds is all there is to yield.
LEMMA EndsFramed ==
  ASSUME IInv, Tails, Framed, Ends
  PROVE  Framed'
<1> SUFFICES ASSUME surface' = "anthropic" PROVE Framed'
  BY DEF Framed
<1> DEFINE a == Rest("text", "text")
           b == Rest("thinking", "thinking")
           c == Rest("refusal", "refusal")
           d == Rest("extra", "extra_delta")
<1>1. /\ pc = "upstream" /\ out' = ((a \o b) \o c) \o d /\ then' = "finishing"
      /\ pc' \in {"client", "finishing"}
      /\ UNCHANGED <<surface, block, said, route, errored>> /\ TypeOK
  BY DEF Ends, Yield, upstream, ending, bill, client, IInv
<1>2. /\ Sound(route) /\ Going(route.frames) /\ (route.started <=> said # <<>>)
      /\ block = "extra" => route.open = "extra"
  BY <1>1 DEF Framed
<1>3. "text" \in Channels \ {"extra"} /\ "thinking" \in Channels \ {"extra"}
      /\ "refusal" \in Channels \ {"extra"} /\ "extra" \in Channels
  BY DEF Channels
<1>4. NoDelta(a) /\ NoDelta(b) /\ NoDelta(c)
  BY <1>1, <1>3, NoDeltaRest
<1>5. DeltaFirst(out', route.open)
  <2>1. CASE held["extra"] = <<>>
    <3>1. NoDelta(d)
      BY <2>1 DEF Rest, NoDelta
    <3>2. NoDelta(a \o b)
      BY <1>4, NoDeltaConcat
    <3>3. NoDelta((a \o b) \o c)
      BY <1>4, <3>2, NoDeltaConcat
    <3>4. NoDelta(out')
      BY <1>1, <3>1, <3>3, NoDeltaConcat
    <3> QED
      BY <3>4, NoDeltaFirst
  <2>2. CASE held["extra"] # <<>>
    <3>1. block = "extra" /\ held["text"] = <<>> /\ held["thinking"] = <<>>
          /\ held["refusal"] = <<>>
      BY <2>2 DEF Tails
    <3>2. a = <<>> /\ b = <<>> /\ c = <<>> /\ d = <<Event("extra_delta", held["extra"])>>
      BY <2>2, <3>1 DEF Rest
    <3>3. out' = d
      <4>1. d \in Seq(Events)
        <5>1. Event("extra_delta", held["extra"]) \in Events
          BY <1>1, <1>3 DEF Event, Events, Kinds, TypeOK, PiecesOK, Pieces
        <5>2. \A x \in Events : <<x>> \in Seq(Events)
          OBVIOUS
        <5> DEFINE x == Event("extra_delta", held["extra"])
        <5>3. x \in Events /\ d = <<x>>
          BY <3>2, <5>1
        <5> HIDE DEF x, d
        <5> QED
          BY <5>2, <5>3
      <4>2. (<<>> \o <<>>) \o <<>> = <<>> /\ <<>> \o d = d
        BY <4>1, ConcatEmptySeq
      <4> QED
        BY <1>1, <3>2, <4>2
    <3>4. DOMAIN out' = {1}
      BY <3>2, <3>3
    <3> QED
      BY <1>2, <3>1, <3>4 DEF DeltaFirst
  <2> QED
    BY <2>1, <2>2
<1> HIDE DEF a, b, c, d
<1> QED
  BY <1>1, <1>2, <1>5 DEF Framed

\* The route's last frames.
LEMMA EndFramed ==
  ASSUME IInv, Framed, End
  PROVE  Framed'
<1> SUFFICES ASSUME surface' = "anthropic" PROVE Framed'
  BY DEF Framed
<1>1. /\ pc = "ending" /\ pc' = "over" /\ route' = RouteEnds
      /\ UNCHANGED <<surface, errored, said>>
      /\ said # <<>>
  BY DEF End, upstream, answer, ending, bill, IInv, Ordered
<1>2. /\ Sound(route) /\ (~errored => Going(route.frames) /\ route.open = "none")
      /\ route.started
  BY <1>1 DEF Framed
<1>3. Sound(route') /\ route'.started
  <2>1. CASE errored
    <3>1. route' = route
      BY <1>1, <2>1 DEF RouteEnds
    <3> QED
      BY <1>2, <3>1
  <2>2. CASE ~errored
    <3> DEFINE r == Say(route, "message_delta")
    <3>1. route' = Say(r, "message_stop")
      <4>1. surface = "anthropic"
        BY <1>1
      <4> QED
        BY <1>1, <2>2, <4>1 DEF RouteEnds
    <3>2. {"message_delta", "message_stop"} \subseteq Types \ {"start", "stop", "message_start"}
          /\ "message_delta" \notin Lasts
          /\ \A x \in Deltas : x[1] # "message_delta" /\ x[1] # "message_stop"
      BY DEF Types, Lasts, Deltas
    <3>3. Talking(route)
      BY <1>2, <2>2 DEF Talking
    <3>4. Talking(r) /\ r.started /\ r.open = "none"
      BY <1>2, <2>2, <3>2, <3>3, SayFits
    <3> HIDE DEF r
    <3> QED
      BY <3>1, <3>2, <3>4, SayFits
  <2> QED
    BY <2>1, <2>2
<1> QED
  BY <1>1, <1>3 DEF Framed

\* Steps that leave the route and its history alone, and yield at most the last event.
LEMMA ClosingFramed ==
  ASSUME Framed, UNCHANGED <<surface, route, said>>, pc # "over",
         pc = "ending" => pc' = "over",
         \/ pc' \in {"crediting", "parking", "over"}
         \/ /\ pc' = "client" /\ then' = "ending"
            /\ \E k \in Terminal : out' = Whole(k) /\ (k = "error" => errored')
  PROVE  Framed'
<1> SUFFICES ASSUME surface' = "anthropic" PROVE Framed'
  BY DEF Framed
<1>1. /\ Sound(route) /\ (route.started <=> said # <<>>)
      /\ pc # "ending" => Going(route.frames)
  BY DEF Framed
<1>2. ASSUME pc' = "client"
      PROVE  DeltaFirst(out', route'.open) /\ (out'[1].kind = "error" => errored')
             /\ then' = "ending"
  <2>1. PICK k \in Terminal : out' = Whole(k) /\ (k = "error" => errored')
    BY <1>2
  <2>2. out' = <<Event(k, <<>>)>> /\ k # "extra_delta"
    BY <2>1 DEF Whole, Terminal
  <2>3. DOMAIN out' = {1} /\ out'[1].kind = k
    BY <2>2 DEF Event
  <2> QED
    BY <1>2, <2>1, <2>2, <2>3 DEF DeltaFirst
<1> QED
  BY <1>1, <1>2 DEF Framed

\* Every step keeps Framed.
LEMMA NextFramed ==
  ASSUME IInv, IInv', Flowing, Framed, [Next]_vars
  PROVE  Framed'
<1>0. TypeOK /\ Billed /\ Ordered /\ Tails
  BY DEF IInv, Flowing
<1>1. CASE Receive
  BY <1>1, ReceiveFramed
<1>2. CASE Deliver
  BY <1>2, DeliverFramed
<1>3. CASE Ends
  BY <1>0, <1>3, EndsFramed
<1>4. CASE Finish
  <2>1. pc = "finishing" /\ pc' = "crediting" /\ UNCHANGED <<surface, route, said>>
    BY <1>4 DEF Finish, upstream, client
  <2> QED
    BY <2>1, ClosingFramed
<1>5. CASE Credit
  <2>1. pc = "crediting" /\ UNCHANGED <<surface, route, said>>
    BY <1>5 DEF Credit, upstream, client
  <2>2. \/ pc' = "over"
        \/ /\ pc' = "client" /\ then' = "ending"
           /\ \E k \in Terminal : out' = Whole(k) /\ k # "error"
    BY <1>5 DEF Credit, Yield, Whole, Terminal
  <2> QED
    BY <2>1, <2>2, ClosingFramed
<1>6. CASE Fails \/ Park
  <2>1. pc \in {"upstream", "parking"} /\ errored' /\ UNCHANGED <<surface, route, said>>
    BY <1>0, <1>6 DEF Fails, Park, Billed, TypeOK, ControlOK, upstream, ending, client
  <2>2. \/ pc' = "parking"
        \/ pc' = "client" /\ then' = "ending" /\ out' = Whole("error")
    BY <1>6 DEF Fails, Park, Yield, Whole
  <2> QED
    BY <2>1, <2>2, ClosingFramed DEF Terminal
<1>7. CASE End
  BY <1>7, EndFramed
<1>8. CASE Leave \/ Breaks
  <2>1. pc # "over" /\ pc' \in {"over", "crediting"} /\ UNCHANGED <<surface, route, said>>
    BY <1>8 DEF Leave, Breaks, Abandon, upstream, client
  <2>2. pc = "ending" => pc' = "over"
    BY <1>0, <1>8 DEF Leave, Breaks, Abandon, Billed
  <2> QED
    BY <2>1, <2>2, ClosingFramed
<1>9. CASE UNCHANGED vars
  <2>1. UNCHANGED <<surface, block, errored, pc, out, then, said, route>>
    BY <1>9 DEF vars, upstream, ending, client
  <2> QED
    BY <2>1 DEF Framed
<1> QED
  BY <1>1, <1>2, <1>3, <1>4, <1>5, <1>6, <1>7, <1>8, <1>9 DEF Next

\* What /v1/messages sends is a well-formed message: its blocks count up from zero, do
\* not nest and are closed, and a delta belongs to the open block and is of its type
\* (anthropic_messages of main.py).
THEOREM MessagesAreWellFormed == Spec => []BlocksWellFormed
<1>1. Framed => BlocksWellFormed
  <2> SUFFICES ASSUME Framed, surface = "anthropic", NEW i \in DOMAIN route.frames
               PROVE  LET f == route.frames
                          InBlock == Inside(f, i)
                          Of == [thinking_delta |-> "thinking", signature_delta |-> "thinking",
                                 text_delta |-> "text", citations_delta |-> "text",
                                 extra_delta |-> "extra", input_json_delta |-> "tool_use"]
                      IN /\ f[i].type = "message_start" <=> i = 1
                         /\ f[i].type = "start" => /\ Outside(f, i)
                                                   /\ f[i].index = Count(f, "start", i)
                         /\ f[i].type = "stop" => InBlock
                         /\ f[i].type \in DOMAIN Of => InBlock /\ f[i].block = Of[f[i].type]
                         /\ f[i].type \in {"message_delta", "message_stop"} => Outside(f, i)
                         /\ f[i].type \in {"error", "message_stop"} => i = Len(f)
    BY DEF BlocksWellFormed, Inside, Outside, Count
  <2>1. InPlace(route.frames, i) /\ Final(route.frames)
    BY DEF Framed, Sound, Placed
  <2> QED
    BY <2>1 DEF InPlace, Final, Lasts, Deltas
<1>2. Init => Framed
  BY InitFramed
<1>3. IInv /\ IInv' /\ Flowing /\ Framed /\ [Next]_vars => Framed'
  BY NextFramed
<1> QED
  BY <1>1, <1>2, <1>3, FlowInductive, PTL DEF Spec

=============================================================================
