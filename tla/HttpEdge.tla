-------------------------------- MODULE HttpEdge --------------------------------
(***************************************************************************)
(* The outer middlewares of one request (main.py), ASGI message by         *)
(* message: OpenAICompatErrorMiddleware around MaxBodySizeMiddleware       *)
(* around the application, by which all that is inside is meant: the       *)
(* concurrency limit, the gate, the routes.                                *)
(*                                                                         *)
(* receive() gives the next piece of the request's body, or a disconnect;  *)
(* send() takes the start of a response and then the pieces of its body.   *)
(***************************************************************************)
EXTENDS Naturals, Sequences, SequencesExt

CONSTANTS
  MaxBytes,     \* max_body_bytes
  Chunks,       \* sizes of the pieces that clients send
  MaxChunks     \* bound: the pieces a client sends

ASSUME EdgeAssumption ==
  MaxBytes \in Nat \ {0} /\ Chunks \subseteq Nat /\ MaxChunks \in Nat

VARIABLES
  compat,       \* the path is one of _COMPAT_ERROR_TRANSLATORS
  uploaded,     \* the messages the server has received from the client (history)
  buffered,     \* chunks, of MaxBodySizeMiddleware
  replayed,     \* index: how many of them the application has read
  received,     \* the messages the application has read (history)
  where,        \* buffering, refusing (413), or in the application
  reply,        \* the response under way: what it is to be, and how far it is
  start, parts, \* start and chunks, of OpenAICompatErrorMiddleware
  output        \* the messages sent to the client

edgeVars ==
  <<compat, uploaded, buffered, replayed, received, where, reply, start, parts, output>>

\* Error bodies: RekAI's flat JSON, in an envelope already, or no JSON object at all.
\* They may come in two pieces.
Bodies == [kind : {"flat", "envelope", "opaque"}, pieces : 1..2]
Unwritten == [status |-> "none", kind |-> "none", pieces |-> 0, sent |-> 0]

EdgeInit ==
  /\ compat \in BOOLEAN
  /\ uploaded = <<>> /\ buffered = <<>> /\ replayed = 0 /\ received = <<>>
  /\ where = "buffering"
  /\ reply = Unwritten
  /\ start = <<>> /\ parts = <<>>
  /\ output = <<>>

-----------------------------------------------------------------------------
(* The request's body *)

Disconnect == [size |-> 0, more |-> FALSE, gone |-> TRUE]
Left == uploaded # <<>> /\ Last(uploaded).gone
Complete == uploaded # <<>> /\ ~Last(uploaded).more

\* What receive() may give next.  After the body, and ever after a disconnect, there is
\* only a disconnect.
NextMessage(m) ==
  \/ m = Disconnect
  \/ /\ ~Complete /\ Len(uploaded) < MaxChunks
     /\ m \in [size : Chunks, more : BOOLEAN, gone : {FALSE}]

Bytes(ms) == FoldLeft(LAMBDA n, m : n + m.size, 0, ms)

\* Variant: a disconnect is dropped, as if it were the end of the body.
BufferQuietly ==
  /\ where = "buffering"
  /\ \E m \in {n \in [size : Chunks, more : BOOLEAN, gone : {FALSE}] \cup {Disconnect} : NextMessage(n)} :
       /\ uploaded' = Append(uploaded, m)
       /\ buffered' = Append(buffered, [m EXCEPT !.gone = FALSE])
       /\ where' = IF Bytes(buffered') > MaxBytes THEN "refusing"
                   ELSE IF m.more THEN "buffering" ELSE "app"
  /\ UNCHANGED <<compat, replayed, received, reply, start, parts, output>>

\* The body is read up to its end, or one piece past the limit, before anything else.
Buffer ==
  /\ where = "buffering"
  /\ \E m \in {n \in [size : Chunks, more : BOOLEAN, gone : {FALSE}] \cup {Disconnect} : NextMessage(n)} :
       /\ uploaded' = Append(uploaded, m)
       /\ buffered' = Append(buffered, m)
       /\ where' = IF Bytes(buffered') > MaxBytes THEN "refusing"
                   ELSE IF m.more THEN "buffering" ELSE "app"
  /\ UNCHANGED <<compat, replayed, received, reply, start, parts, output>>

\* replay_receive: what was buffered, then whatever comes.
Read ==
  /\ where = "app"
  /\ IF replayed < Len(buffered)
     THEN /\ replayed' = replayed + 1
          /\ received' = Append(received, buffered[replayed'])
          /\ UNCHANGED uploaded
     ELSE /\ ~Left
          /\ uploaded' = Append(uploaded, Disconnect)
          /\ received' = Append(received, Disconnect)
          /\ UNCHANGED replayed
  /\ UNCHANGED <<compat, buffered, where, reply, start, parts, output>>

-----------------------------------------------------------------------------
(* The response *)

Piece(r, i) == <<r.kind, i, r.pieces>>
IsFlat(ps) == ps = [i \in 1..Len(ps) |-> <<"flat", i, Len(ps)>>]

\* _openai_error_body, _anthropic_error_body: a flat body, if it is whole, gets the
\* envelope of the path; any other is left as it is.
Translate(ps) == IF IsFlat(ps) THEN <<<<"envelope", 1, 1>>>> ELSE ps

\* Variant: each piece is translated as it comes.
SendThroughPiecewise(m) ==
  CASE compat /\ m.type = "start" /\ m.error -> start' = <<m>> /\ UNCHANGED <<parts, output>>
    [] start # <<>> /\ m.type = "body" ->
         /\ output' = (IF parts = <<>> THEN output \o start ELSE output)
                        \o <<[m EXCEPT !.body = Translate(@)]>>
         /\ parts' = parts \o m.body
         /\ UNCHANGED start
    [] OTHER -> output' = Append(output, m) /\ UNCHANGED <<start, parts>>

\* _send: the start of an error is held back until its body is whole.
SendThrough(m) ==
  CASE compat /\ m.type = "start" /\ m.error -> start' = <<m>> /\ UNCHANGED <<parts, output>>
    [] start # <<>> /\ m.type = "body" ->
         /\ parts' = parts \o m.body
         /\ output' = IF m.more THEN output
                      ELSE output \o start \o <<[m EXCEPT !.body = Translate(parts')]>>
         /\ UNCHANGED start
    [] OTHER -> output' = Append(output, m) /\ UNCHANGED <<start, parts>>

Starts(status, kind, pieces) ==
  /\ reply.status = "none"
  /\ reply' = [status |-> status, kind |-> kind, pieces |-> pieces, sent |-> 0]
  /\ SendThrough([type |-> "start", error |-> status = "error", body |-> <<>>, more |-> TRUE])
  /\ UNCHANGED <<compat, uploaded, buffered, replayed, received, where>>

\* The body is too large: 413, and the application is never called.
Refuse == where = "refusing" /\ Starts("error", "flat", 1)

\* The application answers, having read as much as it cares to: with an answer, maybe a
\* streamed one, or with an error of any shape.
Respond ==
  /\ where = "app"
  /\ \/ \E n \in 1..2 : Starts("ok", "answer", n)
     \/ \E b \in Bodies : Starts("error", b.kind, b.pieces)

SendBody ==
  /\ reply.status # "none" /\ reply.sent < reply.pieces
  /\ reply' = [reply EXCEPT !.sent = @ + 1]
  /\ SendThrough([type |-> "body", error |-> reply.status = "error",
                  body |-> <<Piece(reply, reply.sent + 1)>>,
                  more |-> reply.sent + 1 < reply.pieces])
  /\ UNCHANGED <<compat, uploaded, buffered, replayed, received, where>>

EdgeNext == Buffer \/ Read \/ Refuse \/ Respond \/ SendBody

EdgeSpec == EdgeInit /\ [][EdgeNext]_edgeVars

-----------------------------------------------------------------------------
(* Correctness *)

\* The application reads what the client sent, piece by piece, nothing twice, nothing
\* skipped and no disconnect hidden, though it was all read before; and it reads nothing
\* of a body that is larger than the limit, whatever its Content-Length said.
ReadsWhatWasSent ==
  /\ IsPrefix(received, uploaded)
  /\ received # <<>> => Bytes(uploaded) <= MaxBytes

\* The client gets one response: a start, then its body to the last piece.  An error on
\* a path of another vendor's API comes in that vendor's envelope, whoever inside or
\* outside of the routes made it, unless it is no JSON object.
OneResponse ==
  /\ \A i \in DOMAIN output : output[i].type = "start" <=> i = 1
  /\ \A i \in DOMAIN output : ~output[i].more => i = Len(output)
  /\ reply.status # "none" /\ reply.sent = reply.pieces =>
       LET said == FlattenSeq([i \in DOMAIN output |-> output[i].body])
           meant == [i \in 1..reply.pieces |-> Piece(reply, i)]
       IN said = IF compat /\ reply.kind = "flat" THEN <<<<"envelope", 1, 1>>>> ELSE meant
=============================================================================
