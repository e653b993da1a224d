-------------------------------- MODULE MCWire --------------------------------
(* What goes over the wire, for TLC: a chat stream (StreamChat), the stream of an *)
(* upstream (StreamAdapters), a conversation and its payloads (Conversation), the *)
(* options of a request (RequestOptions); in a behaviour one of them goes on.     *)
EXTENDS StreamChat, StreamAdapters, Conversation, RequestOptions

VARIABLE part

parts == <<vars, adapterVars, conversationVars, asked, part>>

WireInit ==
  /\ Init /\ AdapterInit /\ ConversationInit /\ OptionsInit
  /\ part \in {"chat", "adapter", "conversation", "options"}
  /\ part # "chat" => surface = "native" /\ dialect = "openai" /\ ~redacting
  /\ part # "adapter" => adapter = "echo"
  /\ part # "conversation" => spoken = "native"

WireNext ==
  \/ part = "chat" /\ Next /\ UNCHANGED <<adapterVars, conversationVars, asked, part>>
  \/ part = "adapter" /\ AdapterNext /\ UNCHANGED <<vars, conversationVars, asked, part>>
  \/ part = "conversation" /\ ConversationNext /\ UNCHANGED <<vars, adapterVars, asked, part>>
  \/ part = "options" /\ OptionsNext /\ UNCHANGED <<vars, adapterVars, conversationVars, part>>

WireSpec == WireInit /\ [][WireNext]_parts
=============================================================================
