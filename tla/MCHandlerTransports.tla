------------------------ MODULE MCHandlerTransports -------------------------
(***************************************************************************)
(* Model values for checking HandlerTransports with TLC: the messages the  *)
(* peer of an unspecified transport may send.                              *)
(***************************************************************************)
EXTENDS HandlerTransports

Other(kind) == [kind |-> kind, id |-> NoId]

\* A response to request 1, one with a string id, a request, a notification,
\* and bytes that are no message.
MCPeer == {Answer(1)} \cup
              {Other(k) : k \in {"request", "notification", "response", "malformed"}}

=============================================================================
