-------------------------- MODULE MCMessageHandler --------------------------
(***************************************************************************)
(* Model values for checking MessageHandler with TLC.                      *)
(***************************************************************************)
EXTENDS MessageHandler

Response(h) == [kind |-> "response", id |-> [type |-> "float64", halves |-> h]]

\* Responses to request 1 and 2, and one whose id is 1.5.
MCResponses == {Response(2), Response(3), Response(4)}

=============================================================================
