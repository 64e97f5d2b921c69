---------------------------- MODULE MCHTTPServer ----------------------------
(***************************************************************************)
(* Inputs for checking HTTPServer with TLC.                                *)
(***************************************************************************)
EXTENDS HTTPServer

\* Every call has an id of its own.
MCDistinct == [c \in Calls |-> c]

\* Two clients that both number their requests from 1, as the MessageHandler
\* of this repository does.
MCShared == [c \in Calls |-> 1]

=============================================================================
