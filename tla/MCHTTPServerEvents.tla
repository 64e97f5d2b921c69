-------------------------- MODULE MCHTTPServerEvents --------------------------
(***************************************************************************)
(* Inputs for checking HTTPServerEvents with TLC.                          *)
(***************************************************************************)
EXTENDS HTTPServerEvents

\* Every call has an id of its own.
MCDistinct == [c \in Calls |-> c]

\* The calls by themselves; a call beside a stream and a notification; two
\* notifications to a stream, and one to two.
MCLoads == {[calls |-> 2, streams |-> 0, notices |-> 0],
            [calls |-> 1, streams |-> 1, notices |-> 1],
            [calls |-> 0, streams |-> 1, notices |-> 2],
            [calls |-> 0, streams |-> 2, notices |-> 1]}

=============================================================================
