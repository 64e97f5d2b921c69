-------------------------- MODULE MCStdioTransport --------------------------
(***************************************************************************)
(* Workloads for checking StdioTransport, alone and over a child process,  *)
(* with TLC.                                                               *)
(***************************************************************************)
EXTENDS ProcessTransport

\* The two directions share only the context and Close, so that each is loaded
\* in turn, and both lightly: lines of two kinds that fill the channels, two
\* responses around a request, and a line that is too long; messages out that
\* fill theirs; one of each.
MCWorkloads ==
    {[lines |-> <<"notification", "request", "notification">>, sends |-> 0],
     [lines |-> <<"response", "request", "response">>, sends |-> 0],
     [lines |-> <<"request", "long">>, sends |-> 0],
     [lines |-> <<>>, sends |-> 4],
     [lines |-> <<"request">>, sends |-> 1]}

\* A child that says something, one whose line is too long, and one that only
\* listens.
MCChildWorkloads ==
    {[lines |-> <<"notification">>, sends |-> 0],
     [lines |-> <<"long">>, sends |-> 0],
     [lines |-> <<>>, sends |-> 1]}

\* Nothing is said, one way or the other.
MCNone == {}

\* As many notifications as the channels and hands on their way can hold, and
\* then the response a caller waits for.
MCChatty ==
    {[lines |-> [i \in 1 .. 4 |-> "notification"] \o <<"response">>,
      sends |-> 0]}

=============================================================================
