------------------------- MODULE WebSocketTransport -------------------------
(***************************************************************************)
(* transport/websocket.go: a transport over a connection that is dialled   *)
(* anew when it is lost.                                                   *)
(*                                                                         *)
(* Connections are numbered.  Each starts a readLoop, a writeLoop and a    *)
(* pingLoop, but none of them keeps its connection: each looks at the      *)
(* field conn again for every message, so that a loop may go on with the   *)
(* next connection.  Only the end of a readLoop counts as a disconnection; *)
(* it closes the connection and may start a goroutine that reconnects.     *)
(*                                                                         *)
(* connMu is held while Connect dials.  Messages are left out: at any time *)
(* there may be one to send or one to read.                                *)
(***************************************************************************)
EXTENDS Naturals

CONSTANTS
    MaxConnections,  \* bound on the connections that are established
    MaxReconnects    \* WebSocketConfig.MaxReconnects

ASSUME ConstantsAssumption ==
    /\ MaxConnections \in Nat
    /\ MaxReconnects \in Nat

Connections == 1 .. MaxConnections
None == 0
App == MaxConnections + 1

VARIABLES
    conn,            \* the connection in the field conn, or None
    connected,       \* the flag connected
    made,            \* connections made so far
    open,            \* connections we have not closed
    dialing,         \* who holds connMu in Connect: a goroutine of
                     \* handleDisconnection, App or None
    reconnectCount,
    reader,          \* reader[g]: the readLoop started with connection g
    writer,          \* writer[g]: its writeLoop
    pinger,          \* pinger[g]: its pingLoop
    retry,           \* retry[g]: the goroutine its handleDisconnection starts
    ctxDone,         \* the transport's context is done
    closer           \* Close (sync.Once) and the connection it has taken

connVars == <<conn, connected, made, open, dialing>>
vars == <<connVars, reconnectCount, reader, writer, pinger, retry,
          ctxDone, closer>>

LoopAt(place) == [at |-> place, on |-> None]

Unlocked == dialing = None

(***************************************************************************)
(* Connect, called by the application or by a goroutine that reconnects    *)
(***************************************************************************)
Failed(who) == IF who = App THEN retry
                            ELSE [retry EXCEPT ![who] = "failed"]

\* Mutated form: a connection that is there already is replaced.
ConnectBeginsAnyway(who) ==
    /\ Unlocked
    /\ who # App => retry[who] = "connect"
    /\ dialing' = who
    /\ UNCHANGED <<conn, connected, made, open, reconnectCount, reader,
                   writer, pinger, retry, ctxDone, closer>>

\* connMu is taken; with a connection there already Connect is an error.
ConnectBegins(who) ==
    /\ Unlocked
    /\ who # App => retry[who] = "connect"
    /\ IF conn = None
       THEN /\ dialing' = who
            /\ retry' = retry
       ELSE /\ dialing' = dialing
            /\ retry' = Failed(who)
    /\ UNCHANGED <<conn, connected, made, open, reconnectCount, reader,
                   writer, pinger, ctxDone, closer>>

DialFails ==
    /\ dialing # None
    /\ retry' = Failed(dialing)
    /\ dialing' = None
    /\ UNCHANGED <<conn, connected, made, open, reconnectCount, reader,
                   writer, pinger, ctxDone, closer>>

\* The connection, the flag and the three loops, before connMu is released.
DialSucceeds ==
    /\ dialing # None
    /\ made < MaxConnections
    /\ LET g == made + 1 IN
       /\ made' = g
       /\ conn' = g
       /\ open' = open \cup {g}
       /\ reader' = [reader EXCEPT ![g] = LoopAt("load")]
       /\ writer' = [writer EXCEPT ![g] = LoopAt("idle")]
       /\ pinger' = [pinger EXCEPT ![g] = LoopAt("idle")]
    /\ connected' = TRUE
    /\ retry' = IF dialing = App THEN retry
                                 ELSE [retry EXCEPT ![dialing] = "reset"]
    /\ dialing' = None
    /\ UNCHANGED <<reconnectCount, ctxDone, closer>>

(***************************************************************************)
(* readLoop                                                                *)
(***************************************************************************)
ReaderVars == <<conn, connected, made, open, dialing, reconnectCount,
                writer, pinger, retry, ctxDone, closer>>

\* The top of the loop: a look at ctx, then at the connection.
ReaderLoads(g) ==
    /\ Unlocked
    /\ reader[g].at = "load"
    /\ reader' = [reader EXCEPT ![g] = IF ctxDone \/ conn = None
                                       THEN LoopAt("flag")
                                       ELSE [at |-> "read", on |-> conn]]
    /\ UNCHANGED ReaderVars

\* ReadMessage returns a message, which is handed over before the next one.
ReaderReads(g) ==
    /\ reader[g].at = "read"
    /\ reader[g].on \in open
    /\ reader' = [reader EXCEPT ![g] = LoopAt("load")]
    /\ UNCHANGED ReaderVars

\* The peer or the network ends the connection.
ReaderLosesPeer(g) ==
    /\ reader[g].at = "read"
    /\ reader' = [reader EXCEPT ![g] = LoopAt("flag")]
    /\ UNCHANGED ReaderVars

PingsAlive == \E h \in Connections : pinger[h].at \in {"idle", "write"}

\* We have closed the connection, or nobody pings the peer any more, so that no
\* pong moves the read deadline.
ReaderEnds(g) ==
    /\ reader[g].at = "read"
    /\ reader[g].on \notin open \/ ~PingsAlive
    /\ reader' = [reader EXCEPT ![g] = LoopAt("flag")]
    /\ UNCHANGED ReaderVars

(***************************************************************************)
(* handleDisconnection                                                     *)
(***************************************************************************)
ReaderClearsFlag(g) ==
    /\ reader[g].at = "flag"
    /\ connected' = FALSE
    /\ reader' = [reader EXCEPT ![g] = LoopAt("drop")]
    /\ UNCHANGED <<conn, made, open, dialing, reconnectCount, writer,
                   pinger, retry, ctxDone, closer>>

\* The critical section: whatever connection there is now is closed.
ReaderDropsConnection(g) ==
    /\ Unlocked
    /\ reader[g].at = "drop"
    /\ open' = open \ {conn}
    /\ conn' = None
    /\ reader' = [reader EXCEPT ![g] = LoopAt("decide")]
    /\ UNCHANGED <<connected, made, dialing, reconnectCount, writer,
                   pinger, retry, ctxDone, closer>>

\* Mutated form: a lost connection is not dialled again.
ReaderNeverRetries(g) ==
    /\ reader[g].at = "decide"
    /\ reader' = [reader EXCEPT ![g] = LoopAt("exited")]
    /\ UNCHANGED ReaderVars

\* Below the limit a goroutine is started that waits and connects, also when
\* the transport is being closed; unless the application has set reconnectEnabled
\* to false, which it may do at any time.
ReaderRetries(g) ==
    /\ reader[g].at = "decide"
    /\ \/ /\ reconnectCount < MaxReconnects
          /\ reconnectCount' = reconnectCount + 1
          /\ retry' = [retry EXCEPT ![g] = "sleep"]
       \/ /\ reconnectCount >= MaxReconnects
          /\ retry' = [retry EXCEPT ![g] = "givenUp"]
          /\ UNCHANGED reconnectCount
       \/ /\ retry' = [retry EXCEPT ![g] = "disabled"]
          /\ UNCHANGED reconnectCount
    /\ reader' = [reader EXCEPT ![g] = LoopAt("exited")]
    /\ UNCHANGED <<connVars, writer, pinger, ctxDone, closer>>

\* After the delay, a look at ctx.
RetryWakes(g) ==
    /\ retry[g] = "sleep"
    /\ retry' = [retry EXCEPT ![g] = IF ctxDone THEN "done" ELSE "connect"]
    /\ UNCHANGED <<connVars, reconnectCount, reader, writer, pinger,
                   ctxDone, closer>>

\* reconnectCount = 0, after Connect has returned and without a lock.
RetryResetsCount(g) ==
    /\ retry[g] = "reset"
    /\ reconnectCount' = 0
    /\ retry' = [retry EXCEPT ![g] = "done"]
    /\ UNCHANGED <<connVars, reader, writer, pinger, ctxDone, closer>>

\* ResetReconnectCount, called by the application.
ResetReconnectCount ==
    /\ reconnectCount' = 0
    /\ UNCHANGED <<connVars, reader, writer, pinger, retry, ctxDone, closer>>

(***************************************************************************)
(* writeLoop and pingLoop                                                  *)
(***************************************************************************)

\* A message is taken and the connection looked up; without one the message is
\* lost and the loop ends.
WriterTakes(g) ==
    /\ Unlocked
    /\ writer[g].at = "idle"
    /\ writer' = [writer EXCEPT ![g] = IF conn = None THEN LoopAt("exited")
                                       ELSE [at |-> "write", on |-> conn]]
    /\ UNCHANGED <<connVars, reconnectCount, reader, pinger, retry, ctxDone,
                   closer>>

PingerTicks(g) ==
    /\ Unlocked
    /\ pinger[g].at = "idle"
    /\ pinger' = [pinger EXCEPT ![g] = IF conn = None THEN LoopAt("exited")
                                       ELSE [at |-> "write", on |-> conn]]
    /\ UNCHANGED <<connVars, reconnectCount, reader, writer, retry,
                   ctxDone, closer>>

\* WriteMessage of a loop in its old state l returns, with an error or without.
WriteReturns(l, ended) ==
    /\ l.at = "write"
    /\ \/ l.on \in open /\ ended = LoopAt("idle")
       \/ ended = LoopAt("exited")

WriterWrites(g) ==
    /\ \E ended \in {LoopAt("idle"), LoopAt("exited")} :
           /\ WriteReturns(writer[g], ended)
           /\ writer' = [writer EXCEPT ![g] = ended]
    /\ UNCHANGED <<connVars, reconnectCount, reader, pinger, retry, ctxDone,
                   closer>>

PingerWrites(g) ==
    /\ \E ended \in {LoopAt("idle"), LoopAt("exited")} :
           /\ WriteReturns(pinger[g], ended)
           /\ pinger' = [pinger EXCEPT ![g] = ended]
    /\ UNCHANGED <<connVars, reconnectCount, reader, writer, retry, ctxDone,
                   closer>>

WriterExits(g) ==
    /\ ctxDone
    /\ writer[g].at = "idle"
    /\ writer' = [writer EXCEPT ![g] = LoopAt("exited")]
    /\ UNCHANGED <<connVars, reconnectCount, reader, pinger, retry,
                   ctxDone, closer>>

PingerExits(g) ==
    /\ ctxDone
    /\ pinger[g].at = "idle"
    /\ pinger' = [pinger EXCEPT ![g] = LoopAt("exited")]
    /\ UNCHANGED <<connVars, reconnectCount, reader, writer, retry,
                   ctxDone, closer>>

(***************************************************************************)
(* Close                                                                   *)
(***************************************************************************)
CloseCancels ==
    /\ closer.at = "open"
    /\ ctxDone' = TRUE
    /\ closer' = LoopAt("take")
    /\ UNCHANGED <<connVars, reconnectCount, reader, writer, pinger, retry>>

CloseTakesConnection ==
    /\ Unlocked
    /\ closer.at = "take"
    /\ closer' = [at |-> "disconnect", on |-> conn]
    /\ conn' = None
    /\ UNCHANGED <<connected, made, open, dialing, reconnectCount,
                   reader, writer, pinger, retry, ctxDone>>

\* A close message, whatever becomes of it, and the end of the connection.
CloseDisconnects ==
    /\ closer.at = "disconnect"
    /\ open' = open \ {closer.on}
    /\ closer' = LoopAt("wait")
    /\ UNCHANGED <<conn, connected, made, dialing, reconnectCount,
                   reader, writer, pinger, retry, ctxDone>>

\* The loops have ended, or five seconds have passed; MessageHandler.Close.
CloseReturns ==
    /\ closer.at = "wait"
    /\ connected' = FALSE
    /\ closer' = LoopAt("closed")
    /\ UNCHANGED <<conn, made, open, dialing, reconnectCount, reader,
                   writer, pinger, retry, ctxDone>>

ParentCancelled ==
    /\ ~ctxDone
    /\ ctxDone' = TRUE
    /\ UNCHANGED <<connVars, reconnectCount, reader, writer, pinger, retry, closer>>

(***************************************************************************)
(* The specification                                                       *)
(***************************************************************************)
Init ==
    /\ conn = None
    /\ connected = FALSE
    /\ made = 0
    /\ open = {}
    /\ dialing = None
    /\ reconnectCount = 0
    /\ reader = [g \in Connections |-> LoopAt("none")]
    /\ writer = [g \in Connections |-> LoopAt("none")]
    /\ pinger = [g \in Connections |-> LoopAt("none")]
    /\ retry = [g \in Connections |-> "none"]
    /\ ctxDone = FALSE
    /\ closer = LoopAt("open")

Dial == DialFails \/ DialSucceeds

Reader(g) == \/ ReaderLoads(g)
             \/ ReaderClearsFlag(g)
             \/ ReaderDropsConnection(g)
             \/ ReaderRetries(g)

Retry(g) == RetryWakes(g) \/ ConnectBegins(g) \/ RetryResetsCount(g)

Writer(g) == WriterTakes(g) \/ WriterWrites(g) \/ WriterExits(g)

Pinger(g) == PingerTicks(g) \/ PingerWrites(g) \/ PingerExits(g)

Close == CloseTakesConnection \/ CloseDisconnects \/ CloseReturns

Next == \/ ConnectBegins(App)
        \/ Dial
        \/ \E g \in Connections : \/ Reader(g)
                                  \/ ReaderReads(g)
                                  \/ ReaderEnds(g)
                                  \/ ReaderLosesPeer(g)
                                  \/ Retry(g)
                                  \/ Writer(g)
                                  \/ Pinger(g)
        \/ ResetReconnectCount
        \/ CloseCancels
        \/ Close
        \/ ParentCancelled

Spec == Init /\ [][Next]_vars

(***************************************************************************)
(* Properties                                                              *)
(***************************************************************************)
Places == {"none", "load", "read", "flag", "drop", "decide", "exited"}

Loops(places) == [at : places, on : Connections \cup {None}]

\* Type invariant of the transport and its goroutines.
TypeOK ==
    /\ conn \in Connections \cup {None}
    /\ connected \in BOOLEAN
    /\ made \in 0 .. MaxConnections
    /\ open \subseteq Connections
    /\ dialing \in Connections \cup {None, App}
    /\ reconnectCount \in 0 .. MaxReconnects
    /\ reader \in [Connections -> Loops(Places)]
    /\ writer \in [Connections -> Loops({"none", "idle", "write", "exited"})]
    /\ pinger \in [Connections -> Loops({"none", "idle", "write", "exited"})]
    /\ retry \in [Connections -> {"none", "sleep", "connect", "reset", "done",
                                  "failed", "givenUp", "disabled"}]
    /\ ctxDone \in BOOLEAN
    /\ closer \in Loops({"open", "take", "disconnect", "wait", "closed"})

\* No connection is leaked: one that is open is the one in use or in the hands
\* of Close, also when connections are made after Close has begun.
OpenIsHeld == open \subseteq {conn, closer.on}

\* The library allows one reader at a time, and without one the loss of a
\* connection is not noticed: however the ends of one connection and the
\* beginnings of the next interleave, Close included, no two readLoops read from
\* one connection, and the readLoop of the connection in use still runs.
OneReader ==
    /\ \A g, h \in Connections :
           reader[g].at = "read" /\ reader[h].at = "read"
           /\ reader[g].on = reader[h].on => g = h
    /\ conn # None => reader[conn].at \in {"load", "read", "flag", "drop"}

\* And one writer.
OneWriter ==
    \A g, h \in Connections :
        /\ writer[g].at = "write" => writer[g] # pinger[h]
        /\ writer[g].at = "write" /\ g # h => writer[g] # writer[h]
        /\ pinger[g].at = "write" /\ g # h => pinger[g] # pinger[h]

\* The flag the senders look at agrees with the connection, except while a
\* readLoop is between the two and once the transport is shutting down.
FlagAgrees ==
    \/ ctxDone
    \/ connected = (conn # None)
    \/ \E g \in Connections : reader[g].at = "drop"

\* The connection, who reads it and what the senders think of it, as one
\* invariant.
Inv == TypeOK /\ OpenIsHeld /\ OneReader /\ FlagAgrees

\* As long as every attempt succeeds, the limit is not reached: it is one on
\* attempts in a row.
SuccessResetsLimit ==
    (\E g \in Connections : retry[g] = "givenUp")
    => ctxDone \/ \E g \in Connections : retry[g] = "failed"

=============================================================================
