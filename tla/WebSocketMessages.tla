-------------------------- MODULE WebSocketMessages --------------------------
(***************************************************************************)
(* transport/websocket.go with its messages: who sends waits for room in   *)
(* outgoing, of which the writeLoops take; what a readLoop has read waits  *)
(* in its hands, in the MessageHandler and with the goroutine that copies  *)
(* it for the application.                                                 *)
(*                                                                         *)
(* The connections are those of WebSocketTransport, under one of three     *)
(* loads that keep the number of states down:                              *)
(*   "connections"  nothing is sent, what is read is handed over at once;  *)
(*                  the application connects and resets as it likes;       *)
(*   "sending"      nothing is read; a connection may become mute: a write *)
(*                  has failed, after which all do, while it can be read;  *)
(*   "receiving"    nothing is sent; a connection may be lost: nothing can *)
(*                  be read any more, while writes may seem to succeed.    *)
(***************************************************************************)
EXTENDS WebSocketTransport

CONSTANTS
    Loads,           \* the loads to choose from
    MessageBuffer    \* WebSocketConfig.MessageBuffer

ASSUME MessagesAssumption ==
    /\ Loads \subseteq {"connections", "sending", "receiving"}
    /\ MessageBuffer \in Nat \ {0}

VARIABLES
    load,
    mute,            \* the connections no write succeeds on
    lost,            \* the connections nothing can be read from
    sender,          \* one SendX: none, or past its look at the flag
    outgoing,        \* messages in the MessageHandler's outgoing channel
    inHand,          \* the readLoops with a message in hand
    incoming,        \* messages in the MessageHandler, on their way to copier
    copier,          \* the goroutine that copies from the MessageHandler
    requestChan      \* messages for the application

sendVars == <<mute, sender, outgoing>>
receiveVars == <<lost, inHand, incoming, copier, requestChan>>
allVars == <<vars, load, sendVars, receiveVars>>

(***************************************************************************)
(* SendRequest, SendNotification and SendResponse                          *)
(***************************************************************************)

\* With the flag down SendX is an error at once.
SendBegins ==
    /\ sender = "none"
    /\ connected
    /\ sender' = "send"
    /\ UNCHANGED <<vars, mute, outgoing>>

SendEnqueues ==
    /\ sender = "send"
    /\ outgoing < MessageBuffer
    /\ outgoing' = outgoing + 1
    /\ sender' = "none"
    /\ UNCHANGED <<vars, mute>>

SendCancelled ==
    /\ sender = "send"
    /\ ctxDone
    /\ sender' = "none"
    /\ UNCHANGED <<vars, mute, outgoing>>

(***************************************************************************)
(* writeLoop and pingLoop                                                  *)
(***************************************************************************)

\* The message is gone from the channel, whether it will be written or not.
WriterTakesMessage(g) ==
    /\ outgoing > 0
    /\ outgoing' = outgoing - 1
    /\ WriterTakes(g)
    /\ UNCHANGED <<mute, sender>>

\* What a write by a loop in state l, which then is in state ended, shows.
WriteShows(l, ended) ==
    IF ended = LoopAt("idle")
    THEN l.on \notin mute /\ UNCHANGED mute
    ELSE mute' = mute \cup {l.on}

WriterWritesMessage(g) ==
    /\ WriterWrites(g)
    /\ WriteShows(writer[g], writer'[g])
    /\ UNCHANGED <<sender, outgoing>>

PingerPings(g) ==
    /\ PingerWrites(g)
    /\ WriteShows(pinger[g], pinger'[g])
    /\ UNCHANGED <<sender, outgoing>>

(***************************************************************************)
(* readLoop, the MessageHandler, and the goroutine that copies             *)
(***************************************************************************)
PeerLost(g) ==
    /\ g \in open \ lost
    /\ lost' = lost \cup {g}
    /\ UNCHANGED <<vars, inHand, incoming, copier, requestChan>>

ReaderReadsMessage(g) ==
    /\ reader[g].on \notin lost
    /\ ReaderReads(g)
    /\ inHand' = inHand \cup {g}
    /\ UNCHANGED <<lost, incoming, copier, requestChan>>

ReaderHandsOver(g) ==
    /\ g \in inHand
    /\ incoming < MessageBuffer
    /\ incoming' = incoming + 1
    /\ inHand' = inHand \ {g}
    /\ UNCHANGED <<vars, lost, copier, requestChan>>

\* Mutated form: no look at the context while a message waits.
ReaderHoldsOn(g) == FALSE /\ UNCHANGED <<vars, receiveVars>>

ReaderSeesDone(g) ==
    /\ g \in inHand
    /\ ctxDone
    /\ inHand' = inHand \ {g}
    /\ UNCHANGED <<vars, lost, incoming, copier, requestChan>>

\* The loop goes on when the message in hand is gone.
ReaderGoesOn(g) ==
    /\ g \notin inHand
    /\ Reader(g)
    /\ UNCHANGED receiveVars

ReaderFails(g) ==
    /\ \/ ReaderEnds(g)
       \/ ReaderLosesPeer(g) /\ reader[g].on \in lost
    /\ UNCHANGED receiveVars

CopierTakes ==
    /\ copier = "idle"
    /\ incoming > 0
    /\ incoming' = incoming - 1
    /\ copier' = "hand"
    /\ UNCHANGED <<vars, lost, inHand, requestChan>>

CopierForwards ==
    /\ copier = "hand"
    /\ requestChan < MessageBuffer
    /\ requestChan' = requestChan + 1
    /\ copier' = "idle"
    /\ UNCHANGED <<vars, lost, inHand, incoming>>

CopierSeesDone ==
    /\ ctxDone
    /\ copier # "exited"
    /\ copier' = "exited"
    /\ UNCHANGED <<vars, lost, inHand, incoming, requestChan>>

AppReads ==
    /\ requestChan > 0
    /\ requestChan' = requestChan - 1
    /\ UNCHANGED <<vars, lost, inHand, incoming, copier>>

(***************************************************************************)
(* The specification                                                       *)
(***************************************************************************)
MessagesInit ==
    /\ Init
    /\ load \in Loads
    /\ mute = {}
    /\ lost = {}
    /\ sender = "none"
    /\ outgoing = 0
    /\ inHand = {}
    /\ incoming = 0
    /\ copier = "idle"
    /\ requestChan = 0

Sender == SendEnqueues \/ SendCancelled

SenderStep == Sender /\ UNCHANGED <<load, receiveVars>>

WriterStep(g) ==
    /\ load = "sending"
    /\ \/ WriterTakesMessage(g)
       \/ WriterWritesMessage(g)
       \/ WriterExits(g) /\ UNCHANGED sendVars
    /\ UNCHANGED <<load, receiveVars>>

\* Pings fail together with the other writes where there are any.
PingerStep(g) ==
    /\ \/ load = "sending" /\ PingerPings(g)
       \/ load # "sending" /\ PingerWrites(g) /\ UNCHANGED sendVars
       \/ (PingerTicks(g) \/ PingerExits(g)) /\ UNCHANGED sendVars
    /\ UNCHANGED <<load, receiveVars>>

ReaderStep(g) ==
    \/ /\ load = "receiving"
       /\ \/ ReaderHandsOver(g)
          \/ ReaderSeesDone(g)
          \/ ReaderGoesOn(g)
          \/ ReaderFails(g)
       /\ UNCHANGED <<load, sendVars>>
    \/ /\ load # "receiving"
       /\ Reader(g) \/ ReaderEnds(g)
       /\ UNCHANGED <<load, sendVars, receiveVars>>

Copier == CopierTakes \/ CopierForwards \/ CopierSeesDone

CopierStep == Copier /\ UNCHANGED <<load, sendVars>>

AppStep == AppReads /\ UNCHANGED <<load, sendVars>>

RetryStep(g) == Retry(g) /\ UNCHANGED <<load, sendVars, receiveVars>>

\* An attempt of the application that fails changes nothing and is left out.
DialStep ==
    /\ \/ DialSucceeds
       \/ DialFails /\ dialing # App
    /\ UNCHANGED <<load, sendVars, receiveVars>>

CloseStep == Close /\ UNCHANGED <<load, sendVars, receiveVars>>

\* The application connects once, or as it likes; the end is a Close, one of
\* the parent, or both.
Application ==
    /\ \/ /\ ConnectBegins(App)
          /\ made < MaxConnections
          /\ load # "connections" => made = 0
       \/ ResetReconnectCount /\ load = "connections"
       \/ CloseCancels /\ load # "sending"
       \/ ParentCancelled /\ load # "receiving"
    /\ UNCHANGED <<load, sendVars, receiveVars>>

Network ==
    \E g \in Connections :
        \/ /\ load = "receiving"
           /\ PeerLost(g) \/ ReaderReadsMessage(g)
           /\ UNCHANGED <<load, sendVars>>
        \/ /\ load # "receiving"
           /\ ReaderLosesPeer(g)
           /\ UNCHANGED <<load, sendVars, receiveVars>>
        \/ /\ load = "connections"
           /\ ReaderReads(g)
           /\ UNCHANGED <<load, sendVars, receiveVars>>

MessagesNext ==
    \/ Application
    \/ Network
    \/ load = "sending" /\ SendBegins /\ UNCHANGED <<load, receiveVars>>
    \/ SenderStep
    \/ CopierStep
    \/ AppStep
    \/ DialStep
    \/ CloseStep
    \/ \E g \in Connections : \/ ReaderStep(g)
                              \/ WriterStep(g)
                              \/ PingerStep(g)
                              \/ RetryStep(g)

MessagesSpec == MessagesInit /\ [][MessagesNext]_allVars

\* A loop that waits sees that the context is done.
LoopExits ==
    /\ \E g \in Connections : \/ WriterExits(g) /\ load = "sending"
                             \/ PingerExits(g)
    /\ UNCHANGED <<load, sendVars, receiveVars>>

\* The goroutines run, dialling has a time limit, and of two cases that are ready
\* again and again a select does not always pick the same.  Nothing is assumed of
\* the application.
TransportFairness ==
    /\ WF_allVars(SenderStep)
    /\ WF_allVars(CopierStep)
    /\ WF_allVars(DialStep)
    /\ WF_allVars(CloseStep)
    /\ SF_allVars(LoopExits)
    /\ \A g \in Connections : /\ WF_allVars(ReaderStep(g))
                              /\ WF_allVars(WriterStep(g))
                              /\ WF_allVars(PingerStep(g))
                              /\ WF_allVars(RetryStep(g))

\* The application never reads, like client.Client with notifications.
UnreadSpec == MessagesSpec /\ TransportFairness

\* It reads, like server.Server.
FairMessagesSpec == UnreadSpec /\ WF_allVars(AppStep)

(***************************************************************************)
(* Properties                                                              *)
(***************************************************************************)
\* Type invariant of the messages, and the connections as before.
MessagesInv ==
    /\ Inv
    /\ load \in Loads
    /\ mute \subseteq Connections
    /\ lost \subseteq Connections
    /\ sender \in {"none", "send"}
    /\ outgoing \in 0 .. MessageBuffer
    /\ inHand \subseteq Connections
    /\ incoming \in 0 .. MessageBuffer
    /\ copier \in {"idle", "hand", "exited"}
    /\ requestChan \in 0 .. MessageBuffer

\* When a connection is lost, its readLoop notices, also when it is waiting for
\* room for a message, and sees to it that there is another, unless the attempt
\* fails, there were too many before, reconnecting is switched off or the
\* transport is shut down.  (Neither side ends: it follows sooner or later.)
LossIsRepaired ==
    \A g \in Connections :
        []<>(g \in lost \/ reader[g].at = "exited"
             => ctxDone \/ retry[g] \in {"reset", "done", "failed", "givenUp", "disabled"})

\* Messages go on leaving the transport, whatever happens to connections and
\* loops, unless from some time on there is no connection or the transport is shut
\* down: a connection whose writeLoop has ended over a write is not kept.
MessagesLeave ==
    \/ []<>(outgoing < MessageBuffer)
    \/ <>[](conn = None)
    \/ <>[]ctxDone

\* Sending resumes after a loss.
TrafficResumes == LossIsRepaired /\ MessagesLeave

\* Once the context is done, by Close or by its parent, every goroutine of the
\* transport ends, senders are released, and no connection is left open, one
\* that a reconnection has made meanwhile included.
Ended ==
    /\ open = {}
    /\ sender = "none"
    /\ copier = "exited"
    /\ \A g \in Connections : /\ reader[g].at \in {"none", "exited"}
                              /\ load = "sending" => writer[g].at \in {"none", "exited"}
                              /\ pinger[g].at \in {"none", "exited"}
                              /\ retry[g] \notin {"sleep", "connect", "reset"}

EverythingEnds == []<>(ctxDone => Ended)

==============================================================================
