--------------------------- MODULE StdioTransport ---------------------------
(***************************************************************************)
(* transport/stdio.go: the transport over standard input and output.       *)
(*                                                                         *)
(*   reader -> scanner -> readLoop -> incomingChan -> bridgeIncoming       *)
(*     -> MessageHandler (routing by kind)                                 *)
(*          requests      -> bridgeRequests      -> requestChan            *)
(*          notifications -> bridgeNotifications -> notificationChan       *)
(*          responses     -> correlation                                   *)
(*   senders -> MessageHandler -> bridgeOutgoing -> outgoingChan           *)
(*     -> writeLoop -> writer                                              *)
(*                                                                         *)
(* Every arrow between goroutines is a channel; a goroutine has at most one*)
(* message in its hands, which it drops when the context is done.  The     *)
(* messages of a direction are numbered in order; kind says how the        *)
(* MessageHandler routes an incoming one.                                  *)
(***************************************************************************)
EXTENDS Integers, Sequences

CONSTANTS
    Workloads,      \* bounds: the lines that may come in and how many
                    \* messages may go out beside them
    MessageBuffer   \* StdioConfig.MessageBuffer, the capacity of each channel

Kinds == {"request", "notification", "response"}

\* What the scanner may find: "long" is a line that does not fit into
\* readBufferSize.
LineKinds == Kinds \cup {"long"}

ASSUME ConstantsAssumption ==
    /\ \A w \in Workloads : w.lines \in Seq(LineKinds) /\ w.sends \in Nat
    /\ MessageBuffer \in Nat \ {0}

VARIABLES
    scanner,    \* the goroutine of readLoop that calls Scan, and its line
    lines,      \* the kinds of the lines it has taken from the reader
    hand,       \* hand[g]: the message goroutine g holds, Empty or Exited
    chan,       \* chan[c]: the contents of channel c
    sends,      \* messages accepted from senders
    accepted,   \* accepted[k]: the lines of kind k that came in
    got,        \* got[k]: those that came out at the other end
    written,    \* messages the peer has got
    broken,     \* the writer has failed: bufio.Writer keeps its first error
    ctxDone,    \* the transport's context is done
    closer      \* Close (sync.Once)

vars == <<scanner, lines, hand, chan, sends, accepted, got, written, broken,
          ctxDone, closer>>

Empty == 0
Exited == -1

Messages == UNION {1 .. (w.sends + Len(w.lines)) : w \in Workloads}

\* The lines ls and n messages the other way are within one of the workloads.
InWorkload(ls, n) ==
    \E w \in Workloads : /\ n <= w.sends
                         /\ Len(ls) <= Len(w.lines)
                         /\ ls = SubSeq(w.lines, 1, Len(ls))

Bridges == {"bridgeIncoming", "bridgeOutgoing", "bridgeRequests",
            "bridgeNotifications"}

\* The goroutines that Close waits for, and the router of the MessageHandler,
\* for which it does not wait.
Waited == Bridges \cup {"readLoop", "writeLoop"}
Goroutines == Waited \cup {"router"}

HandlerChannels == {"mhIncoming", "mhOutgoing", "mhRequests", "mhNotifications"}
TransportChannels == {"incoming", "outgoing", "requests", "notifications"}

From == [bridgeIncoming |-> "incoming", bridgeOutgoing |-> "mhOutgoing",
         bridgeRequests |-> "mhRequests",
         bridgeNotifications |-> "mhNotifications",
         router |-> "mhIncoming", writeLoop |-> "outgoing"]

To == [bridgeIncoming |-> "mhIncoming", bridgeOutgoing |-> "outgoing",
       bridgeRequests |-> "requests", bridgeNotifications |-> "notifications",
       readLoop |-> "incoming"]

(***************************************************************************)
(* Goroutines that take a message from one channel and put it in another   *)
(***************************************************************************)
Takes(g) ==
    /\ hand[g] = Empty
    /\ chan[From[g]] # <<>>
    /\ hand' = [hand EXCEPT ![g] = Head(chan[From[g]])]
    /\ chan' = [chan EXCEPT ![From[g]] = Tail(@)]

Puts(g, c) ==
    /\ hand[g] \notin {Empty, Exited}
    /\ Len(chan[c]) < MessageBuffer
    /\ chan' = [chan EXCEPT ![c] = Append(@, hand[g])]
    /\ hand' = [hand EXCEPT ![g] = Empty]

BridgeTakes(g) ==
    /\ Takes(g)
    /\ UNCHANGED <<scanner, lines, sends, accepted, got, written, broken,
                   ctxDone, closer>>

\* Mutated form: the message stays in the hands of the bridge.
BridgePutsTwice(g) ==
    /\ hand[g] \notin {Empty, Exited}
    /\ Len(chan[To[g]]) < MessageBuffer
    /\ chan' = [chan EXCEPT ![To[g]] = Append(@, hand[g])]
    /\ \E h \in {Empty, hand[g]} : hand' = [hand EXCEPT ![g] = h]
    /\ UNCHANGED <<scanner, lines, sends, accepted, got, written, broken,
                   ctxDone, closer>>

\* Mutated form: a bridge drops the message when the channel is full.
BridgePutsOrDrops(g) ==
    /\ hand[g] \notin {Empty, Exited}
    /\ chan' = IF Len(chan[To[g]]) < MessageBuffer
               THEN [chan EXCEPT ![To[g]] = Append(@, hand[g])]
               ELSE chan
    /\ hand' = [hand EXCEPT ![g] = Empty]
    /\ UNCHANGED <<scanner, lines, sends, accepted, got, written, broken,
                   ctxDone, closer>>

BridgePuts(g) ==
    /\ Puts(g, To[g])
    /\ UNCHANGED <<scanner, lines, sends, accepted, got, written, broken,
                   ctxDone, closer>>

\* Mutated form: a bridge with a message in its hands misses the context.
SeesDoneWhenIdle(g) ==
    /\ ctxDone
    /\ hand[g] = Empty
    /\ hand' = [hand EXCEPT ![g] = Exited]
    /\ UNCHANGED <<scanner, lines, chan, sends, accepted, got, written,
                   broken, ctxDone, closer>>

\* ctx.Done() is a case of every select of the goroutines, in the inner ones
\* too, where the message in hand is dropped.  writeLoop has only the outer one.
SeesDone(g) ==
    /\ ctxDone
    /\ hand[g] # Exited
    /\ g = "writeLoop" => hand[g] = Empty
    /\ hand' = [hand EXCEPT ![g] = Exited]
    /\ UNCHANGED <<scanner, lines, chan, sends, accepted, got, written,
                   broken, ctxDone, closer>>

(***************************************************************************)
(* Reading                                                                 *)
(***************************************************************************)

\* scanner.Scan() returns the next line, or ends at one that is too long.
Scans(k) ==
    /\ scanner = "scanning"
    /\ lines' = Append(lines, k)
    /\ IF k = "long"
       THEN scanner' = "failed" /\ UNCHANGED accepted
       ELSE /\ scanner' = "offering"
            /\ accepted' = [accepted EXCEPT ![k] = Append(@, Len(lines'))]
    /\ UNCHANGED <<hand, chan, sends, got, written, broken, ctxDone, closer>>

ScannerScans ==
    \E k \in LineKinds : InWorkload(Append(lines, k), sends) /\ Scans(k)

\* The end of the input, and the end of the goroutine after an error or when
\* the context is done.  It closes its channels, which ends readLoop.
ScannerEnds ==
    /\ \/ scanner = "scanning"
       \/ scanner = "failed"
       \/ scanner = "offering" /\ ctxDone
    /\ scanner' = "ended"
    /\ UNCHANGED <<lines, hand, chan, sends, accepted, got, written, broken,
                   ctxDone, closer>>

\* The hand-over of a line on the unbuffered lineChan.
ReadLoopTakes ==
    /\ hand["readLoop"] = Empty
    /\ scanner = "offering"
    /\ hand' = [hand EXCEPT !["readLoop"] = Len(lines)]
    /\ scanner' = "scanning"
    /\ UNCHANGED <<lines, chan, sends, accepted, got, written, broken,
                   ctxDone, closer>>

ReadLoopPuts ==
    /\ Puts("readLoop", To["readLoop"])
    /\ UNCHANGED <<scanner, lines, sends, accepted, got, written, broken,
                   ctxDone, closer>>

\* readLoop ends with its scanner; the rest of the transport goes on.
ReadLoopEnds ==
    /\ hand["readLoop"] = Empty
    /\ scanner \in {"ended", "failed"}
    /\ hand' = [hand EXCEPT !["readLoop"] = Exited]
    /\ UNCHANGED <<scanner, lines, chan, sends, accepted, got, written,
                   broken, ctxDone, closer>>

\* MessageHandler.processIncomingMessages and handleIncomingMessage: a message
\* waits for room in the channel of its kind, and all later ones wait with it.
RouterTakes ==
    /\ Takes("router")
    /\ UNCHANGED <<scanner, lines, sends, accepted, got, written, broken,
                   ctxDone, closer>>

RouterRoutes ==
    /\ hand["router"] \notin {Empty, Exited}
    /\ LET m == hand["router"] IN
       \/ /\ lines[m] = "request" /\ Puts("router", "mhRequests")
          /\ UNCHANGED got
       \/ /\ lines[m] = "notification" /\ Puts("router", "mhNotifications")
          /\ UNCHANGED got
       \/ /\ lines[m] = "response"
          /\ got' = [got EXCEPT !["response"] = Append(@, m)]
          /\ hand' = [hand EXCEPT !["router"] = Empty]
          /\ UNCHANGED chan
    /\ UNCHANGED <<scanner, lines, sends, accepted, written, broken, ctxDone,
                   closer>>

\* The application takes a message from a channel that Channels() returned; a
\* closed channel still gives what is in it.
AppReceives(k) ==
    LET c == IF k = "request" THEN "requests" ELSE "notifications" IN
    /\ chan[c] # <<>>
    /\ got' = [got EXCEPT ![k] = Append(@, Head(chan[c]))]
    /\ chan' = [chan EXCEPT ![c] = Tail(@)]
    /\ UNCHANGED <<scanner, lines, hand, sends, accepted, written, broken,
                   ctxDone, closer>>

(***************************************************************************)
(* Writing                                                                 *)
(***************************************************************************)

\* SendRequest, SendNotification or SendResponse puts its message in the
\* channel of the MessageHandler, which is never closed.
Accepts ==
    /\ Len(chan["mhOutgoing"]) < MessageBuffer
    /\ sends' = sends + 1
    /\ chan' = [chan EXCEPT !["mhOutgoing"] = Append(@, sends + 1)]
    /\ UNCHANGED <<scanner, lines, hand, accepted, got, written, broken,
                   ctxDone, closer>>

Sends == InWorkload(lines, sends + 1) /\ Accepts

WriteLoopTakes ==
    /\ Takes("writeLoop")
    /\ UNCHANGED <<scanner, lines, sends, accepted, got, written, broken,
                   ctxDone, closer>>

\* The line is written and flushed; the peer has to read for it to end.
WriteLoopWrites ==
    /\ hand["writeLoop"] \notin {Empty, Exited}
    /\ ~broken
    /\ written' = Append(written, hand["writeLoop"])
    /\ hand' = [hand EXCEPT !["writeLoop"] = Empty]
    /\ UNCHANGED <<scanner, lines, chan, sends, accepted, got, broken,
                   ctxDone, closer>>

\* The write or the flush fails, now and from then on; the message is dropped.
WriteLoopFails ==
    /\ hand["writeLoop"] \notin {Empty, Exited}
    /\ broken' = TRUE
    /\ hand' = [hand EXCEPT !["writeLoop"] = Empty]
    /\ UNCHANGED <<scanner, lines, chan, sends, accepted, got, written,
                   ctxDone, closer>>

(***************************************************************************)
(* Close                                                                   *)
(***************************************************************************)
CloseCancels ==
    /\ closer = "open"
    /\ ctxDone' = TRUE
    /\ closer' = "waiting"
    /\ UNCHANGED <<scanner, lines, hand, chan, sends, accepted, got, written,
                   broken>>

\* Mutated form: the channels are closed without waiting.
CloseDoesNotWait ==
    /\ closer = "waiting"
    /\ closer' = "closed"
    /\ UNCHANGED <<scanner, lines, hand, chan, sends, accepted, got, written,
                   broken, ctxDone>>

\* wg.Wait(), messageHandler.Close() and the close of the four channels.
CloseChannels ==
    /\ closer = "waiting"
    /\ \A g \in Waited : hand[g] = Exited
    /\ closer' = "closed"
    /\ UNCHANGED <<scanner, lines, hand, chan, sends, accepted, got, written,
                   broken, ctxDone>>

\* The context the transport was created with is cancelled.
ParentCancelled ==
    /\ ~ctxDone
    /\ ctxDone' = TRUE
    /\ UNCHANGED <<scanner, lines, hand, chan, sends, accepted, got, written,
                   broken, closer>>

(***************************************************************************)
(* The specification                                                       *)
(***************************************************************************)
Init ==
    /\ scanner = "scanning"
    /\ lines = <<>>
    /\ hand = [g \in Goroutines |-> Empty]
    /\ chan = [c \in HandlerChannels \cup TransportChannels |-> <<>>]
    /\ sends = 0
    /\ accepted = [k \in Kinds |-> <<>>]
    /\ got = [k \in Kinds |-> <<>>]
    /\ written = <<>>
    /\ broken = FALSE
    /\ ctxDone = FALSE
    /\ closer = "open"

Bridge(g) == BridgeTakes(g) \/ BridgePuts(g)
ReadLoop == ScannerEnds \/ ReadLoopTakes \/ ReadLoopPuts \/ ReadLoopEnds
Router == RouterTakes \/ RouterRoutes

Next == \/ ScannerScans
        \/ ReadLoop
        \/ Router
        \/ \E g \in Bridges : Bridge(g)
        \/ \E g \in Goroutines : SeesDone(g)
        \/ \E k \in {"request", "notification"} : AppReceives(k)
        \/ Sends
        \/ WriteLoopTakes
        \/ WriteLoopWrites
        \/ WriteLoopFails
        \/ CloseCancels
        \/ CloseChannels
        \/ ParentCancelled

Spec == Init /\ [][Next]_vars

\* The application reads its channels, as server.Server does.
AppFairness ==
    \A k \in {"request", "notification"} : WF_vars(AppReceives(k))

(***************************************************************************)
(* Properties                                                              *)
(***************************************************************************)
\* Type invariant of the transport's goroutines and channels.
TypeOK ==
    /\ scanner \in {"scanning", "offering", "failed", "ended"}
    /\ lines \in Seq(LineKinds)
    /\ hand \in [Goroutines -> Messages \cup {Empty, Exited}]
    /\ chan \in [HandlerChannels \cup TransportChannels -> Seq(Messages)]
    /\ \A c \in DOMAIN chan : Len(chan[c]) <= MessageBuffer
    /\ sends \in Nat
    /\ accepted \in [Kinds -> Seq(Messages)]
    /\ got \in [Kinds -> Seq(Messages)]
    /\ written \in Seq(Messages)
    /\ broken \in BOOLEAN
    /\ ctxDone \in BOOLEAN
    /\ closer \in {"open", "waiting", "closed"}

RequestStream ==
    INSTANCE OrderedStream WITH sent <- accepted["request"],
                                delivered <- got["request"]

NotificationStream ==
    INSTANCE OrderedStream WITH sent <- accepted["notification"],
                                delivered <- got["notification"]

ResponseStream ==
    INSTANCE OrderedStream WITH sent <- accepted["response"],
                                delivered <- got["response"]

OutgoingStream ==
    INSTANCE OrderedStream WITH sent <- [i \in 1 .. sends |-> i],
                                delivered <- written

\* The four ways through the transport are ordered streams, whatever is
\* dropped when it shuts down or its writer fails: requests, notifications and
\* responses each reach the other end in the order of their lines, and what is
\* sent reaches the peer in the order in which it was accepted.
StreamsInOrder == /\ RequestStream!Spec
                  /\ NotificationStream!Spec
                  /\ ResponseStream!Spec
                  /\ OutgoingStream!Spec

\* No goroutine can send on one of the channels Close has closed: that would
\* panic.
NoSendOnClosedChannel ==
    closer = "closed" =>
        \A g \in Waited : hand[g] = Exited

\* The type invariant and the safety of Close, as one invariant.
Inv == TypeOK /\ NoSendOnClosedChannel

\* As long as the transport is up, the lines that were read get through to the
\* application or the correlation of responses, and what was accepted from a
\* sender is written unless the writer fails: it never settles with a message on
\* its way.
MessagesGetThrough ==
    /\ []<>(ctxDone \/ got = accepted)
    /\ []<>(ctxDone \/ broken \/ Len(written) = sends)

\* A response that has been read gets through to its request, whatever else the
\* peer sends.
ResponsesGetThrough == []<>(ctxDone \/ got["response"] = accepted["response"])

\* Close returns.
CloseReturns == closer = "waiting" ~> closer = "closed"

=============================================================================
