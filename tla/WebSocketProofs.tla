--------------------------- MODULE WebSocketProofs ---------------------------
(***************************************************************************)
(* Theorems about the WebSocket transport, for any number of connections,  *)
(* any limit on the attempts and any size of the channels.                 *)
(*                                                                         *)
(* No loop keeps its connection, so that nothing in the code says which    *)
(* connection a readLoop reads.  The argument is that until the context    *)
(* is done the connection in use and the readLoop that is alive belong     *)
(* together: only that loop gives the connection up, and by doing so it    *)
(* ends; only then is there another Connect.  Once the context is done a   *)
(* readLoop does not look for a connection any more.                       *)
(***************************************************************************)
EXTENDS WebSocketMessages, TLAPS

-----------------------------------------------------------------------------
(***************************************************************************)
(* Facts about the data                                                    *)
(***************************************************************************)

\* A loop that has no connection.
LEMMA LoopAtFields ==
    \A place : LoopAt(place).at = place /\ LoopAt(place).on = None
BY DEF LoopAt

\* It is a state of any loop that may be at that place.
LEMMA LoopAtType ==
    ASSUME NEW S, NEW place \in S
    PROVE  LoopAt(place) \in Loops(S)
BY DEF LoopAt, Loops

\* A loop that has looked a connection up.
LEMMA LoopOnType ==
    ASSUME NEW S, NEW place \in S, NEW c \in Connections \cup {None}
    PROVE  /\ [at |-> place, on |-> c] \in Loops(S)
           /\ [at |-> place, on |-> c].at = place
           /\ [at |-> place, on |-> c].on = c
BY DEF Loops

\* The numbers of connections, and those that are none.
LEMMA ConnectionNumbers ==
    /\ Connections \subseteq Nat
    /\ None \notin Connections
    /\ App \notin Connections /\ App # None
BY ConstantsAssumption DEF Connections, None, App, ConstantsAssumption

-----------------------------------------------------------------------------
(***************************************************************************)
(* The inductive invariant                                                 *)
(***************************************************************************)

Alive(g) == reader[g].at \in {"load", "read", "flag", "drop"}

\* What is true of the readLoop, the writeLoop and the connection with number g:
\* there are none before it is made; until the context is done the loop that is
\* alive is that of the connection in use, and the flag is down when it is about
\* to drop it; it reads no connection but its own.
ReaderOwns(g) ==
    /\ g > made => reader[g].at = "none"
    /\ conn = g => Alive(g)
    /\ Alive(g) /\ ~ctxDone => conn = g
    /\ reader[g].at = "read" => reader[g].on = g
    /\ reader[g].at = "drop" /\ ~ctxDone => ~connected

\* What is true of the connection in use, of the one Close has taken and of a
\* goroutine in Connect.
ConnectionHeld ==
    /\ conn <= made
    /\ dialing # None => conn = None
    /\ closer.at # "open" => ctxDone
    /\ closer.at # "disconnect" => closer.on = None
    /\ OpenIsHeld

IInv ==
    /\ TypeOK
    /\ \A g \in Connections : ReaderOwns(g)
    /\ ConnectionHeld
    /\ FlagAgrees

\* The invariant implies what the runs check.
LEMMA InvFollows == IInv => Inv
<1> SUFFICES ASSUME IInv PROVE OneReader
  BY DEF IInv, Inv, ConnectionHeld
<1>1. ASSUME NEW g \in Connections, NEW h \in Connections,
             reader[g].at = "read", reader[h].at = "read", reader[g].on = reader[h].on
      PROVE  g = h
  BY <1>1 DEF IInv, ReaderOwns
<1>2. conn # None => reader[conn].at \in {"load", "read", "flag", "drop"}
  BY DEF IInv, TypeOK, ReaderOwns, Alive
<1> QED BY <1>1, <1>2 DEF OneReader

-----------------------------------------------------------------------------
(***************************************************************************)
(* The steps of the connections                                            *)
(***************************************************************************)

\* A step that is not about readLoop g nor the connection keeps what is true
\* of g; the context may be done by it.
LEMMA OwnsFrame ==
    ASSUME NEW g \in Connections, ReaderOwns(g),
           reader'[g] = reader[g], conn' = conn, made' = made,
           ~ctxDone' => ~ctxDone /\ (~connected => ~connected')
    PROVE  ReaderOwns(g)'
BY DEF ReaderOwns, Alive

\* The steps in which a readLoop only moves on.
ReaderMoves(g) ==
    ReaderLoads(g) \/ ReaderReads(g) \/ ReaderLosesPeer(g) \/ ReaderEnds(g)

\* A readLoop looks for a connection only until the context is done, and
\* then finds its own.
LEMMA ReaderMovesKeeps ==
    ASSUME IInv, NEW g \in Connections, ReaderMoves(g)
    PROVE  IInv'
<1>1. /\ UNCHANGED <<conn, connected, made, open, dialing, reconnectCount,
                     writer, pinger, retry, ctxDone, closer>>
      /\ TypeOK /\ ConnectionHeld /\ FlagAgrees /\ ReaderOwns(g)
      /\ reader \in [Connections -> Loops(Places)]
  BY DEF ReaderMoves, ReaderLoads, ReaderReads, ReaderLosesPeer, ReaderEnds, ReaderVars,
         IInv, TypeOK
<1> DEFINE l == IF ReaderLoads(g) /\ ~ctxDone /\ conn # None
                THEN [at |-> "read", on |-> conn]
                ELSE IF reader'[g].at = "load" THEN LoopAt("load") ELSE LoopAt("flag")
<1>2. /\ reader' = [reader EXCEPT ![g] = reader'[g]]
      /\ reader'[g] = l
      /\ reader[g].at \in {"load", "read"}
  <2>1. CASE ReaderLoads(g)
    BY <1>1, <2>1, LoopAtFields DEF ReaderLoads
  <2>2. CASE ReaderReads(g) \/ ReaderLosesPeer(g) \/ ReaderEnds(g)
    <3>1. reader[g].at = "read"
      BY <2>2 DEF ReaderReads, ReaderLosesPeer, ReaderEnds
    <3>2. ~ReaderLoads(g)
      BY <3>1 DEF ReaderLoads
    <3> QED BY <1>1, <2>2, <3>1, <3>2, LoopAtFields
            DEF ReaderReads, ReaderLosesPeer, ReaderEnds
  <2> QED BY <2>1, <2>2 DEF ReaderMoves
<1>3. /\ l \in Loops(Places) /\ l.at \in {"load", "read", "flag"}
      /\ l.at = "read" => l.on = conn /\ ~ctxDone
  <2>1. conn \in Connections \cup {None}
    BY <1>1 DEF TypeOK
  <2> QED BY <2>1, LoopAtFields, LoopAtType, LoopOnType DEF Places
<1> HIDE DEF l
<1>4. reader' \in [Connections -> Loops(Places)]
  BY <1>1, <1>2, <1>3
<1>5. TypeOK'
  BY <1>1, <1>4 DEF TypeOK
<1>6. ASSUME NEW h \in Connections PROVE ReaderOwns(h)'
  <2>1. CASE h # g
    <3>1. reader'[h] = reader[h]
      BY <1>1, <1>2, <2>1
    <3> QED BY <1>1, <3>1, OwnsFrame DEF IInv
  <2>2. CASE h = g
    BY <1>1, <1>2, <1>3, <2>2 DEF ReaderOwns, Alive
  <2> QED BY <2>1, <2>2
<1>7. ConnectionHeld'
  BY <1>1 DEF ConnectionHeld, OpenIsHeld
<1>8. FlagAgrees'
  <2>1. ASSUME NEW h \in Connections, reader[h].at = "drop" PROVE reader'[h].at = "drop"
    BY <1>1, <1>2, <2>1
  <2> QED BY <1>1, <2>1 DEF FlagAgrees
<1> QED BY <1>5, <1>6, <1>7, <1>8 DEF IInv

\* The end of a readLoop: the flag, the connection, which is its own until the
\* context is done, and the decision.
LEMMA ReaderLeavesKeeps ==
    ASSUME IInv, NEW g \in Connections,
           ReaderClearsFlag(g) \/ ReaderDropsConnection(g) \/ ReaderRetries(g)
    PROVE  IInv'
<1>0. /\ TypeOK /\ ConnectionHeld /\ FlagAgrees /\ ReaderOwns(g)
      /\ reader \in [Connections -> Loops(Places)]
      /\ UNCHANGED <<made, dialing, writer, pinger, ctxDone, closer>>
  BY DEF IInv, TypeOK, ReaderClearsFlag, ReaderDropsConnection, ReaderRetries, connVars
<1>1. PICK place \in {"drop", "decide", "exited"} :
          /\ reader' = [reader EXCEPT ![g] = LoopAt(place)]
          /\ place = "drop" <=> ReaderClearsFlag(g)
          /\ place = "decide" <=> ReaderDropsConnection(g)
  BY DEF ReaderClearsFlag, ReaderDropsConnection, ReaderRetries
<1>2. /\ reader' \in [Connections -> Loops(Places)]
      /\ reader'[g].at = place /\ \A h \in Connections : h # g => reader'[h] = reader[h]
  BY <1>0, <1>1, LoopAtType, LoopAtFields DEF Places
<1>3. CASE ReaderClearsFlag(g)
  <2>1. /\ UNCHANGED <<conn, open, reconnectCount, retry>>
        /\ reader[g].at = "flag" /\ connected' = FALSE
    BY <1>3 DEF ReaderClearsFlag
  <2>2. place = "drop"
    BY <1>1, <1>3
  <2>3. TypeOK'
    BY <1>0, <1>2, <2>1 DEF TypeOK
  <2>4. ASSUME NEW h \in Connections PROVE ReaderOwns(h)'
    <3>1. CASE h # g
      BY <1>0, <1>2, <2>1, <3>1, OwnsFrame DEF IInv
    <3>2. CASE h = g
      BY <1>0, <1>2, <2>1, <2>2, <3>2 DEF ReaderOwns, Alive
    <3> QED BY <3>1, <3>2
  <2>5. ConnectionHeld' /\ FlagAgrees'
    BY <1>0, <1>2, <2>1, <2>2 DEF ConnectionHeld, OpenIsHeld, FlagAgrees
  <2> QED BY <2>3, <2>4, <2>5 DEF IInv
<1>4. CASE ReaderDropsConnection(g)
  <2>1. /\ UNCHANGED <<connected, reconnectCount, retry>>
        /\ reader[g].at = "drop" /\ open' = open \ {conn} /\ conn' = None
    BY <1>4 DEF ReaderDropsConnection
  <2>2. place = "decide"
    BY <1>1, <1>4
  <2>3. TypeOK'
    BY <1>0, <1>2, <2>1 DEF TypeOK
  <2>4. ~ctxDone => conn = g /\ ~connected
    BY <1>0, <2>1 DEF ReaderOwns, Alive
  <2>5. ASSUME NEW h \in Connections PROVE ReaderOwns(h)'
    <3>1. ReaderOwns(h) /\ h # None
      BY ConnectionNumbers DEF IInv
    <3>2. CASE h # g
      BY <1>0, <1>2, <2>1, <2>4, <3>1, <3>2 DEF ReaderOwns, Alive
    <3>3. CASE h = g
      BY <1>0, <1>2, <2>1, <2>2, <3>1, <3>3 DEF ReaderOwns, Alive
    <3> QED BY <3>2, <3>3
  <2>6. made \in Nat
    BY <1>0, ConstantsAssumption DEF TypeOK, ConstantsAssumption
  <2>7. ConnectionHeld'
    BY <1>0, <2>1, <2>6 DEF ConnectionHeld, OpenIsHeld, None
  <2>8. FlagAgrees'
    BY <1>0, <2>1, <2>4 DEF FlagAgrees, TypeOK
  <2> QED BY <2>3, <2>5, <2>7, <2>8 DEF IInv
<1>5. CASE ReaderRetries(g)
  <2>1. /\ UNCHANGED <<conn, connected, open>> /\ reader[g].at = "decide"
    BY <1>5 DEF ReaderRetries, connVars
  <2>2. place = "exited"
    BY <1>1, <1>5, <2>1 DEF ReaderClearsFlag, ReaderDropsConnection
  <2>3. reconnectCount' \in 0 .. MaxReconnects
    <3>1. \/ reconnectCount < MaxReconnects /\ reconnectCount' = reconnectCount + 1
          \/ reconnectCount' = reconnectCount
      BY <1>5 DEF ReaderRetries
    <3> QED BY <1>0, <3>1, ConstantsAssumption DEF TypeOK, ConstantsAssumption
  <2>4. \E to \in {"sleep", "givenUp", "disabled"} : retry' = [retry EXCEPT ![g] = to]
    BY <1>5 DEF ReaderRetries
  <2>5. TypeOK'
    BY <1>0, <1>2, <2>1, <2>3, <2>4 DEF TypeOK
  <2>6. ASSUME NEW h \in Connections PROVE ReaderOwns(h)'
    <3>1. CASE h # g
      BY <1>0, <1>2, <2>1, <3>1, OwnsFrame DEF IInv
    <3>2. CASE h = g
      BY <1>0, <1>2, <2>1, <2>2, <3>2 DEF ReaderOwns, Alive
    <3> QED BY <3>1, <3>2
  <2>7. ConnectionHeld'
    BY <1>0, <2>1 DEF ConnectionHeld, OpenIsHeld
  <2>8. FlagAgrees'
    <3>1. ASSUME NEW h \in Connections, reader[h].at = "drop" PROVE reader'[h].at = "drop"
      BY <1>2, <2>1, <3>1
    <3> QED BY <1>0, <2>1, <3>1 DEF FlagAgrees
  <2> QED BY <2>5, <2>6, <2>7, <2>8 DEF IInv
<1> QED BY <1>3, <1>4, <1>5

\* A step that is not about connections or readLoops at all.
LEMMA OtherKeeps ==
    ASSUME IInv, TypeOK', UNCHANGED <<conn, connected, made, open, reader>>,
           dialing' # None => conn = None,
           ctxDone => ctxDone',
           closer' = closer \/ (closer'.on = None /\ closer.on = None /\ ctxDone')
    PROVE  IInv'
<1>1. ASSUME NEW g \in Connections PROVE ReaderOwns(g)'
  <2>1. ReaderOwns(g)
    BY DEF IInv
  <2> QED BY <2>1, OwnsFrame
<1>2. ConnectionHeld'
  BY DEF IInv, ConnectionHeld, OpenIsHeld
<1>3. FlagAgrees'
  BY DEF IInv, FlagAgrees
<1> QED BY <1>1, <1>2, <1>3 DEF IInv

\* Connect begins only without a connection; an attempt may fail.
LEMMA ConnectKeeps ==
    ASSUME IInv,
           DialFails \/ \E who \in Connections \cup {App} : ConnectBegins(who)
    PROVE  IInv'
<1>1. /\ UNCHANGED <<conn, connected, made, open, reconnectCount, reader,
                     writer, pinger, ctxDone, closer>>
      /\ TypeOK /\ ConnectionHeld
  BY DEF DialFails, ConnectBegins, IInv
<1>2. dialing' \in Connections \cup {None, App} /\ (dialing' # None => conn = None)
  BY <1>1 DEF DialFails, ConnectBegins, ConnectionHeld, TypeOK
<1>3. retry' \in [Connections -> {"none", "sleep", "connect", "reset", "done",
                                  "failed", "givenUp", "disabled"}]
  BY <1>1 DEF DialFails, ConnectBegins, Failed, TypeOK
<1>4. TypeOK'
  BY <1>1, <1>2, <1>3 DEF TypeOK
<1> QED BY <1>1, <1>2, <1>4, OtherKeeps

\* A new connection: no readLoop is alive then, unless the context is done.
LEMMA DialSucceedsKeeps == ASSUME IInv, DialSucceeds PROVE IInv'
<1> DEFINE g == made + 1
<1>1. /\ TypeOK /\ ConnectionHeld
      /\ dialing # None /\ made < MaxConnections
      /\ made' = g /\ conn' = g /\ open' = open \cup {g}
      /\ reader' = [reader EXCEPT ![g] = LoopAt("load")]
      /\ writer' = [writer EXCEPT ![g] = LoopAt("idle")]
      /\ pinger' = [pinger EXCEPT ![g] = LoopAt("idle")]
      /\ connected' = TRUE /\ dialing' = None
      /\ retry' = IF dialing = App THEN retry ELSE [retry EXCEPT ![dialing] = "reset"]
      /\ UNCHANGED <<reconnectCount, ctxDone, closer>>
  BY DEF DialSucceeds, IInv
<1>2. /\ made \in Nat /\ g \in Connections /\ g \in 0 .. MaxConnections
  BY <1>1, ConstantsAssumption DEF TypeOK, ConstantsAssumption, Connections
<1> HIDE DEF g
<1>3. conn = None
  BY <1>1 DEF ConnectionHeld
<1>4. /\ reader' \in [Connections -> Loops(Places)]
      /\ writer' \in [Connections -> Loops({"none", "idle", "write", "exited"})]
      /\ pinger' \in [Connections -> Loops({"none", "idle", "write", "exited"})]
  <2>1. /\ LoopAt("load") \in Loops(Places)
        /\ LoopAt("idle") \in Loops({"none", "idle", "write", "exited"})
    BY LoopAtType DEF Places
  <2> QED BY <1>1, <1>2, <2>1 DEF TypeOK
<1>5. retry' \in [Connections -> {"none", "sleep", "connect", "reset", "done",
                                  "failed", "givenUp", "disabled"}]
  BY <1>1 DEF TypeOK
<1>6. TypeOK'
  BY <1>1, <1>2, <1>4, <1>5 DEF TypeOK
<1>7. reader'[g].at = "load" /\ \A h \in Connections : h # g => reader'[h] = reader[h]
  BY <1>1, <1>2, LoopAtFields DEF TypeOK
<1>8. ASSUME NEW h \in Connections PROVE ReaderOwns(h)'
  <2>1. ReaderOwns(h) /\ h \in Nat /\ h # None
    BY ConnectionNumbers DEF IInv
  <2>2. CASE h = g
    BY <1>1, <1>2, <1>7, <2>1, <2>2 DEF ReaderOwns, Alive
  <2>3. CASE h # g
    <3>1. Alive(h) => ctxDone
      BY <1>3, <2>1 DEF ReaderOwns
    <3>2. h > g => h > made
      BY <1>2, <2>1 DEF g
    <3> QED BY <1>1, <1>7, <2>1, <2>3, <3>1, <3>2 DEF ReaderOwns, Alive
  <2> QED BY <2>2, <2>3
<1>9. ConnectionHeld'
  <2>1. open \subseteq {closer.on}
    BY <1>1, <1>3, ConnectionNumbers DEF TypeOK, ConnectionHeld, OpenIsHeld
  <2> QED BY <1>1, <1>2, <2>1 DEF ConnectionHeld, OpenIsHeld
<1>10. FlagAgrees'
  BY <1>1, <1>2, ConnectionNumbers DEF FlagAgrees
<1> QED BY <1>6, <1>8, <1>9, <1>10 DEF IInv

\* The goroutines that reconnect, between two attempts.
LEMMA RetryKeeps ==
    ASSUME IInv,
           \/ \E g \in Connections : RetryWakes(g) \/ RetryResetsCount(g)
           \/ ResetReconnectCount
    PROVE  IInv'
<1>1. /\ UNCHANGED <<connVars, reader, writer, pinger, ctxDone, closer>>
      /\ reconnectCount' = reconnectCount \/ reconnectCount' = 0
      /\ retry' = retry \/ \E g \in Connections, to \in {"done", "connect"} :
                                retry' = [retry EXCEPT ![g] = to]
      /\ TypeOK /\ ConnectionHeld
  BY DEF RetryWakes, RetryResetsCount, ResetReconnectCount, IInv
<1>2. reconnectCount' \in 0 .. MaxReconnects
  BY <1>1, ConstantsAssumption DEF TypeOK, ConstantsAssumption
<1>3. TypeOK'
  BY <1>1, <1>2 DEF TypeOK, connVars
<1> QED BY <1>1, <1>3, OtherKeeps DEF connVars, ConnectionHeld

\* writeLoop and pingLoop use connections and never change them.
LEMMA WritersKeep ==
    ASSUME IInv, NEW g \in Connections, Writer(g) \/ Pinger(g)
    PROVE  IInv'
<1>1. /\ UNCHANGED <<connVars, reconnectCount, reader, retry, ctxDone, closer>>
      /\ TypeOK /\ ConnectionHeld
  BY DEF Writer, Pinger, WriterTakes, WriterWrites, WriterExits, PingerTicks,
         PingerWrites, PingerExits, IInv
<1> DEFINE Places4 == {"none", "idle", "write", "exited"}
<1>2. \A l \in {LoopAt("idle"), LoopAt("exited"), [at |-> "write", on |-> conn]} :
          l \in Loops(Places4)
  BY <1>1, LoopAtType, LoopOnType DEF TypeOK
<1>3. /\ \/ writer' = writer
         \/ \E l \in Loops(Places4) : writer' = [writer EXCEPT ![g] = l]
      /\ \/ pinger' = pinger
         \/ \E l \in Loops(Places4) : pinger' = [pinger EXCEPT ![g] = l]
  <2>1. CASE Writer(g)
    BY <1>2, <2>1 DEF Writer, WriterTakes, WriterWrites, WriterExits
  <2>2. CASE Pinger(g)
    BY <1>2, <2>2 DEF Pinger, PingerTicks, PingerWrites, PingerExits
  <2> QED BY <2>1, <2>2
<1>4. /\ writer' \in [Connections -> Loops(Places4)]
      /\ pinger' \in [Connections -> Loops(Places4)]
  BY <1>1, <1>3 DEF TypeOK
<1>5. TypeOK'
  BY <1>1, <1>4 DEF TypeOK, connVars
<1> QED BY <1>1, <1>5, OtherKeeps DEF connVars, ConnectionHeld

\* Close takes the connection in use and ends it; a connection that is made
\* meanwhile is in use.
LEMMA CloseKeeps ==
    ASSUME IInv, CloseCancels \/ Close \/ ParentCancelled
    PROVE  IInv'
<1>0. TypeOK /\ ConnectionHeld
  BY DEF IInv
<1> DEFINE Stages == {"open", "take", "disconnect", "wait", "closed"}
<1>1. CASE CloseCancels \/ ParentCancelled
  <2>1. /\ UNCHANGED <<connVars, reconnectCount, reader, writer, pinger, retry>>
        /\ ctxDone' = TRUE
        /\ closer' = closer \/ (closer' = LoopAt("take") /\ closer.at = "open")
    BY <1>1 DEF CloseCancels, ParentCancelled
  <2>2. closer' \in Loops(Stages)
    BY <1>0, <2>1, LoopAtType DEF TypeOK
  <2>3. TypeOK'
    BY <1>0, <2>1, <2>2 DEF TypeOK, connVars
  <2> QED BY <1>0, <2>1, <2>3, OtherKeeps, LoopAtFields DEF connVars, ConnectionHeld
<1>2. CASE CloseTakesConnection
  <2>1. /\ UNCHANGED <<connected, made, open, dialing, reconnectCount,
                       reader, writer, pinger, retry, ctxDone>>
        /\ closer.at = "take" /\ conn' = None
        /\ closer' = [at |-> "disconnect", on |-> conn]
    BY <1>2 DEF CloseTakesConnection
  <2>2. ctxDone /\ closer.on = None
    BY <1>0, <2>1 DEF ConnectionHeld
  <2>3. closer' \in Loops(Stages) /\ closer'.at = "disconnect" /\ closer'.on = conn
    BY <1>0, <2>1, LoopOnType DEF TypeOK
  <2>4. TypeOK'
    BY <1>0, <2>1, <2>3 DEF TypeOK
  <2>5. ASSUME NEW g \in Connections PROVE ReaderOwns(g)'
    BY <2>1, <2>2, ConnectionNumbers DEF IInv, ReaderOwns, Alive
  <2>6. made \in Nat
    BY <1>0, ConstantsAssumption DEF TypeOK, ConstantsAssumption
  <2>7. ConnectionHeld'
    BY <1>0, <2>1, <2>2, <2>3, <2>6 DEF ConnectionHeld, OpenIsHeld, None
  <2> QED BY <2>1, <2>2, <2>4, <2>5, <2>7 DEF IInv, FlagAgrees
<1>3. CASE CloseDisconnects
  <2>1. /\ UNCHANGED <<conn, connected, made, dialing, reconnectCount,
                       reader, writer, pinger, retry, ctxDone>>
        /\ closer.at = "disconnect"
        /\ open' = open \ {closer.on} /\ closer' = LoopAt("wait")
    BY <1>3 DEF CloseDisconnects
  <2>2. closer' \in Loops(Stages) /\ closer'.at = "wait" /\ closer'.on = None
    BY <2>1, LoopAtType, LoopAtFields
  <2>3. TypeOK'
    BY <1>0, <2>1, <2>2 DEF TypeOK
  <2>4. ASSUME NEW g \in Connections PROVE ReaderOwns(g)'
    BY <2>1 DEF IInv, ReaderOwns, Alive
  <2>5. ConnectionHeld'
    BY <1>0, <2>1, <2>2 DEF ConnectionHeld, OpenIsHeld
  <2> QED BY <2>1, <2>3, <2>4, <2>5 DEF IInv, FlagAgrees
<1>4. CASE CloseReturns
  <2>1. /\ UNCHANGED <<conn, made, open, dialing, reconnectCount, reader,
                       writer, pinger, retry, ctxDone>>
        /\ closer.at = "wait" /\ connected' = FALSE /\ closer' = LoopAt("closed")
    BY <1>4 DEF CloseReturns
  <2>2. closer' \in Loops(Stages) /\ closer'.at = "closed" /\ closer'.on = None
    BY <2>1, LoopAtType, LoopAtFields
  <2>3. ctxDone /\ closer.on = None
    BY <1>0, <2>1 DEF ConnectionHeld
  <2>4. TypeOK'
    BY <1>0, <2>1, <2>2 DEF TypeOK
  <2>5. ASSUME NEW g \in Connections PROVE ReaderOwns(g)'
    BY <2>1 DEF IInv, ReaderOwns, Alive
  <2>6. ConnectionHeld'
    BY <1>0, <2>1, <2>2, <2>3 DEF ConnectionHeld, OpenIsHeld
  <2> QED BY <2>1, <2>3, <2>4, <2>5, <2>6 DEF IInv, FlagAgrees
<1> QED BY <1>1, <1>2, <1>3, <1>4 DEF Close

\* Every step of every goroutine.
LEMMA ConnectionsStep == IInv /\ Next => IInv'
BY ReaderMovesKeeps, ReaderLeavesKeeps, ConnectKeeps, DialSucceedsKeeps, RetryKeeps,
   WritersKeep, CloseKeeps
DEF Next, Dial, Reader, Retry, ReaderMoves

\* The state NewWebSocketTransport leaves.
LEMMA ConnectionsInit == Init => IInv
<1> SUFFICES ASSUME Init PROVE IInv
  OBVIOUS
<1>1. /\ reader \in [Connections -> Loops(Places)]
      /\ writer \in [Connections -> Loops({"none", "idle", "write", "exited"})]
      /\ pinger \in [Connections -> Loops({"none", "idle", "write", "exited"})]
      /\ closer \in Loops({"open", "take", "disconnect", "wait", "closed"})
  <2>1. /\ LoopAt("none") \in Loops(Places)
        /\ LoopAt("none") \in Loops({"none", "idle", "write", "exited"})
        /\ LoopAt("open") \in Loops({"open", "take", "disconnect", "wait", "closed"})
    BY LoopAtType DEF Places
  <2> QED BY <2>1 DEF Init
<1>2. TypeOK
  <2>1. 0 \in 0 .. MaxConnections /\ 0 \in 0 .. MaxReconnects
    BY ConstantsAssumption DEF ConstantsAssumption
  <2>2. retry \in [Connections -> {"none", "sleep", "connect", "reset", "done",
                                   "failed", "givenUp", "disabled"}]
    BY DEF Init
  <2> QED BY <1>1, <2>1, <2>2 DEF Init, TypeOK
<1>3. closer.at = "open" /\ closer.on = None /\ \A g \in Connections : reader[g].at = "none"
  BY LoopAtFields DEF Init
<1>4. ASSUME NEW g \in Connections PROVE ReaderOwns(g)
  BY <1>3, ConnectionNumbers DEF Init, ReaderOwns, Alive
<1>5. ConnectionHeld /\ FlagAgrees
  <2>1. conn = 0 /\ made = 0 /\ conn = None /\ connected = FALSE
    BY DEF Init, None
  <2>2. FlagAgrees
    BY <2>1 DEF FlagAgrees
  <2>3. ConnectionHeld
    BY <1>3, <2>1 DEF Init, ConnectionHeld, OpenIsHeld
  <2> QED BY <2>2, <2>3
<1> QED BY <1>2, <1>4, <1>5 DEF IInv

\* A step that leaves the connections alone.
LEMMA ConnectionsStutter == IInv /\ UNCHANGED vars => IInv'
BY DEF IInv, TypeOK, ReaderOwns, Alive, ConnectionHeld, OpenIsHeld, FlagAgrees,
       vars, connVars

\* However losses, reconnections and Close interleave: no connection is leaked,
\* each is read by one readLoop at most, the one in use by one that is alive,
\* and the flag the senders look at is that of the connection.
THEOREM ConnectionsSound == Spec => []Inv
BY ConnectionsInit, ConnectionsStep, ConnectionsStutter, InvFollows, PTL DEF Spec

-----------------------------------------------------------------------------
(***************************************************************************)
(* The transport with its messages                                         *)
(***************************************************************************)

\* Whatever the load, what happens to the connections is what
\* WebSocketTransport says.
LEMMA MessagesRefine == MessagesNext => Next \/ UNCHANGED vars
<1> SUFFICES ASSUME MessagesNext PROVE Next \/ UNCHANGED vars
  OBVIOUS
<1>1. CASE Application
  BY <1>1 DEF Application, Next
<1>2. CASE Network
  BY <1>2 DEF Network, Next, PeerLost, ReaderReadsMessage
<1>3. CASE SendBegins \/ SenderStep \/ CopierStep \/ AppStep
  BY <1>3 DEF SendBegins, SenderStep, Sender, SendEnqueues, SendCancelled, CopierStep,
              Copier, CopierTakes, CopierForwards, CopierSeesDone, AppStep, AppReads
<1>4. CASE DialStep \/ CloseStep
  BY <1>4 DEF DialStep, CloseStep, Next, Dial
<1>5. ASSUME NEW g \in Connections, ReaderStep(g) PROVE Next \/ UNCHANGED vars
  BY <1>5 DEF ReaderStep, ReaderHandsOver, ReaderSeesDone, ReaderGoesOn, ReaderFails, Next
<1>6. ASSUME NEW g \in Connections, WriterStep(g) \/ PingerStep(g) \/ RetryStep(g)
      PROVE  Next \/ UNCHANGED vars
  BY <1>6 DEF WriterStep, WriterTakesMessage, WriterWritesMessage, PingerStep,
              PingerPings, RetryStep, Writer, Pinger, Next
<1> QED BY <1>1, <1>2, <1>3, <1>4, <1>5, <1>6 DEF MessagesNext

\* The messages that senders and writers have under way.
SendTypeOK ==
    /\ mute \subseteq Connections
    /\ sender \in {"none", "send"}
    /\ outgoing \in 0 .. MessageBuffer

\* The messages that came from the peer.
ReceiveTypeOK ==
    /\ lost \subseteq Connections
    /\ inHand \subseteq Connections
    /\ incoming \in 0 .. MessageBuffer
    /\ copier \in {"idle", "hand", "exited"}
    /\ requestChan \in 0 .. MessageBuffer

\* A loop that writes has the connection it looked up.
WritesOnConnection ==
    \A g \in Connections :
        /\ writer[g].at = "write" => writer[g].on \in Connections
        /\ pinger[g].at = "write" => pinger[g].on \in Connections

MessagesIInv ==
    /\ IInv
    /\ WritesOnConnection
    /\ load \in Loads
    /\ SendTypeOK
    /\ ReceiveTypeOK

\* A loop starts to write only on a connection that is there.
LEMMA WritesStep == IInv /\ WritesOnConnection /\ Next => WritesOnConnection'
<1> SUFFICES ASSUME IInv, WritesOnConnection, Next, NEW h \in Connections
             PROVE  /\ writer'[h].at = "write" => writer'[h].on \in Connections
                    /\ pinger'[h].at = "write" => pinger'[h].on \in Connections
  BY DEF WritesOnConnection
<1>0. TypeOK
  BY DEF IInv
<1>1. ASSUME NEW g \in Connections, Writer(g)
      PROVE  /\ pinger' = pinger
             /\ writer'[h].at = "write" => writer'[h].on \in Connections
  <2>1. /\ pinger' = pinger
        /\ \/ writer'[h] = writer[h]
           \/ writer'[h] = LoopAt("idle") \/ writer'[h] = LoopAt("exited")
           \/ conn # None /\ writer'[h] = [at |-> "write", on |-> conn]
    BY <1>0, <1>1 DEF Writer, WriterTakes, WriterWrites, WriterExits, TypeOK
  <2>2. conn # None => /\ conn \in Connections
                       /\ [at |-> "write", on |-> conn].on = conn
    BY <1>0 DEF TypeOK
  <2> QED BY <2>1, <2>2, LoopAtFields DEF WritesOnConnection
<1>2. ASSUME NEW g \in Connections, Pinger(g)
      PROVE  /\ writer' = writer
             /\ pinger'[h].at = "write" => pinger'[h].on \in Connections
  <2>1. /\ writer' = writer
        /\ \/ pinger'[h] = pinger[h]
           \/ pinger'[h] = LoopAt("idle") \/ pinger'[h] = LoopAt("exited")
           \/ conn # None /\ pinger'[h] = [at |-> "write", on |-> conn]
    BY <1>0, <1>2 DEF Pinger, PingerTicks, PingerWrites, PingerExits, TypeOK
  <2>2. conn # None => /\ conn \in Connections
                       /\ [at |-> "write", on |-> conn].on = conn
    BY <1>0 DEF TypeOK
  <2> QED BY <2>1, <2>2, LoopAtFields DEF WritesOnConnection
<1>3. CASE DialSucceeds
  <2>1. /\ writer' = [writer EXCEPT ![made + 1] = LoopAt("idle")]
        /\ pinger' = [pinger EXCEPT ![made + 1] = LoopAt("idle")]
    BY <1>3 DEF DialSucceeds
  <2> QED BY <1>0, <2>1, LoopAtFields DEF TypeOK, WritesOnConnection
<1>4. CASE UNCHANGED <<writer, pinger>>
  BY <1>4 DEF WritesOnConnection
<1>5. ASSUME NEW g \in Connections,
             \/ Reader(g) \/ ReaderReads(g) \/ ReaderEnds(g)
             \/ ReaderLosesPeer(g) \/ Retry(g)
      PROVE  UNCHANGED <<writer, pinger>>
  BY <1>5 DEF Reader, ReaderLoads, ReaderClearsFlag, ReaderDropsConnection, ReaderRetries,
              ReaderReads, ReaderEnds, ReaderLosesPeer, ReaderVars, Retry, RetryWakes,
              ConnectBegins, RetryResetsCount
<1>6. CASE ConnectBegins(App) \/ DialFails \/ ResetReconnectCount \/ CloseCancels
              \/ Close \/ ParentCancelled
  BY <1>4, <1>6 DEF ConnectBegins, DialFails, ResetReconnectCount, CloseCancels, Close,
                    CloseTakesConnection, CloseDisconnects, CloseReturns, ParentCancelled
<1>7. ASSUME NEW g \in Connections, Writer(g) \/ Pinger(g)
      PROVE  /\ writer'[h].at = "write" => writer'[h].on \in Connections
             /\ pinger'[h].at = "write" => pinger'[h].on \in Connections
  BY <1>1, <1>2, <1>7 DEF WritesOnConnection
<1> QED BY <1>3, <1>4, <1>5, <1>6, <1>7 DEF Next, Dial

\* The messages that senders and writers move.
LEMMA SendingStep ==
    ASSUME MessagesIInv, MessagesNext
    PROVE  SendTypeOK'
<1>0. /\ SendTypeOK /\ WritesOnConnection
      /\ outgoing \in 0 .. MessageBuffer /\ MessageBuffer \in Nat
  BY MessagesAssumption DEF MessagesIInv, SendTypeOK, MessagesAssumption
<1>1. CASE SendBegins \/ Sender
  <2>1. mute' = mute /\ sender' \in {"none", "send"} /\ outgoing' \in 0 .. MessageBuffer
    BY <1>0, <1>1 DEF SendBegins, Sender, SendEnqueues, SendCancelled, SendTypeOK
  <2> QED BY <1>0, <2>1 DEF SendTypeOK
<1>2. ASSUME NEW g \in Connections, WriterTakesMessage(g) PROVE SendTypeOK'
  BY <1>0, <1>2 DEF WriterTakesMessage, SendTypeOK
<1>3. ASSUME NEW g \in Connections, WriterWritesMessage(g) PROVE SendTypeOK'
  <2>1. /\ UNCHANGED <<sender, outgoing>>
        /\ writer[g].at = "write"
        /\ mute' = mute \/ mute' = mute \cup {writer[g].on}
    BY <1>3 DEF WriterWritesMessage, WriterWrites, WriteReturns, WriteShows
  <2> QED BY <1>0, <2>1 DEF SendTypeOK, WritesOnConnection
<1>4. ASSUME NEW g \in Connections, PingerPings(g) PROVE SendTypeOK'
  <2>1. /\ UNCHANGED <<sender, outgoing>>
        /\ pinger[g].at = "write"
        /\ mute' = mute \/ mute' = mute \cup {pinger[g].on}
    BY <1>4 DEF PingerPings, PingerWrites, WriteReturns, WriteShows
  <2> QED BY <1>0, <2>1 DEF SendTypeOK, WritesOnConnection
<1>5. CASE UNCHANGED sendVars
  BY <1>0, <1>5 DEF SendTypeOK, sendVars
<1> QED BY <1>1, <1>2, <1>3, <1>4, <1>5
        DEF MessagesNext, Application, Network, SenderStep, CopierStep, AppStep, DialStep,
            CloseStep, ReaderStep, WriterStep, PingerStep, RetryStep

\* The messages that came from the peer.
LEMMA ReceivingStep ==
    ASSUME MessagesIInv, MessagesNext
    PROVE  ReceiveTypeOK'
<1>0. /\ ReceiveTypeOK
      /\ MessageBuffer \in Nat /\ open \subseteq Connections
  BY MessagesAssumption DEF MessagesIInv, IInv, TypeOK, MessagesAssumption
<1>1. CASE Copier \/ AppReads
  BY <1>0, <1>1 DEF Copier, CopierTakes, CopierForwards, CopierSeesDone, AppReads,
                    ReceiveTypeOK
<1>2. ASSUME NEW g \in Connections, PeerLost(g) \/ ReaderReadsMessage(g)
      PROVE  ReceiveTypeOK'
  BY <1>0, <1>2 DEF PeerLost, ReaderReadsMessage, ReceiveTypeOK
<1>3. ASSUME NEW g \in Connections, ReaderHandsOver(g) \/ ReaderSeesDone(g)
      PROVE  ReceiveTypeOK'
  BY <1>0, <1>3 DEF ReaderHandsOver, ReaderSeesDone, ReceiveTypeOK
<1>4. CASE UNCHANGED receiveVars
  BY <1>0, <1>4 DEF ReceiveTypeOK, receiveVars
<1> QED BY <1>1, <1>2, <1>3, <1>4
        DEF MessagesNext, Application, Network, SenderStep, CopierStep, AppStep, DialStep,
            CloseStep, ReaderStep, ReaderGoesOn, ReaderFails, WriterStep, PingerStep,
            RetryStep

\* Every step, whatever the load.
LEMMA MessagesStep == MessagesIInv /\ MessagesNext => MessagesIInv'
<1> SUFFICES ASSUME MessagesIInv, MessagesNext PROVE MessagesIInv'
  OBVIOUS
<1>1. IInv' /\ WritesOnConnection'
  <2>1. Next \/ UNCHANGED vars
    BY MessagesRefine
  <2>2. CASE Next
    BY <2>2, ConnectionsStep, WritesStep DEF MessagesIInv
  <2>3. CASE UNCHANGED vars
    BY <2>3, ConnectionsStutter DEF MessagesIInv, WritesOnConnection, vars
  <2> QED BY <2>1, <2>2, <2>3
<1>2. load' = load
  BY DEF MessagesNext, Application, Network, SenderStep, CopierStep, AppStep, DialStep,
         CloseStep, ReaderStep, WriterStep, PingerStep, RetryStep
<1> QED BY <1>1, <1>2, SendingStep, ReceivingStep DEF MessagesIInv

\* Under every load, with any application and any network, the connections
\* behave as WebSocketTransport says.
THEOREM MessagesImplementConnections == MessagesSpec => Spec
<1>1. [MessagesNext]_allVars => [Next]_vars
  BY MessagesRefine DEF allVars
<1>2. MessagesInit => Init
  BY DEF MessagesInit
<1> QED BY <1>1, <1>2, PTL DEF MessagesSpec, Spec

\* What ConnectionsSound says, also while messages are sent, read and held in
\* the transport's channels; none of these holds more than its capacity.
THEOREM MessagesSound == MessagesSpec => []MessagesInv
<1>1. MessagesInit => MessagesIInv
  <2> SUFFICES ASSUME MessagesInit PROVE MessagesIInv
    OBVIOUS
  <2>1. IInv
    BY ConnectionsInit DEF MessagesInit
  <2>2. WritesOnConnection
    BY LoopAtFields DEF MessagesInit, Init, WritesOnConnection
  <2>3. SendTypeOK /\ ReceiveTypeOK
    BY MessagesAssumption DEF MessagesInit, SendTypeOK, ReceiveTypeOK, MessagesAssumption
  <2> QED BY <2>1, <2>2, <2>3 DEF MessagesInit, MessagesIInv
<1>2. MessagesIInv /\ UNCHANGED allVars => MessagesIInv'
  BY ConnectionsStutter
  DEF MessagesIInv, allVars, sendVars, receiveVars, SendTypeOK, ReceiveTypeOK,
      WritesOnConnection, vars
<1>3. MessagesIInv => MessagesInv
  BY InvFollows DEF MessagesIInv, MessagesInv, SendTypeOK, ReceiveTypeOK
<1> QED BY <1>1, <1>2, <1>3, MessagesStep, PTL DEF MessagesSpec

============================================================================
