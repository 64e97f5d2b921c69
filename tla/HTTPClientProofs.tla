--------------------------- MODULE HTTPClientProofs ---------------------------
(***************************************************************************)
(* Theorems about HTTPClient with its OAuthHandler, for any number of      *)
(* requests, notifications, slots, tokens and authorizations.              *)
(*                                                                         *)
(* A step of HTTPClientOAuth is a step of the transport and one of the     *)
(* handler's tokens, each of which may stutter.  So the transport keeps an *)
(* inductive invariant of its own, in three parts that share only ctxDone; *)
(* the tokens keep theirs, whoever the callers are; and between the two is *)
(* only who asks for a header.                                             *)
(***************************************************************************)
EXTENDS HTTPClientOAuth, TLAPS, FiniteSetTheorems

(***************************************************************************)
(* The inductive invariant                                                 *)
(***************************************************************************)
CallsInv ==
    /\ call \in [Calls -> {"none", "posting", "closing", "ended"}]
    /\ responses \in [Calls -> {"open", "answer", "answered", "closed"}]

\* The notifications that bridgeOutgoing has taken from the channel.
Taken == accepted - Len(outgoing)

PostsTypeOK ==
    /\ accepted \in 0 .. MaxNotifications
    /\ outgoing \in Seq(Notifications)
    /\ bridge \in [at : {"idle", "acquire", "exited"},
                   holds : Notifications \cup {None}]
    /\ semaphore \in 0 .. Slots
    /\ posting \subseteq Notifications
    /\ arrived \in Seq(Notifications)

\* The channel holds the notifications accepted last, one after the other, and
\* the bridge the one before; what is being posted is none of them.
InLine ==
    /\ Len(outgoing) <= accepted
    /\ \A i \in 1 .. Len(outgoing) : outgoing[i] = Taken + i
    /\ bridge.at = "acquire" <=> bridge.holds # None
    /\ bridge.holds \in {None, Taken}
    /\ \A n \in posting : n <= Taken /\ n # bridge.holds

PostsInv == PostsTypeOK /\ InLine /\ SlotsAgree

StreamTypeOK ==
    /\ ctxDone \in BOOLEAN
    /\ stream \in {"new", "check", "connect", "read", "deliver", "lost",
                   "backoff", "givenUp", "exited"}
    /\ reconnects \in 0 .. MaxReconnects
    /\ refused \in 0 .. MaxReconnects + 1
    /\ events \in 0 .. MaxEvents
    /\ event \in Channels \cup {"none"}
    /\ delivered \in [Channels -> 0 .. BufferSize]
    /\ closer \in {"open", "waiting", "closed"}

\* After Close the goroutine of the stream may begin, but no more than look at
\* ctx; and an attempt is counted as refused before it is as a reconnection.
StreamSound ==
    /\ closer # "open" => ctxDone
    /\ closer = "closed" => stream \in {"new", "check", "givenUp", "exited"}
    /\ stream = "deliver" <=> event # "none"
    /\ refused <= reconnects + 1
    /\ stream \notin {"lost", "givenUp"} => refused <= reconnects

StreamInv == StreamTypeOK /\ StreamSound

\* The transport.
TransportInv == CallsInv /\ PostsInv /\ StreamInv

\* A refresh is one of a token, an exchange one of a flow.
Concerned ==
    /\ \A c \in Goroutines :
          header[c].at \in {"metadata", "fetch", "post", "answer"}
              => header[c].old # Auth!None
    /\ exchange.at # "idle" => exchange.flow # Auth!None

\* The inductive invariant.
TokensIInv == Auth!TokensInv /\ Auth!OnTheWayIsFresh /\ Concerned

\* What header[c] may be.
HeaderType == [at : {"idle", "metadata", "fetch", "post", "answer",
                     "authorized", "required"},
               old : 0 .. MaxTokens, new : 0 .. MaxTokens]

\* Only a goroutine that is about to send something asks for a header.
SendersAsk ==
    /\ \A g \in Goroutines : header[g] # Auth!Idle => Sends(g)
    /\ ~oauthEnabled => \A g \in Goroutines : header[g] = Auth!Idle

\* The inductive invariant.
IInv == TransportInv /\ TokensIInv /\ SendersAsk

(***************************************************************************)
(* Requests                                                                *)
(***************************************************************************)
LEMMA CallsStep ==
    ASSUME CallsInv, NEW c \in Calls, SendRequest(c) \/ Call(c)
    PROVE  CallsInv'
  BY DEF CallsInv, SendRequest, Call, CallAnswered, CallFails, CallCloses

(***************************************************************************)
(* Notifications                                                           *)
(***************************************************************************)
LEMMA PostingFinite ==
    ASSUME PostsInv
    PROVE  IsFiniteSet(posting) /\ Cardinality(posting) \in Nat
  <1>1. MaxNotifications \in Nat
    BY ConstantsAssumption
  <1>2. IsFiniteSet(Notifications)
    BY <1>1, FS_Interval DEF Notifications
  <1>3. posting \in SUBSET Notifications
    BY DEF PostsInv, PostsTypeOK
  <1> QED BY <1>2, <1>3, FS_Subset, FS_CardinalityType

LEMMA SendNotificationStep ==
    ASSUME PostsInv, SendNotification
    PROVE  PostsInv'
  <1>1. /\ accepted < MaxNotifications /\ accepted' = accepted + 1
        /\ outgoing' = Append(outgoing, accepted + 1)
        /\ UNCHANGED <<bridge, semaphore, posting, arrived>>
    BY DEF SendNotification
  <1>2. /\ PostsTypeOK /\ InLine /\ SlotsAgree
        /\ accepted \in Nat /\ MaxNotifications \in Nat
        /\ outgoing \in Seq(Notifications) /\ Len(outgoing) \in Nat
    BY ConstantsAssumption DEF PostsInv, PostsTypeOK
  <1>3. /\ accepted' \in 0 .. MaxNotifications /\ accepted' \in Notifications
        /\ outgoing' \in Seq(Notifications) /\ Len(outgoing') = Len(outgoing) + 1
        /\ \A i \in 1 .. Len(outgoing) : outgoing'[i] = outgoing[i]
        /\ outgoing'[Len(outgoing) + 1] = accepted + 1
    BY <1>1, <1>2 DEF Notifications
  <1>4. Taken' = Taken
    BY <1>1, <1>2, <1>3 DEF Taken
  <1>5. InLine'
    <2>1. Taken = accepted - Len(outgoing)
      BY DEF Taken
    <2>2. \A i \in 1 .. Len(outgoing') : outgoing'[i] = Taken + i
      BY <1>2, <1>3, <2>1 DEF InLine
    <2> QED BY <1>1, <1>2, <1>3, <1>4, <2>2 DEF InLine
  <1>6. PostsTypeOK'
    BY <1>1, <1>2, <1>3 DEF PostsTypeOK
  <1> QED BY <1>1, <1>2, <1>5, <1>6 DEF PostsInv, SlotsAgree

LEMMA BridgeTakesStep ==
    ASSUME PostsInv, BridgeTakes
    PROVE  PostsInv'
  <1>1. /\ bridge = Idle /\ outgoing # <<>>
        /\ bridge' = [at |-> "acquire", holds |-> Head(outgoing)]
        /\ outgoing' = Tail(outgoing)
        /\ UNCHANGED <<accepted, semaphore, posting, arrived>>
    BY DEF BridgeTakes
  <1>2. /\ PostsTypeOK /\ InLine /\ SlotsAgree
        /\ accepted \in Nat /\ MaxNotifications \in Nat
        /\ outgoing \in Seq(Notifications) /\ Len(outgoing) \in Nat
    BY ConstantsAssumption DEF PostsInv, PostsTypeOK
  <1>3. /\ Len(outgoing) >= 1 /\ Head(outgoing) = outgoing[1]
        /\ Head(outgoing) \in Notifications /\ outgoing' \in Seq(Notifications)
        /\ Len(outgoing') = Len(outgoing) - 1
        /\ \A i \in 1 .. Len(outgoing) - 1 : outgoing'[i] = outgoing[i + 1]
    BY <1>1, <1>2
  <1>4. Taken' = Taken + 1 /\ Taken \in Nat
    BY <1>1, <1>2, <1>3 DEF Taken, InLine
  <1>5. /\ bridge'.at = "acquire" /\ bridge'.holds = Taken'
        /\ bridge' \in [at : {"idle", "acquire", "exited"},
                        holds : Notifications \cup {None}]
    BY <1>1, <1>2, <1>3, <1>4 DEF InLine
  <1>6. InLine'
    <2>1. Len(outgoing') <= accepted'
      BY <1>1, <1>2, <1>3 DEF InLine
    <2>2. \A i \in 1 .. Len(outgoing') : outgoing'[i] = Taken' + i
      BY <1>2, <1>3, <1>4 DEF InLine
    <2>3. \A n \in posting : n \in Nat /\ n <= Taken
      BY <1>2 DEF InLine, PostsTypeOK, Notifications
    <2>4. \A n \in posting' : n <= Taken' /\ n # bridge'.holds
      BY <1>1, <1>4, <1>5, <2>3
    <2> QED BY <1>4, <1>5, <2>1, <2>2, <2>4 DEF InLine, None
  <1>7. PostsTypeOK'
    BY <1>1, <1>2, <1>3, <1>5 DEF PostsTypeOK
  <1> QED BY <1>1, <1>2, <1>6, <1>7 DEF PostsInv, SlotsAgree

\* The notification in hand takes a slot, which none of the others has.
LEMMA BridgePostsStep ==
    ASSUME PostsInv, BridgePosts
    PROVE  PostsInv'
  <1>1. /\ bridge.at = "acquire" /\ semaphore < Slots
        /\ semaphore' = semaphore + 1 /\ bridge' = Idle
        /\ posting' = posting \cup {bridge.holds}
        /\ UNCHANGED <<accepted, outgoing, arrived>>
    BY DEF BridgePosts
  <1>2. /\ PostsTypeOK /\ InLine /\ SlotsAgree /\ Slots \in Nat
        /\ bridge.holds \in Notifications /\ bridge.holds \notin posting
        /\ bridge.holds = Taken
    BY <1>1, ConstantsAssumption DEF PostsInv, PostsTypeOK, InLine
  <1>3. Cardinality(posting') = Cardinality(posting) + 1
    BY <1>1, <1>2, PostingFinite, FS_AddElement
  <1>4. SlotsAgree' /\ semaphore' \in 0 .. Slots
    BY <1>1, <1>2, <1>3, PostingFinite DEF SlotsAgree, PostsTypeOK
  <1>5. /\ bridge'.at = "idle" /\ bridge'.holds = None
        /\ bridge' \in [at : {"idle", "acquire", "exited"},
                        holds : Notifications \cup {None}]
    BY <1>1 DEF Idle
  <1>6. PostsTypeOK'
    BY <1>1, <1>2, <1>4, <1>5 DEF PostsTypeOK
  <1>7. InLine'
    <2>1. Taken' = Taken
      BY <1>1 DEF Taken
    <2>2. \A n \in posting' : n \in Nat /\ n <= Taken /\ n # None
      BY <1>1, <1>2 DEF InLine, PostsTypeOK, Notifications, None
    <2> QED BY <1>1, <1>2, <1>5, <2>1, <2>2 DEF InLine
  <1> QED BY <1>4, <1>6, <1>7 DEF PostsInv

LEMMA BridgeExitsStep ==
    ASSUME PostsInv, BridgeExits
    PROVE  PostsInv'
  <1>1. /\ bridge = Idle /\ bridge' = [Idle EXCEPT !.at = "exited"]
        /\ UNCHANGED <<accepted, outgoing, semaphore, posting, arrived>>
    BY DEF BridgeExits
  <1>2. /\ bridge'.at = "exited" /\ bridge'.holds = bridge.holds
        /\ bridge.at # "acquire"
        /\ bridge' \in [at : {"idle", "acquire", "exited"},
                        holds : Notifications \cup {None}]
    BY <1>1 DEF Idle
  <1>3. InLine'
    BY <1>1, <1>2 DEF PostsInv, InLine, Taken
  <1> QED BY <1>1, <1>2, <1>3 DEF PostsInv, PostsTypeOK, SlotsAgree

LEMMA PostArrivesStep ==
    ASSUME PostsInv, NEW n \in Notifications, PostArrives(n)
    PROVE  PostsInv'
  <1>1. UNCHANGED <<accepted, outgoing, bridge, semaphore, posting>>
        /\ arrived' = Append(arrived, n)
    BY DEF PostArrives
  <1>2. PostsTypeOK'
    BY <1>1 DEF PostsInv, PostsTypeOK
  <1>3. InLine' /\ SlotsAgree'
    BY <1>1 DEF PostsInv, InLine, Taken, SlotsAgree
  <1> QED BY <1>2, <1>3 DEF PostsInv

\* The slot of an exchange that is over is given back.
LEMMA PostEndsStep ==
    ASSUME PostsInv, NEW n \in Notifications, PostEnds(n)
    PROVE  PostsInv'
  <1>1. /\ n \in posting /\ posting' = posting \ {n}
        /\ semaphore' = semaphore - 1
        /\ UNCHANGED <<accepted, outgoing, bridge, arrived>>
    BY DEF PostEnds
  <1>2. PostsTypeOK /\ InLine /\ SlotsAgree /\ Slots \in Nat
    BY ConstantsAssumption DEF PostsInv
  <1>3. Cardinality(posting') = Cardinality(posting) - 1
        /\ Cardinality(posting') \in Nat
    <2>1. IsFiniteSet(posting')
      BY <1>1, PostingFinite, FS_RemoveElement
    <2> QED BY <1>1, <2>1, PostingFinite, FS_RemoveElement, FS_CardinalityType
  <1>4. SlotsAgree' /\ semaphore' \in 0 .. Slots
    BY <1>1, <1>2, <1>3, PostingFinite DEF SlotsAgree, PostsTypeOK
  <1>5. PostsTypeOK'
    BY <1>1, <1>2, <1>4 DEF PostsTypeOK
  <1>6. InLine'
    BY <1>1, <1>2 DEF InLine, Taken
  <1> QED BY <1>4, <1>5, <1>6 DEF PostsInv

(***************************************************************************)
(* The event stream and Close                                              *)
(***************************************************************************)
LEMMA StreamStepHolds ==
    ASSUME StreamInv, Stream
    PROVE  StreamInv'
  <1>1. StreamTypeOK /\ StreamSound /\ MaxReconnects \in Nat
    BY ConstantsAssumption DEF StreamInv
  <1>2. CASE StreamStarts \/ StreamChecks \/ StreamEnds \/ StreamBacksOff
    BY <1>1, <1>2 DEF StreamInv, StreamTypeOK, StreamSound, StreamStarts,
       StreamChecks, StreamEnds, StreamBacksOff
  <1>3. CASE StreamConnects \/ StreamRefused \/ StreamRetries
    BY <1>1, <1>3 DEF StreamInv, StreamTypeOK, StreamSound, StreamConnects,
       StreamRefused, StreamRetries
  <1>4. CASE StreamDelivers
    <2>1. event \in Channels /\ delivered[event] < BufferSize /\ BufferSize \in Nat
      BY <1>1, <1>4, ConstantsAssumption DEF StreamTypeOK, StreamSound,
         StreamDelivers
    <2>2. delivered' \in [Channels -> 0 .. BufferSize]
      BY <1>1, <1>4, <2>1 DEF StreamTypeOK, StreamDelivers
    <2> QED BY <1>1, <1>4, <2>2 DEF StreamInv, StreamTypeOK, StreamSound,
               StreamDelivers
  <1>5. CASE StreamDropsEvent
    BY <1>1, <1>5 DEF StreamInv, StreamTypeOK, StreamSound, StreamDropsEvent
  <1> QED BY <1>2, <1>3, <1>4, <1>5 DEF Stream

LEMMA StreamReadsStep ==
    ASSUME StreamInv, StreamReads
    PROVE  StreamInv'
  BY ConstantsAssumption DEF StreamInv, StreamTypeOK, StreamSound, StreamReads,
     Channels

LEMMA AppReceivesStep ==
    ASSUME StreamInv, NEW c \in Channels, AppReceives(c)
    PROVE  StreamInv'
  <1>1. delivered' \in [Channels -> 0 .. BufferSize]
    BY ConstantsAssumption DEF StreamInv, StreamTypeOK, AppReceives
  <1> QED BY <1>1 DEF StreamInv, StreamTypeOK, StreamSound, AppReceives

\* Close waits for the stream unless it is not counted yet or has ended.
LEMMA ClosingStep ==
    ASSUME StreamInv, CloseCancels \/ CloseReturns \/ ParentCancelled
    PROVE  StreamInv'
  <1>1. UNCHANGED streamVars
    BY DEF CloseCancels, CloseReturns, ParentCancelled
  <1> QED BY <1>1 DEF StreamInv, StreamTypeOK, StreamSound, CloseCancels,
          CloseReturns, ParentCancelled, StreamCounted, streamVars

(***************************************************************************)
(* The tokens                                                              *)
(***************************************************************************)
\* Initially nothing is spent and nothing is on its way.
LEMMA TokensInit ==
    ASSUME Auth!Init
    PROVE  TokensIInv
  <1> USE OAuthAssumption
  <1>1. store \in 0 .. 1 /\ store <= MaxTokens /\ issued = store
    BY DEF Auth!Init, Auth!None
  <1>2. header \in [Goroutines -> HeaderType]
    BY DEF Auth!Init, Auth!Idle, Auth!None, HeaderType
  <1>3. expectedState \in 0 .. MaxFlows /\ codes \subseteq Auth!Flows
    BY DEF Auth!Init, Auth!Flows, Auth!None
  <1>4. Auth!TypeOK
    <2>1. kind \in [Auth!Tokens -> Auth!TokenKinds]
      BY DEF Auth!Init, Auth!TokenKinds
    <2>2. exchange \in [at : {"idle", "post", "answer"}, flow : 0 .. MaxFlows,
                        new : 0 .. MaxTokens]
      BY DEF Auth!Init, Auth!NoExchange, Auth!None
    <2>3. store \in 0 .. issued /\ issued \in 0 .. MaxTokens
      BY <1>1
    <2>4. expired = {} /\ spent = {} /\ lost = {} /\ metadata \in BOOLEAN
      BY DEF Auth!Init
    <2> QED BY <1>2, <1>3, <2>1, <2>2, <2>3, <2>4 DEF Auth!TypeOK, HeaderType
  <1>5. Auth!SpentHasSuccessor /\ Auth!MetadataBeforeState
    BY DEF Auth!Init, Auth!SpentHasSuccessor, Auth!MetadataBeforeState
  <1>6. Auth!OnTheWayIsFresh
    BY <1>1 DEF Auth!Init, Auth!OnTheWayIsFresh, Auth!InHand, Auth!Idle,
       Auth!NoExchange, Auth!None
  <1>7. Concerned
    BY DEF Auth!Init, Concerned, Auth!Idle, Auth!NoExchange
  <1> QED BY <1>4, <1>5, <1>6, <1>7 DEF TokensIInv, Auth!TokensInv

\* Who asks for a header, looks at the metadata, fails or returns has no new token.
LEMMA TokensHeaderStep ==
    ASSUME TokensIInv,
           NEW c \in Goroutines,
           Auth!GetToken(c) \/ Auth!ChecksMetadata(c) \/ Auth!FetchesMetadata(c)
           \/ Auth!RefreshFails(c) \/ Auth!Returns(c)
    PROVE  TokensIInv'
  <1> USE OAuthAssumption
  <1>1. CASE Auth!GetToken(c)
    <2>1. header' \in [Goroutines -> HeaderType]
      <3>1. store \in 0 .. MaxTokens
        BY DEF TokensIInv, Auth!TokensInv, Auth!TypeOK
      <3>2. /\ [Auth!Idle EXCEPT !.at = "required"] \in HeaderType
            /\ [Auth!Idle EXCEPT !.at = "authorized"] \in HeaderType
            /\ [Auth!Idle EXCEPT !.at = "metadata", !.old = store] \in HeaderType
        <4>1. Auth!Idle \in HeaderType
          BY DEF Auth!Idle, HeaderType, Auth!None
        <4> QED BY <4>1, <3>1 DEF HeaderType
      <3> DEFINE answer == IF store = Auth!None \/ kind[store] = "empty"
                           THEN [Auth!Idle EXCEPT !.at = "required"]
                           ELSE IF store \notin expired
                           THEN [Auth!Idle EXCEPT !.at = "authorized"]
                           ELSE IF kind[store] = "refreshable"
                           THEN [Auth!Idle EXCEPT !.at = "metadata", !.old = store]
                           ELSE [Auth!Idle EXCEPT !.at = "required"]
      <3>3. answer \in HeaderType
        BY <3>2
      <3>4. header' = [header EXCEPT ![c] = answer]
        BY <1>1 DEF Auth!GetToken
      <3> HIDE DEF answer
      <3> QED BY <3>3, <3>4 DEF TokensIInv, Auth!TokensInv, Auth!TypeOK,
      HeaderType
    <2>2. Auth!TypeOK'
      BY <1>1, <2>1 DEF TokensIInv, Auth!TokensInv, Auth!TypeOK, Auth!GetToken,
         HeaderType,
             Auth!TokenKinds, Auth!serverVars
    <2>3. Auth!SpentHasSuccessor'
      BY <1>1 DEF TokensIInv, Auth!TokensInv, Auth!GetToken,
         Auth!SpentHasSuccessor, Auth!serverVars
    <2>4. Auth!MetadataBeforeState'
      BY <1>1 DEF TokensIInv, Auth!TokensInv, Auth!GetToken,
         Auth!MetadataBeforeState, Auth!serverVars
    <2>5. Auth!OnTheWayIsFresh'
      BY <1>1 DEF TokensIInv, Auth!TokensInv, Auth!TypeOK, Auth!GetToken,
         Auth!OnTheWayIsFresh, Auth!InHand,
             Auth!Fresh, Auth!Idle, Auth!None, Auth!serverVars
    <2>6. Concerned'
      BY <1>1 DEF TokensIInv, Auth!TokensInv, Auth!GetToken, Concerned,
         Auth!serverVars
    <2> QED BY <2>2, <2>3, <2>4, <2>5, <2>6 DEF TokensIInv, Auth!TokensInv
  <1>2. CASE Auth!ChecksMetadata(c)
    <2>1. header' \in [Goroutines -> HeaderType]
      BY <1>2 DEF TokensIInv, Auth!TokensInv, Auth!TypeOK, Auth!ChecksMetadata,
         HeaderType,
             Auth!serverVars
    <2>2. Auth!TypeOK'
      BY <1>2, <2>1 DEF TokensIInv, Auth!TokensInv, Auth!TypeOK,
         Auth!ChecksMetadata, HeaderType,
             Auth!TokenKinds, Auth!serverVars
    <2>3. Auth!SpentHasSuccessor'
      BY <1>2 DEF TokensIInv, Auth!TokensInv, Auth!ChecksMetadata,
         Auth!SpentHasSuccessor, Auth!serverVars
    <2>4. Auth!MetadataBeforeState'
      BY <1>2 DEF TokensIInv, Auth!TokensInv, Auth!ChecksMetadata,
         Auth!MetadataBeforeState,
             Auth!serverVars
    <2>5. Auth!OnTheWayIsFresh'
      BY <1>2 DEF TokensIInv, Auth!TokensInv, Auth!ChecksMetadata,
         Auth!OnTheWayIsFresh, Auth!InHand,
             Auth!Fresh, Auth!serverVars
    <2>6. Concerned'
      BY <1>2 DEF TokensIInv, Auth!TokensInv, Auth!ChecksMetadata, Concerned,
         Auth!serverVars
    <2> QED BY <2>2, <2>3, <2>4, <2>5, <2>6 DEF TokensIInv, Auth!TokensInv
  <1>3. CASE Auth!FetchesMetadata(c)
    <2>1. header' \in [Goroutines -> HeaderType]
      BY <1>3 DEF TokensIInv, Auth!TokensInv, Auth!TypeOK,
         Auth!FetchesMetadata, HeaderType,
             Auth!serverVars
    <2>2. Auth!TypeOK'
      BY <1>3, <2>1 DEF TokensIInv, Auth!TokensInv, Auth!TypeOK,
         Auth!FetchesMetadata, HeaderType,
             Auth!TokenKinds, Auth!serverVars
    <2>3. Auth!SpentHasSuccessor'
      BY <1>3 DEF TokensIInv, Auth!TokensInv, Auth!FetchesMetadata,
         Auth!SpentHasSuccessor,
             Auth!serverVars
    <2>4. Auth!MetadataBeforeState'
      BY <1>3 DEF Auth!FetchesMetadata, Auth!MetadataBeforeState,
         Auth!serverVars
    <2>5. Auth!OnTheWayIsFresh'
      BY <1>3 DEF TokensIInv, Auth!TokensInv, Auth!FetchesMetadata,
         Auth!OnTheWayIsFresh, Auth!InHand,
             Auth!Fresh, Auth!serverVars
    <2>6. Concerned'
      BY <1>3 DEF TokensIInv, Auth!TokensInv, Auth!FetchesMetadata, Concerned,
         Auth!serverVars
    <2> QED BY <2>2, <2>3, <2>4, <2>5, <2>6 DEF TokensIInv, Auth!TokensInv
  <1>4. CASE Auth!RefreshFails(c)
    <2>1. header' \in [Goroutines -> HeaderType]
      BY <1>4 DEF TokensIInv, Auth!TokensInv, Auth!TypeOK, Auth!RefreshFails,
         HeaderType, Auth!Idle, Auth!None,
             Auth!serverVars
    <2>2. Auth!TypeOK'
      BY <1>4, <2>1 DEF TokensIInv, Auth!TokensInv, Auth!TypeOK,
         Auth!RefreshFails, HeaderType,
             Auth!TokenKinds, Auth!serverVars
    <2>3. Auth!SpentHasSuccessor'
      BY <1>4 DEF TokensIInv, Auth!TokensInv, Auth!RefreshFails,
         Auth!SpentHasSuccessor, Auth!serverVars
    <2>4. Auth!MetadataBeforeState'
      BY <1>4 DEF TokensIInv, Auth!TokensInv, Auth!RefreshFails,
         Auth!MetadataBeforeState, Auth!serverVars
    <2>5. Auth!OnTheWayIsFresh'
      BY <1>4 DEF TokensIInv, Auth!TokensInv, Auth!TypeOK, Auth!RefreshFails,
         Auth!OnTheWayIsFresh,
             Auth!InHand, Auth!Fresh, Auth!Idle, Auth!None, Auth!serverVars
    <2>6. Concerned'
      BY <1>4 DEF TokensIInv, Auth!TokensInv, Auth!RefreshFails, Concerned,
         Auth!serverVars
    <2> QED BY <2>2, <2>3, <2>4, <2>5, <2>6 DEF TokensIInv, Auth!TokensInv
  <1>5. CASE Auth!Returns(c)
    <2>1. header' \in [Goroutines -> HeaderType]
      BY <1>5 DEF TokensIInv, Auth!TokensInv, Auth!TypeOK, Auth!Returns,
         HeaderType, Auth!Idle, Auth!None,
             Auth!serverVars
    <2>2. Auth!TypeOK'
      BY <1>5, <2>1 DEF TokensIInv, Auth!TokensInv, Auth!TypeOK, Auth!Returns,
         HeaderType,
             Auth!TokenKinds, Auth!serverVars
    <2>3. Auth!SpentHasSuccessor'
      BY <1>5 DEF TokensIInv, Auth!TokensInv, Auth!Returns,
         Auth!SpentHasSuccessor, Auth!serverVars
    <2>4. Auth!MetadataBeforeState'
      BY <1>5 DEF TokensIInv, Auth!TokensInv, Auth!Returns,
         Auth!MetadataBeforeState, Auth!serverVars
    <2>5. Auth!OnTheWayIsFresh'
      BY <1>5 DEF TokensIInv, Auth!TokensInv, Auth!TypeOK, Auth!Returns,
         Auth!OnTheWayIsFresh, Auth!InHand,
             Auth!Fresh, Auth!Idle, Auth!None, Auth!serverVars
    <2>6. Concerned'
      BY <1>5 DEF TokensIInv, Auth!TokensInv, Auth!Returns, Concerned,
         Auth!Idle, Auth!serverVars
    <2> QED BY <2>2, <2>3, <2>4, <2>5, <2>6 DEF TokensIInv, Auth!TokensInv
  <1> QED BY <1>1, <1>2, <1>3, <1>4, <1>5

\* The token issued is new to all, and whoever spends the stored one has it; what
\* is stored is fresh; what is lost is recorded.
LEMMA TokensRefreshStep ==
    ASSUME TokensIInv,
           NEW c \in Goroutines,
           Auth!RefreshAccepted(c) \/ Auth!RefreshSaved(c) \/ Auth!RefreshLost(c)
    PROVE  TokensIInv'
  <1> USE OAuthAssumption
  <1>1. CASE Auth!RefreshAccepted(c)
    <2>1. header' \in [Goroutines -> HeaderType]
      <3>1. header[c] \in HeaderType /\ issued + 1 \in 0 .. MaxTokens
        BY <1>1 DEF TokensIInv, Auth!TokensInv, Auth!TypeOK, HeaderType,
           Auth!RefreshAccepted, Auth!Issues
      <3>2. [header[c] EXCEPT !.at = "answer", !.new = issued + 1] \in HeaderType
        BY <3>1 DEF HeaderType
      <3>3. header' = [header EXCEPT ![c] =
                          [header[c] EXCEPT !.at = "answer", !.new = issued + 1]]
        BY <1>1 DEF Auth!RefreshAccepted
      <3> QED BY <3>2, <3>3 DEF TokensIInv, Auth!TokensInv, Auth!TypeOK,
      HeaderType
    <2>2. Auth!TypeOK'
      <3>1. issued' = issued + 1 /\ issued' \in 0 .. MaxTokens
        BY <1>1 DEF TokensIInv, Auth!TokensInv, Auth!TypeOK,
           Auth!RefreshAccepted, Auth!Issues
      <3>2. kind' \in [Auth!Tokens -> Auth!TokenKinds]
        BY <1>1 DEF TokensIInv, Auth!TokensInv, Auth!TypeOK,
           Auth!RefreshAccepted, Auth!Issues
      <3>3. header[c].old \in 1 .. issued
        BY <1>1 DEF TokensIInv, Auth!TokensInv, Auth!OnTheWayIsFresh,
           Concerned, Auth!None,
               Auth!RefreshAccepted
      <3>4. spent' \subseteq 1 .. issued' /\ lost' \subseteq spent'
        BY <1>1, <3>1, <3>3 DEF TokensIInv, Auth!TokensInv, Auth!TypeOK,
           Auth!RefreshAccepted
      <3>5. store' \in 0 .. issued' /\ expired' \subseteq 1 .. issued'
        BY <1>1, <3>1 DEF TokensIInv, Auth!TokensInv, Auth!TypeOK,
           Auth!RefreshAccepted
      <3>6. UNCHANGED <<metadata, expectedState, codes, exchange>>
        BY <1>1 DEF Auth!RefreshAccepted
      <3> QED BY <2>1, <3>1, <3>2, <3>4, <3>5, <3>6 DEF TokensIInv,
      Auth!TokensInv, Auth!TypeOK,
                     HeaderType
    <2>3. Auth!SpentHasSuccessor'
      BY <1>1 DEF TokensIInv, Auth!TokensInv, Auth!TypeOK,
         Auth!RefreshAccepted, Auth!SpentHasSuccessor,
             Auth!Issues
    <2>4. Auth!MetadataBeforeState'
      BY <1>1 DEF TokensIInv, Auth!TokensInv, Auth!RefreshAccepted,
         Auth!MetadataBeforeState, Auth!Issues
    <2>5. Auth!OnTheWayIsFresh'
      BY <1>1 DEF TokensIInv, Auth!TokensInv, Auth!TypeOK,
         Auth!RefreshAccepted, Auth!OnTheWayIsFresh,
             Auth!InHand, Auth!Fresh, Auth!Issues
    <2>6. Concerned'
      BY <1>1 DEF TokensIInv, Auth!TokensInv, Auth!TypeOK,
         Auth!RefreshAccepted, Concerned, Auth!Issues
    <2> QED BY <2>2, <2>3, <2>4, <2>5, <2>6 DEF TokensIInv, Auth!TokensInv
  <1>2. CASE Auth!RefreshSaved(c)
    <2>1. header' \in [Goroutines -> HeaderType]
      <3>1. [Auth!Idle EXCEPT !.at = "authorized"] \in HeaderType
        BY DEF Auth!Idle, HeaderType, Auth!None
      <3> QED BY <1>2, <3>1 DEF TokensIInv, Auth!TokensInv, Auth!TypeOK,
      Auth!RefreshSaved,
                     HeaderType
    <2>2. Auth!TypeOK'
      <3>1. store' = header[c].new /\ header[c].new \in 1 .. issued
        BY <1>2 DEF TokensIInv, Auth!OnTheWayIsFresh, Auth!InHand, Auth!Fresh,
           Auth!RefreshSaved
      <3>2. UNCHANGED <<issued, kind, expired, spent, lost, metadata,
                        expectedState, codes>>
        BY <1>2 DEF Auth!RefreshSaved, Auth!serverVars
      <3>3. exchange' \in [at : {"idle", "post", "answer"},
      flow : 0 .. MaxFlows,
                          new : 0 .. MaxTokens]
        BY <1>2 DEF TokensIInv, Auth!TokensInv, Auth!TypeOK, Auth!RefreshSaved
      <3>4. store' \in 0 .. issued'
        BY <3>1, <3>2 DEF TokensIInv, Auth!TokensInv
      <3> QED BY <2>1, <3>2, <3>3, <3>4 DEF TokensIInv, Auth!TokensInv,
      Auth!TypeOK, HeaderType
    <2>3. Auth!SpentHasSuccessor'
      BY <1>2 DEF TokensIInv, Auth!OnTheWayIsFresh, Auth!InHand, Auth!Fresh,
         Auth!RefreshSaved,
             Auth!SpentHasSuccessor, Auth!serverVars
    <2>4. Auth!MetadataBeforeState'
      BY <1>2 DEF TokensIInv, Auth!TokensInv, Auth!RefreshSaved,
         Auth!MetadataBeforeState, Auth!serverVars
    <2>5. Auth!OnTheWayIsFresh'
      BY <1>2 DEF TokensIInv, Auth!TokensInv, Auth!TypeOK, Auth!RefreshSaved,
         Auth!OnTheWayIsFresh,
             Auth!InHand, Auth!Fresh, Auth!Idle, Auth!None, Auth!serverVars
    <2>6. Concerned'
      BY <1>2 DEF TokensIInv, Auth!TokensInv, Auth!RefreshSaved, Concerned,
         Auth!serverVars
    <2> QED BY <2>2, <2>3, <2>4, <2>5, <2>6 DEF TokensIInv, Auth!TokensInv
  <1>3. CASE Auth!RefreshLost(c)
    <2>1. header' \in [Goroutines -> HeaderType]
      <3>1. [Auth!Idle EXCEPT !.at = "required"] \in HeaderType
        BY DEF Auth!Idle, HeaderType, Auth!None
      <3> QED BY <1>3, <3>1 DEF TokensIInv, Auth!TokensInv, Auth!TypeOK,
      Auth!RefreshLost, HeaderType
    <2>2. Auth!TypeOK'
      BY <1>3, <2>1 DEF TokensIInv, Auth!TokensInv, Auth!TypeOK,
         Auth!RefreshLost, HeaderType
    <2>3. Auth!SpentHasSuccessor'
      BY <1>3 DEF TokensIInv, Auth!TokensInv, Auth!RefreshLost,
         Auth!SpentHasSuccessor
    <2>4. Auth!MetadataBeforeState'
      BY <1>3 DEF TokensIInv, Auth!TokensInv, Auth!RefreshLost,
         Auth!MetadataBeforeState
    <2>5. Auth!OnTheWayIsFresh'
      BY <1>3 DEF TokensIInv, Auth!TokensInv, Auth!TypeOK, Auth!RefreshLost,
         Auth!OnTheWayIsFresh, Auth!InHand,
             Auth!Fresh, Auth!Idle, Auth!None, Auth!serverVars
    <2>6. Concerned'
      BY <1>3 DEF TokensIInv, Auth!TokensInv, Auth!RefreshLost, Concerned
    <2> QED BY <2>2, <2>3, <2>4, <2>5, <2>6 DEF TokensIInv, Auth!TokensInv
  <1> QED BY <1>1, <1>2, <1>3

\* The user on the way to a token, which is as new as that of a refresh.
LEMMA TokensFlowStep ==
    ASSUME TokensIInv,
           Auth!GetServerMetadata \/ Auth!GetAuthorizationURL
           \/ Auth!ProcessAuthorizationResponse \/ Auth!ExchangeAccepted
           \/ Auth!ExchangeFails \/ Auth!ExchangeSaved
    PROVE  TokensIInv'
  <1> USE OAuthAssumption
  <1>1. CASE Auth!GetServerMetadata
    <2>1. header' \in [Goroutines -> HeaderType]
      BY <1>1 DEF TokensIInv, Auth!TokensInv, Auth!TypeOK,
         Auth!GetServerMetadata, HeaderType,
             Auth!serverVars
    <2>2. Auth!TypeOK'
      BY <1>1, <2>1 DEF TokensIInv, Auth!TokensInv, Auth!TypeOK,
         Auth!GetServerMetadata, HeaderType,
             Auth!TokenKinds, Auth!serverVars
    <2>3. Auth!SpentHasSuccessor'
      BY <1>1 DEF TokensIInv, Auth!TokensInv, Auth!GetServerMetadata,
         Auth!SpentHasSuccessor,
             Auth!serverVars
    <2>4. Auth!MetadataBeforeState'
      BY <1>1 DEF Auth!GetServerMetadata, Auth!MetadataBeforeState,
         Auth!serverVars
    <2>5. Auth!OnTheWayIsFresh'
      BY <1>1 DEF TokensIInv, Auth!TokensInv, Auth!GetServerMetadata,
         Auth!OnTheWayIsFresh, Auth!InHand,
             Auth!Fresh, Auth!serverVars
    <2>6. Concerned'
      BY <1>1 DEF TokensIInv, Auth!TokensInv, Auth!GetServerMetadata,
         Concerned, Auth!serverVars
    <2> QED BY <2>2, <2>3, <2>4, <2>5, <2>6 DEF TokensIInv, Auth!TokensInv
  <1>2. CASE Auth!GetAuthorizationURL
    <2>1. header' \in [Goroutines -> HeaderType]
      BY <1>2 DEF TokensIInv, Auth!TokensInv, Auth!TypeOK,
         Auth!GetAuthorizationURL, HeaderType,
             Auth!serverVars
    <2>2. Auth!TypeOK'
      BY <1>2, <2>1 DEF TokensIInv, Auth!TokensInv, Auth!TypeOK,
         Auth!GetAuthorizationURL,
             HeaderType, Auth!TokenKinds, Auth!serverVars
    <2>3. Auth!SpentHasSuccessor'
      BY <1>2 DEF TokensIInv, Auth!TokensInv, Auth!GetAuthorizationURL,
         Auth!SpentHasSuccessor,
             Auth!serverVars
    <2>4. Auth!MetadataBeforeState'
      BY <1>2 DEF Auth!GetAuthorizationURL, Auth!MetadataBeforeState,
         Auth!serverVars
    <2>5. Auth!OnTheWayIsFresh'
      BY <1>2 DEF TokensIInv, Auth!TokensInv, Auth!GetAuthorizationURL,
         Auth!OnTheWayIsFresh, Auth!InHand,
             Auth!Fresh, Auth!serverVars
    <2>6. Concerned'
      BY <1>2 DEF TokensIInv, Auth!TokensInv, Auth!GetAuthorizationURL,
         Concerned, Auth!serverVars
    <2> QED BY <2>2, <2>3, <2>4, <2>5, <2>6 DEF TokensIInv, Auth!TokensInv
  <1>3. CASE Auth!ProcessAuthorizationResponse
    <2>1. header' \in [Goroutines -> HeaderType]
      BY <1>3 DEF TokensIInv, Auth!TokensInv, Auth!TypeOK,
         Auth!ProcessAuthorizationResponse,
             HeaderType, Auth!serverVars
    <2>2. Auth!TypeOK'
      <3>1. [Auth!NoExchange EXCEPT !.at = "post", !.flow = expectedState]
               \in [at : {"idle", "post", "answer"}, flow : 0 .. MaxFlows,
                   new : 0 .. MaxTokens]
        <4>1. Auth!NoExchange \in [at : {"idle", "post", "answer"},
                               flow : 0 .. MaxFlows, new : 0 .. MaxTokens]
          BY DEF Auth!NoExchange, Auth!None
        <4>2. expectedState \in 0 .. MaxFlows
          BY DEF TokensIInv, Auth!TokensInv, Auth!TypeOK
        <4> QED BY <4>1, <4>2
      <3> QED BY <1>3, <2>1, <3>1 DEF TokensIInv, Auth!TokensInv, Auth!TypeOK,
      HeaderType,
                     Auth!ProcessAuthorizationResponse, Auth!serverVars
    <2>3. Auth!SpentHasSuccessor'
      BY <1>3 DEF TokensIInv, Auth!TokensInv, Auth!ProcessAuthorizationResponse,
             Auth!SpentHasSuccessor, Auth!serverVars
    <2>4. Auth!MetadataBeforeState'
      BY <1>3 DEF TokensIInv, Auth!TokensInv, Auth!ProcessAuthorizationResponse,
             Auth!MetadataBeforeState, Auth!serverVars
    <2>5. Auth!OnTheWayIsFresh'
      BY <1>3 DEF TokensIInv, Auth!TokensInv, Auth!ProcessAuthorizationResponse,
             Auth!OnTheWayIsFresh, Auth!InHand, Auth!Fresh, Auth!serverVars
    <2>6. Concerned'
      BY <1>3 DEF TokensIInv, Auth!TokensInv,
         Auth!ProcessAuthorizationResponse, Concerned,
             Auth!serverVars
    <2> QED BY <2>2, <2>3, <2>4, <2>5, <2>6 DEF TokensIInv, Auth!TokensInv
  <1>4. CASE Auth!ExchangeAccepted
    <2>1. header' \in [Goroutines -> HeaderType]
      BY <1>4 DEF TokensIInv, Auth!TokensInv, Auth!TypeOK,
         Auth!ExchangeAccepted, HeaderType, Auth!Issues
    <2>2. Auth!TypeOK'
      <3>1. issued' = issued + 1 /\ issued' \in 0 .. MaxTokens
        BY <1>4 DEF TokensIInv, Auth!TokensInv, Auth!TypeOK,
           Auth!ExchangeAccepted, Auth!Issues
      <3>2. kind' \in [Auth!Tokens -> Auth!TokenKinds]
        BY <1>4 DEF TokensIInv, Auth!TokensInv, Auth!TypeOK,
           Auth!ExchangeAccepted, Auth!Issues
      <3>3. codes' \subseteq Auth!Flows
        BY <1>4 DEF TokensIInv, Auth!TokensInv, Auth!TypeOK, Concerned,
           Auth!None, Auth!ExchangeAccepted,
               Auth!Flows
      <3>4. exchange' \in [at : {"idle", "post", "answer"},
      flow : 0 .. MaxFlows,
                          new : 0 .. MaxTokens]
        BY <1>4, <3>1 DEF TokensIInv, Auth!TokensInv, Auth!TypeOK,
           Auth!ExchangeAccepted
      <3>5. store' \in 0 .. issued' /\ expired' \subseteq 1 .. issued'
              /\ spent' \subseteq 1 .. issued' /\ lost' \subseteq spent'
        BY <1>4, <3>1 DEF TokensIInv, Auth!TokensInv, Auth!TypeOK,
           Auth!ExchangeAccepted
      <3>6. UNCHANGED <<metadata, expectedState>>
        BY <1>4 DEF Auth!ExchangeAccepted
      <3> QED BY <2>1, <3>1, <3>2, <3>3, <3>4, <3>5, <3>6 DEF TokensIInv,
      Auth!TokensInv,
                     Auth!TypeOK, HeaderType
    <2>3. Auth!SpentHasSuccessor'
      BY <1>4 DEF TokensIInv, Auth!TokensInv, Auth!ExchangeAccepted,
         Auth!SpentHasSuccessor, Auth!Issues
    <2>4. Auth!MetadataBeforeState'
      BY <1>4 DEF TokensIInv, Auth!TokensInv, Auth!ExchangeAccepted,
         Auth!MetadataBeforeState, Auth!Issues
    <2>5. Auth!OnTheWayIsFresh'
      BY <1>4 DEF TokensIInv, Auth!TokensInv, Auth!TypeOK,
         Auth!ExchangeAccepted, Auth!OnTheWayIsFresh,
             Auth!InHand, Auth!Fresh, Auth!Issues
    <2>6. Concerned'
      BY <1>4 DEF TokensIInv, Auth!TokensInv, Auth!ExchangeAccepted, Concerned,
         Auth!Issues
    <2> QED BY <2>2, <2>3, <2>4, <2>5, <2>6 DEF TokensIInv, Auth!TokensInv
  <1>5. CASE Auth!ExchangeFails
    <2>1. header' \in [Goroutines -> HeaderType]
      BY <1>5 DEF TokensIInv, Auth!TokensInv, Auth!TypeOK, Auth!ExchangeFails,
         HeaderType, Auth!serverVars
    <2>2. Auth!TypeOK'
      BY <1>5, <2>1 DEF TokensIInv, Auth!TokensInv, Auth!TypeOK,
         Auth!ExchangeFails, HeaderType,
             Auth!TokenKinds, Auth!Flows, Auth!NoExchange, Auth!Idle,
             Auth!None, Auth!serverVars
    <2>3. Auth!SpentHasSuccessor'
      BY <1>5 DEF TokensIInv, Auth!TokensInv, Auth!ExchangeFails,
         Auth!SpentHasSuccessor, Auth!serverVars
    <2>4. Auth!MetadataBeforeState'
      BY <1>5 DEF TokensIInv, Auth!TokensInv, Auth!ExchangeFails,
         Auth!MetadataBeforeState,
             Auth!serverVars
    <2>5. Auth!OnTheWayIsFresh'
      BY <1>5 DEF TokensIInv, Auth!TokensInv, Auth!ExchangeFails,
         Auth!OnTheWayIsFresh, Auth!InHand,
             Auth!Fresh, Auth!serverVars, Auth!NoExchange
    <2>6. Concerned'
      BY <1>5 DEF TokensIInv, Auth!TokensInv, Auth!ExchangeFails, Concerned,
         Auth!NoExchange,
             Auth!serverVars
    <2> QED BY <2>2, <2>3, <2>4, <2>5, <2>6 DEF TokensIInv, Auth!TokensInv
  <1>6. CASE Auth!ExchangeSaved
    <2>1. header' \in [Goroutines -> HeaderType]
      BY <1>6 DEF TokensIInv, Auth!TokensInv, Auth!TypeOK, Auth!ExchangeSaved,
         HeaderType, Auth!serverVars
    <2>2. Auth!TypeOK'
      <3>1. store' = exchange.new /\ exchange.new \in 1 .. issued
        BY <1>6 DEF TokensIInv, Auth!OnTheWayIsFresh, Auth!InHand, Auth!Fresh,
           Auth!ExchangeSaved
      <3>2. UNCHANGED <<issued, kind, expired, spent, lost, metadata,
                        expectedState, codes>>
        BY <1>6 DEF Auth!ExchangeSaved, Auth!serverVars
      <3>3. exchange' \in [at : {"idle", "post", "answer"},
      flow : 0 .. MaxFlows,
                          new : 0 .. MaxTokens]
        BY <1>6 DEF Auth!ExchangeSaved, Auth!NoExchange, Auth!None
      <3>4. store' \in 0 .. issued'
        BY <3>1, <3>2 DEF TokensIInv, Auth!TokensInv
      <3> QED BY <2>1, <3>2, <3>3, <3>4 DEF TokensIInv, Auth!TokensInv,
      Auth!TypeOK, HeaderType
    <2>3. Auth!SpentHasSuccessor'
      BY <1>6 DEF TokensIInv, Auth!OnTheWayIsFresh, Auth!InHand, Auth!Fresh,
         Auth!ExchangeSaved,
             Auth!SpentHasSuccessor, Auth!serverVars
    <2>4. Auth!MetadataBeforeState'
      BY <1>6 DEF TokensIInv, Auth!TokensInv, Auth!ExchangeSaved,
         Auth!MetadataBeforeState,
             Auth!serverVars
    <2>5. Auth!OnTheWayIsFresh'
      BY <1>6 DEF TokensIInv, Auth!TokensInv, Auth!ExchangeSaved,
         Auth!OnTheWayIsFresh, Auth!InHand,
             Auth!Fresh, Auth!serverVars, Auth!NoExchange
    <2>6. Concerned'
      BY <1>6 DEF TokensIInv, Auth!TokensInv, Auth!ExchangeSaved, Concerned,
         Auth!NoExchange,
             Auth!serverVars
    <2> QED BY <2>2, <2>3, <2>4, <2>5, <2>6 DEF TokensIInv, Auth!TokensInv
  <1> QED BY <1>1, <1>2, <1>3, <1>4, <1>5, <1>6

\* Time passes.
LEMMA TokensExpiryStep ==
    ASSUME TokensIInv,
           NEW t \in Auth!Tokens,
           Auth!Expires(t)
    PROVE  TokensIInv'
  <1> USE OAuthAssumption
  <1>1. CASE Auth!Expires(t)
    <2>1. header' \in [Goroutines -> HeaderType]
      BY <1>1 DEF TokensIInv, Auth!TokensInv, Auth!TypeOK, Auth!Expires,
         HeaderType, Auth!serverVars
    <2>2. Auth!TypeOK'
      BY <1>1, <2>1 DEF TokensIInv, Auth!TokensInv, Auth!TypeOK, Auth!Expires,
         HeaderType,
             Auth!TokenKinds, Auth!serverVars
    <2>3. Auth!SpentHasSuccessor'
      BY <1>1 DEF TokensIInv, Auth!TokensInv, Auth!Expires,
         Auth!SpentHasSuccessor, Auth!serverVars
    <2>4. Auth!MetadataBeforeState'
      BY <1>1 DEF TokensIInv, Auth!TokensInv, Auth!Expires,
         Auth!MetadataBeforeState, Auth!serverVars
    <2>5. Auth!OnTheWayIsFresh'
      BY <1>1 DEF TokensIInv, Auth!TokensInv, Auth!Expires,
         Auth!OnTheWayIsFresh, Auth!InHand, Auth!Fresh,
             Auth!serverVars
    <2>6. Concerned'
      BY <1>1 DEF TokensIInv, Auth!TokensInv, Auth!Expires, Concerned,
         Auth!serverVars
    <2> QED BY <2>2, <2>3, <2>4, <2>5, <2>6 DEF TokensIInv, Auth!TokensInv
  <1> QED BY <1>1

\* Nothing changes.
LEMMA TokensStutter ==
    ASSUME TokensIInv, UNCHANGED Auth!authVars
    PROVE  TokensIInv'
  BY OAuthAssumption
     DEF TokensIInv, Auth!TokensInv, Auth!TypeOK, Auth!SpentHasSuccessor,
     Auth!MetadataBeforeState,
         Auth!OnTheWayIsFresh, Auth!InHand, Auth!Fresh, Concerned,
         Auth!authVars, Auth!serverVars

\* The invariant is inductive.
LEMMA TokensStep ==
    ASSUME TokensIInv, [Auth!Next]_(Auth!authVars)
    PROVE  TokensIInv'
  <1>1. CASE \E c \in Goroutines : Auth!GetToken(c) \/ Auth!Refresh(c) \/ Auth!Returns(c)
    <2>1. PICK c \in Goroutines : Auth!GetToken(c) \/ Auth!Refresh(c) \/ Auth!Returns(c)
      BY <1>1
    <2>2. CASE Auth!GetToken(c) \/ Auth!ChecksMetadata(c) \/ Auth!FetchesMetadata(c)
               \/ Auth!RefreshFails(c) \/ Auth!Returns(c)
      BY <2>2, TokensHeaderStep
    <2>3. CASE Auth!RefreshAccepted(c) \/ Auth!RefreshSaved(c) \/ Auth!RefreshLost(c)
      BY <2>3, TokensRefreshStep
    <2> QED BY <2>1, <2>2, <2>3 DEF Auth!Refresh
  <1>2. CASE Auth!Application
    BY <1>2, TokensFlowStep DEF Auth!Application
  <1>3. CASE \E t \in Auth!Tokens : Auth!Expires(t)
    BY <1>3, TokensExpiryStep
  <1>4. CASE UNCHANGED Auth!authVars
    BY <1>4, TokensStutter
  <1> QED BY <1>1, <1>2, <1>3, <1>4 DEF Auth!Next

LEMMA TokensInvariant ==
    Auth!Spec => []TokensIInv
  <1>1. Auth!Init => TokensIInv
    BY TokensInit
  <1>2. TokensIInv /\ [Auth!Next]_(Auth!authVars) => TokensIInv'
    BY TokensStep
  <1> QED BY <1>1, <1>2, PTL DEF Auth!Spec

(***************************************************************************)
(* Every step of the transport                                             *)
(***************************************************************************)
LEMMA CallsApart ==
    ASSUME CallsInv, UNCHANGED callVars
    PROVE  CallsInv'
  BY DEF CallsInv, callVars

LEMMA PostsApart ==
    ASSUME PostsInv, UNCHANGED postVars
    PROVE  PostsInv'
  BY DEF PostsInv, PostsTypeOK, InLine, Taken, SlotsAgree, postVars

LEMMA StreamApart ==
    ASSUME StreamInv, UNCHANGED <<ctxDone, streamVars, closer>>
    PROVE  StreamInv'
  BY DEF StreamInv, StreamTypeOK, StreamSound, streamVars

LEMMA TransportHolds ==
    ASSUME TransportInv, [Next]_vars
    PROVE  TransportInv'
  <1>0. CallsInv /\ PostsInv /\ StreamInv
    BY DEF TransportInv
  <1>1. ASSUME NEW c \in Calls, SendRequest(c) \/ Call(c)
        PROVE  TransportInv'
    <2>1. UNCHANGED <<ctxDone, postVars, streamVars, closer>>
      BY <1>1 DEF SendRequest, Call, CallAnswered, CallFails, CallCloses
    <2> QED BY <1>0, <1>1, <2>1, CallsStep, PostsApart, StreamApart
            DEF TransportInv
  <1>2. CASE SendNotification \/ Bridge
    <2>1. UNCHANGED <<ctxDone, callVars, streamVars, closer>>
      BY <1>2 DEF SendNotification, Bridge, BridgeTakes, BridgePosts, BridgeExits
    <2>2. PostsInv'
      BY <1>0, <1>2, SendNotificationStep, BridgeTakesStep, BridgePostsStep,
         BridgeExitsStep DEF Bridge
    <2> QED BY <1>0, <2>1, <2>2, CallsApart, StreamApart DEF TransportInv
  <1>3. ASSUME NEW n \in Notifications, PostArrives(n) \/ PostEnds(n)
        PROVE  TransportInv'
    <2>1. UNCHANGED <<ctxDone, callVars, streamVars, closer>>
      BY <1>3 DEF PostArrives, PostEnds
    <2>2. PostsInv'
      BY <1>0, <1>3, PostArrivesStep, PostEndsStep
    <2> QED BY <1>0, <2>1, <2>2, CallsApart, StreamApart DEF TransportInv
  <1>4. CASE Stream \/ StreamReads \/ \E c \in Channels : AppReceives(c)
    <2>1. UNCHANGED <<callVars, postVars>>
      BY <1>4 DEF Stream, StreamStarts, StreamChecks, StreamConnects,
         StreamRefused, StreamDelivers, StreamDropsEvent, StreamEnds,
         StreamRetries, StreamBacksOff, StreamReads, AppReceives
    <2>2. StreamInv'
      BY <1>0, <1>4, StreamStepHolds, StreamReadsStep, AppReceivesStep
    <2> QED BY <1>0, <2>1, <2>2, CallsApart, PostsApart DEF TransportInv
  <1>5. CASE CloseCancels \/ CloseReturns \/ ParentCancelled
    <2>1. UNCHANGED <<callVars, postVars>>
      BY <1>5 DEF CloseCancels, CloseReturns, ParentCancelled
    <2> QED BY <1>0, <1>5, <2>1, CallsApart, PostsApart, ClosingStep
            DEF TransportInv
  <1>6. CASE UNCHANGED vars
    BY <1>0, <1>6, CallsApart, PostsApart, StreamApart DEF TransportInv, vars
  <1> QED BY <1>1, <1>2, <1>3, <1>4, <1>5, <1>6 DEF Next

(***************************************************************************)
(* Both parts of a step                                                    *)
(***************************************************************************)
LEMMA StepsOfBothParts ==
    ASSUME [OAuthNext]_allVars
    PROVE  [Next]_vars /\ [Auth!Next]_(Auth!authVars)
  <1>0. UNCHANGED authVars <=> UNCHANGED Auth!authVars
    BY DEF authVars, Auth!authVars, Auth!serverVars
  <1>1. ASSUME NEW g, g \in Goroutines, Leaves(g)
        PROVE  [Auth!Next]_(Auth!authVars)
    BY <1>0, <1>1 DEF Leaves, Auth!Next
  <1>2. /\ \A n \in Notifications : PostOf(n) \in Goroutines
        /\ StreamOf \in Goroutines
    BY DEF Goroutines
  <1>3. ASSUME NEW c \in Calls, RequestStep(c)
        PROVE  [Next]_vars /\ [Auth!Next]_(Auth!authVars)
    BY <1>0, <1>3 DEF RequestStep, Next
  <1>4. ASSUME NEW n \in Notifications, NotificationArrives(n) \/ NotificationEnds(n)
        PROVE  [Next]_vars /\ [Auth!Next]_(Auth!authVars)
    BY <1>0, <1>1, <1>2, <1>4 DEF NotificationArrives, NotificationEnds, Next
  <1>5. CASE StreamStep
    BY <1>0, <1>1, <1>2, <1>5 DEF StreamStep, Next, Stream
  <1>6. CASE BridgeStep \/ OtherStep \/ CloseStep
    BY <1>0, <1>6 DEF BridgeStep, OtherStep, CloseStep, Next
  <1>7. ASSUME NEW g \in Goroutines, AsksForHeader(g) \/ RefreshStep(g)
        PROVE  [Next]_vars /\ [Auth!Next]_(Auth!authVars)
    BY <1>7 DEF AsksForHeader, RefreshStep, Auth!Next
  <1>8. CASE ApplicationStep
    BY <1>8 DEF ApplicationStep, Auth!Next
  <1>9. CASE UNCHANGED allVars
    BY <1>0, <1>9 DEF allVars
  <1> QED BY <1>3, <1>4, <1>5, <1>6, <1>7, <1>8, <1>9 DEF OAuthNext

(***************************************************************************)
(* Who asks for a header                                                   *)
(***************************************************************************)

\* Nobody stops sending while the headers stay what they are.
LEMMA AskersKeepOn ==
    ASSUME SendersAsk, UNCHANGED <<oauthEnabled, header>>,
           \A g \in Goroutines : Sends(g) => Sends(g)'
    PROVE  SendersAsk'
  BY DEF SendersAsk, Auth!Idle

\* One goroutine goes on, or returns, and has no more use of its header.
LEMMA AskerLeaves ==
    ASSUME SendersAsk, TokensIInv, UNCHANGED oauthEnabled,
           NEW g \in Goroutines, Leaves(g),
           \A h \in Goroutines \ {g} : Sends(h) => Sends(h)'
    PROVE  SendersAsk'
  <1>1. CASE oauthEnabled
    <2>1. header \in [Goroutines -> HeaderType]
      BY DEF TokensIInv, Auth!TokensInv, Auth!TypeOK, HeaderType
    <2>2. header' = [header EXCEPT ![g] = Auth!Idle]
      BY <1>1 DEF Leaves, Auth!Returns
    <2>3. \A h \in Goroutines : header'[h] = IF h = g THEN Auth!Idle ELSE header[h]
      BY <2>1, <2>2
    <2> QED BY <1>1, <2>3 DEF SendersAsk, Auth!Idle
  <1>2. CASE ~oauthEnabled
    <2>1. UNCHANGED header
      BY <1>2 DEF Leaves, authVars
    <2> QED BY <1>2, <2>1 DEF SendersAsk, Auth!Idle
  <1> QED BY <1>1, <1>2

\* A goroutine that asks, or refreshes what it has found, is one that sends.
LEMMA AskerAsks ==
    ASSUME SendersAsk, TokensIInv, UNCHANGED <<vars, oauthEnabled>>,
           NEW g \in Goroutines,
           \/ oauthEnabled /\ Sends(g) /\ Auth!GetToken(g)
           \/ Auth!Refresh(g)
    PROVE  SendersAsk'
  <1>1. header \in [Goroutines -> HeaderType]
    BY DEF TokensIInv, Auth!TokensInv, Auth!TypeOK, HeaderType
  <1>2. Auth!Refresh(g) => header[g].at # "idle"
    BY DEF Auth!Refresh, Auth!ChecksMetadata, Auth!FetchesMetadata,
       Auth!RefreshAccepted, Auth!RefreshFails, Auth!RefreshSaved,
       Auth!RefreshLost
  <1>3. Sends(g) /\ oauthEnabled
    BY <1>2 DEF SendersAsk, Auth!Idle
  <1>4. \A h \in Goroutines \ {g} : header'[h] = header[h]
    BY <1>1 DEF Auth!GetToken, Auth!Refresh, Auth!ChecksMetadata,
       Auth!FetchesMetadata, Auth!RefreshAccepted, Auth!RefreshFails,
       Auth!RefreshSaved, Auth!RefreshLost
  <1>5. \A h \in Goroutines : Sends(h) <=> Sends(h)'
    BY DEF Sends, vars, callVars, postVars, streamVars
  <1> QED BY <1>3, <1>4, <1>5 DEF SendersAsk, Auth!Idle

LEMMA SendersAskHolds ==
    ASSUME IInv, [OAuthNext]_allVars
    PROVE  SendersAsk'
  <1>0. SendersAsk /\ TokensIInv /\ CallsInv
    BY DEF IInv, TransportInv
  <1>1. ASSUME NEW c \in Calls, RequestStep(c)
        PROVE  SendersAsk'
    <2>1. UNCHANGED <<posting, stream, oauthEnabled, header>>
      BY <1>1 DEF RequestStep, SendRequest, Call, CallAnswered, CallFails,
         CallCloses, postVars, streamVars, authVars
    <2> QED BY <1>0, <2>1, AskersKeepOn DEF Sends
  <1>2. ASSUME NEW n \in Notifications, NotificationArrives(n)
        PROVE  SendersAsk'
    <2>1. UNCHANGED <<call, posting, stream, oauthEnabled, header>>
      BY <1>2 DEF NotificationArrives, PostArrives, callVars, streamVars, authVars
    <2> QED BY <1>0, <2>1, AskersKeepOn DEF Sends
  <1>3. ASSUME NEW n \in Notifications, NotificationEnds(n)
        PROVE  SendersAsk'
    <2>1. /\ UNCHANGED <<call, stream, oauthEnabled>>
          /\ posting' = posting \ {n} /\ Leaves(PostOf(n))
      BY <1>3 DEF NotificationEnds, PostEnds, callVars, streamVars
    <2>2. \A g \in Goroutines \ {PostOf(n)} : Sends(g) => Sends(g)'
      BY <2>1 DEF Sends
    <2> QED BY <1>0, <2>1, <2>2, AskerLeaves DEF Goroutines
  <1>4. CASE StreamStep
    <2>1. UNCHANGED <<call, posting, oauthEnabled>>
      BY <1>4 DEF StreamStep, Stream, StreamStarts, StreamChecks, StreamConnects,
         StreamRefused, StreamDelivers, StreamDropsEvent, StreamEnds,
         StreamRetries, StreamBacksOff, callVars, postVars
    <2>2. \A g \in Goroutines \ {StreamOf} : Sends(g) => Sends(g)'
      BY <2>1 DEF Sends
    <2>3. CASE stream = "connect"
      BY <1>0, <1>4, <2>1, <2>2, <2>3, AskerLeaves DEF StreamStep, Goroutines
    <2>4. CASE stream # "connect"
      <3>1. \A g \in Goroutines : Sends(g) => Sends(g)'
        BY <2>1, <2>4 DEF Sends
      <3> QED BY <1>0, <1>4, <2>1, <2>4, <3>1, AskersKeepOn
              DEF StreamStep, authVars
    <2> QED BY <2>3, <2>4
  <1>5. CASE BridgeStep \/ OtherStep \/ CloseStep
    <2>1. UNCHANGED <<call, oauthEnabled, header>> /\ posting \subseteq posting'
      BY <1>5 DEF BridgeStep, OtherStep, CloseStep, Bridge, BridgeTakes,
         BridgePosts, BridgeExits, SendNotification, StreamReads, AppReceives,
         CloseCancels, CloseReturns, ParentCancelled, callVars, postVars, authVars
    <2>2. stream = "connect" => stream' = "connect"
      BY <1>5 DEF BridgeStep, OtherStep, CloseStep, Bridge, BridgeTakes,
         BridgePosts, BridgeExits, SendNotification, StreamReads, AppReceives,
         CloseCancels, CloseReturns, ParentCancelled, streamVars
    <2> QED BY <1>0, <2>1, <2>2, AskersKeepOn DEF Sends
  <1>6. ASSUME NEW g \in Goroutines, AsksForHeader(g) \/ RefreshStep(g)
        PROVE  SendersAsk'
    BY <1>0, <1>6, AskerAsks DEF AsksForHeader, RefreshStep
  <1>7. CASE ApplicationStep
    <2>1. UNCHANGED <<call, posting, stream, oauthEnabled>>
      BY <1>7 DEF ApplicationStep, vars, callVars, postVars, streamVars
    <2>2. UNCHANGED header
      BY <1>7 DEF ApplicationStep, Auth!Application, Auth!GetServerMetadata,
         Auth!GetAuthorizationURL, Auth!ProcessAuthorizationResponse,
         Auth!ExchangeAccepted, Auth!ExchangeFails, Auth!ExchangeSaved,
         Auth!Expires
    <2> QED BY <1>0, <2>1, <2>2, AskersKeepOn DEF Sends
  <1>8. CASE UNCHANGED allVars
    <2>1. UNCHANGED <<call, posting, stream, oauthEnabled, header>>
      BY <1>8 DEF allVars, vars, callVars, postVars, streamVars, authVars
    <2> QED BY <1>0, <2>1, AskersKeepOn DEF Sends
  <1> QED BY <1>1, <1>2, <1>3, <1>4, <1>5, <1>6, <1>7, <1>8 DEF OAuthNext

(***************************************************************************)
(* The theorems                                                            *)
(***************************************************************************)
LEMMA InitHolds ==
    ASSUME OAuthInit
    PROVE  IInv
  <1>1. MaxNotifications \in Nat /\ MaxEvents \in Nat /\ MaxReconnects \in Nat
        /\ BufferSize \in Nat /\ Slots \in Nat /\ Slots >= 1
        /\ MaxNotifications > 0
    BY ConstantsAssumption, OAuthAssumption
  <1>2. TokensIInv
    BY TokensInit DEF OAuthInit
  <1>3. SendersAsk
    BY DEF OAuthInit, Auth!Init, SendersAsk
  <1>4. CallsInv
    BY DEF OAuthInit, CallsInv
  <1>5. PostsInv
    <2>1. /\ accepted \in Nat /\ accepted <= MaxNotifications
          /\ \/ posting = {}
             \/ posting = {MaxNotifications} /\ accepted = MaxNotifications
      BY <1>1 DEF OAuthInit, WithoutOAuth, FirstAuthorization, TwoRefreshers
    <2>2. /\ posting \subseteq Notifications
          /\ semaphore = Cardinality(posting)
          /\ semaphore = IF posting = {} THEN 0 ELSE 1
      <3>1. semaphore = Cardinality(posting)
        BY DEF OAuthInit
      <3>2. Cardinality({}) = 0 /\ Cardinality({MaxNotifications}) = 1
        BY FS_EmptySet, FS_Singleton
      <3>3. posting \subseteq Notifications
        BY <1>1, <2>1 DEF Notifications
      <3> QED BY <2>1, <3>1, <3>2, <3>3
    <2>3. arrived \in Seq(Notifications)
      BY <1>1, <2>1, <2>2 DEF OAuthInit, Notifications
    <2>4. PostsTypeOK
      <3>1. outgoing \in Seq(Notifications)
        BY DEF OAuthInit
      <3>2. bridge \in [at : {"idle", "acquire", "exited"},
                        holds : Notifications \cup {None}]
        BY DEF OAuthInit, Idle
      <3> QED BY <1>1, <2>1, <2>2, <2>3, <3>1, <3>2 DEF PostsTypeOK
    <2>5. InLine
      <3>1. outgoing = <<>> /\ Len(outgoing) = 0 /\ bridge = Idle
        BY DEF OAuthInit
      <3>2. Taken = accepted
        BY <2>1, <3>1 DEF Taken
      <3>3. \A n \in posting : n \in Nat /\ n <= Taken /\ n # None
        BY <1>1, <2>1, <3>2 DEF None
      <3> QED BY <2>1, <3>1, <3>2, <3>3 DEF InLine, Idle
    <2>6. SlotsAgree
      BY <1>1, <2>2 DEF SlotsAgree
    <2> QED BY <2>4, <2>5, <2>6 DEF PostsInv
  <1>6. StreamInv
    <2>1. delivered \in [Channels -> 0 .. BufferSize]
      BY <1>1 DEF OAuthInit
    <2>2. events \in 0 .. MaxEvents /\ reconnects \in 0 .. MaxReconnects
      BY <1>1 DEF OAuthInit
    <2>3. /\ ctxDone \in BOOLEAN /\ stream \in {"new", "exited"} /\ closer = "open"
          /\ refused = 0 /\ event = "none"
      BY DEF OAuthInit
    <2>4. StreamTypeOK
      BY <1>1, <2>1, <2>2, <2>3 DEF StreamTypeOK
    <2> QED BY <1>1, <2>2, <2>3, <2>4 DEF StreamInv, StreamSound
  <1> QED BY <1>2, <1>3, <1>4, <1>5, <1>6 DEF IInv, TransportInv

\* The invariant is inductive.
LEMMA Invariant == OAuthSpec => []IInv
  <1>1. OAuthInit => IInv
    BY InitHolds
  <1>2. IInv /\ [OAuthNext]_allVars => IInv'
    <2> SUFFICES ASSUME IInv, [OAuthNext]_allVars PROVE IInv'
      OBVIOUS
    <2>1. [Next]_vars /\ [Auth!Next]_(Auth!authVars)
      BY StepsOfBothParts
    <2>2. TransportInv' /\ TokensIInv'
      BY <2>1, TransportHolds, TokensStep DEF IInv
    <2> QED BY <2>2, SendersAskHolds DEF IInv
  <1> QED BY <1>1, <1>2, PTL DEF OAuthSpec

\* bridgeOutgoing (streamable_http.go:291-312): however many goroutines post and
\* however their exchanges end, a slot is taken for each and for nothing else;
\* and startSSEConnection (streamable_http.go:400-438), which joins the
\* WaitGroup by itself, never comes to a send on a channel Close has closed.
THEOREM SlotsAndChannelsSound == OAuthSpec => []Inv
  <1>1. IInv => Inv
    BY DEF IInv, TransportInv, CallsInv, PostsInv, PostsTypeOK, StreamInv,
       StreamTypeOK, StreamSound, Inv, TypeOK, NoSendOnClosedChannel
  <1> QED BY <1>1, Invariant, PTL

\* The store of an OAuthHandler (oauth.go:379) is never left with a token whose
\* refresh token has been used up while its successor is neither lost nor about
\* to be stored, however many goroutines refresh it at once.
THEOREM SpentTokenHasSuccessor ==
    Auth!Spec => []Auth!TokensInv
  <1>1. TokensIInv => Auth!TokensInv
    BY DEF TokensIInv
  <1> QED BY <1>1, TokensInvariant, PTL

\* A token between the server's answer and the store (oauth.go:362-379) is known
\* to nobody else: no two answers are stored for one token.
THEOREM TokensOnTheWayAreFresh ==
    Auth!Spec => []Auth!OnTheWayIsFresh
  <1>1. TokensIInv => Auth!OnTheWayIsFresh
    BY DEF TokensIInv
  <1> QED BY <1>1, TokensInvariant, PTL

\* The goroutines that post notifications and the one that dials the stream share
\* one OAuthHandler without leaving a spent token in its store (oauth.go:379), and
\* none of them holds a header it has asked for once it has gone on
\* (streamable_http.go:338-352 and 456-468).
THEOREM SendersHoldTokens == OAuthSpec => []TokensInv
  <1>1. IInv => TokensInv
    BY DEF IInv, TokensIInv, SendersAsk, TokensInv
  <1> QED BY <1>1, Invariant, PTL

\* What the transport does with its OAuthHandler is what any callers may do with
\* it (oauth.go), and posting a notification or dialling with a header is a way of
\* doing so (streamable_http.go:338-397 and 456-483), while requests go out
\* without: each step is one of both parts, or changes nothing there.
THEOREM TransportImplementsBothParts ==
    OAuthSpec => Auth!Spec /\ [][Next]_vars
  <1>1. OAuthInit => Auth!Init
    BY DEF OAuthInit
  <1>2. [OAuthNext]_allVars => [Next]_vars /\ [Auth!Next]_(Auth!authVars)
    BY StepsOfBothParts
  <1> QED BY <1>1, <1>2, PTL DEF OAuthSpec, Auth!Spec

================================================================================
