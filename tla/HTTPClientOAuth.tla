-------------------------- MODULE HTTPClientOAuth --------------------------
(***************************************************************************)
(* transport/streamable_http.go with transport/oauth.go: HTTPClient two    *)
(* kinds of whose goroutines ask the OAuthHandler for a header, one per    *)
(* notification being posted and the one of the event stream.  Without a   *)
(* header the notification is dropped and the attempt to dial has failed.  *)
(*                                                                         *)
(* The goroutine of a request never looks at the OAuthHandler: requests go *)
(* out as they do in HTTPClient, whether OAuth is enabled or not.          *)
(*                                                                         *)
(* EnableOAuth is called before anything is sent; a stream dialled before  *)
(* goes without a header, like every exchange where OAuth is not enabled.  *)
(***************************************************************************)
EXTENDS HTTPClient

CONSTANTS
    MaxTokens,    \* as in OAuthTokens
    MaxFlows

\* There is a notification to send beside the OAuthHandler.
ASSUME OAuthAssumption ==
    /\ MaxTokens \in Nat
    /\ MaxFlows \in Nat
    /\ MaxNotifications > 0

VARIABLES
    oauthEnabled,
    store, issued, kind, expired, spent, lost, metadata, expectedState, codes,
    header, exchange

PostOf(n) == <<"notification", n>>
StreamOf == <<"stream", 0>>

\* Those that send with sendHTTPRequest or dial with connectSSE.
Goroutines == {PostOf(n) : n \in Notifications} \cup {StreamOf}

Auth == INSTANCE OAuthTokens WITH Callers <- Goroutines

authVars == <<store, issued, kind, expired, spent, lost, metadata,
              expectedState, codes, header, exchange>>
allVars == <<vars, oauthEnabled, authVars>>

\* Goroutine g is about to send its notification, or to dial.
Sends(g) == \/ \E n \in Notifications : g = PostOf(n) /\ n \in posting
            \/ g = StreamOf /\ stream = "connect"

\* Its request goes out with a header, or without where none is needed.
MayGoOn(g) == oauthEnabled => header[g].at = "authorized"

\* It does so, or returns because there is no header.
MayEnd(g) == oauthEnabled => header[g].at \in {"authorized", "required"}

Leaves(g) == IF oauthEnabled THEN Auth!Returns(g) ELSE UNCHANGED authVars

(***************************************************************************)
(* SendRequest, which posts without a header                               *)
(***************************************************************************)
RequestStep(c) ==
    /\ SendRequest(c) \/ Call(c)
    /\ UNCHANGED <<oauthEnabled, authVars>>

(***************************************************************************)
(* sendHTTPRequest and connectSSE, with and without authorization          *)
(***************************************************************************)
NotificationArrives(n) ==
    /\ MayGoOn(PostOf(n))
    /\ PostArrives(n)
    /\ UNCHANGED <<oauthEnabled, authVars>>

NotificationEnds(n) ==
    /\ MayEnd(PostOf(n))
    /\ PostEnds(n)
    /\ Leaves(PostOf(n))
    /\ UNCHANGED oauthEnabled

StreamStep ==
    /\ IF stream = "connect"
       THEN /\ \/ MayGoOn(StreamOf) /\ StreamConnects
               \/ MayEnd(StreamOf) /\ StreamRefused
            /\ Leaves(StreamOf)
       ELSE Stream /\ UNCHANGED authVars
    /\ UNCHANGED oauthEnabled

\* Steps of the transport that do not involve the OAuthHandler.
OtherStep ==
    /\ \/ SendNotification
       \/ StreamReads
       \/ \E c \in Channels : AppReceives(c)
       \/ CloseCancels
       \/ ParentCancelled
    /\ UNCHANGED <<oauthEnabled, authVars>>

BridgeStep == Bridge /\ UNCHANGED <<oauthEnabled, authVars>>

CloseStep == CloseReturns /\ UNCHANGED <<oauthEnabled, authVars>>

(***************************************************************************)
(* The OAuthHandler                                                        *)
(***************************************************************************)
AsksForHeader(g) ==
    /\ oauthEnabled
    /\ Sends(g)
    /\ Auth!GetToken(g)
    /\ UNCHANGED <<vars, oauthEnabled>>

RefreshStep(g) == Auth!Refresh(g) /\ UNCHANGED <<vars, oauthEnabled>>

\* When a token expires that is not in the store nobody looks: one on its way there
\* may as well expire when it has been stored.
ApplicationStep ==
    /\ oauthEnabled
    /\ \/ Auth!Application
       \/ \E t \in Auth!Tokens \cap {store} : Auth!Expires(t)
    /\ UNCHANGED <<vars, oauthEnabled>>

(***************************************************************************)
(* The specification.  Loads: the transport on its own; with OAuth, the    *)
(* requests and a notification beside a user who authorizes for the first  *)
(* time; and a notification being posted beside a stream to be dialled,    *)
(* both of which may refresh a token while the user authorizes anew.  What *)
(* a load leaves out has come and gone before.                             *)
(***************************************************************************)
WithoutOAuth ==
    /\ ~oauthEnabled
    /\ store = None
    /\ accepted = 0
    /\ posting = {}
    /\ events = 0
    /\ reconnects = 0
    /\ call = [c \in Calls |-> "none"]

FirstAuthorization ==
    /\ oauthEnabled
    /\ store = None
    /\ accepted = MaxNotifications - 1
    /\ posting = {}
    /\ stream = "exited"
    /\ events = MaxEvents
    /\ reconnects = 0
    /\ call = [c \in Calls |-> "none"]

TwoRefreshers ==
    /\ oauthEnabled
    /\ store # None
    /\ accepted = MaxNotifications
    /\ posting = {MaxNotifications}
    /\ stream = "new"
    /\ events = MaxEvents
    /\ reconnects = MaxReconnects
    /\ call = [c \in Calls |-> "ended"]

OAuthInit ==
    /\ Auth!Init
    /\ metadata = FALSE
    /\ oauthEnabled \in BOOLEAN
    /\ stream \in {"new", "exited"}
    /\ accepted \in {0, MaxNotifications - 1, MaxNotifications}
    /\ posting \in {{}, {MaxNotifications}}
    /\ events \in {0, MaxEvents}
    /\ reconnects \in {0, MaxReconnects}
    /\ call \in {[c \in Calls |-> "none"], [c \in Calls |-> "ended"]}
    /\ WithoutOAuth \/ FirstAuthorization \/ TwoRefreshers
    /\ semaphore = Cardinality(posting)
    /\ arrived = [i \in 1 .. (accepted - semaphore) |-> i]
    /\ responses = [c \in Calls |-> IF call[c] = "none" THEN "open"
                                                       ELSE "answered"]
    /\ ctxDone = FALSE
    /\ outgoing = <<>>
    /\ bridge = Idle
    /\ refused = 0
    /\ event = "none"
    /\ delivered = [c \in Channels |-> 0]
    /\ closer = "open"

OAuthNext ==
    \/ \E c \in Calls : RequestStep(c)
    \/ \E n \in Notifications : NotificationArrives(n) \/ NotificationEnds(n)
    \/ StreamStep
    \/ BridgeStep
    \/ OtherStep
    \/ CloseStep
    \/ \E g \in Goroutines : AsksForHeader(g) \/ RefreshStep(g)
    \/ ApplicationStep

\* As in HTTPClient, and an exchange with the authorization server ends too.
OAuthFairness ==
    /\ \A c \in Calls : WF_allVars(call[c] # "none" /\ RequestStep(c))
    /\ WF_allVars(BridgeStep)
    /\ \A n \in Notifications : WF_allVars(NotificationEnds(n))
    /\ WF_allVars(StreamStep)
    /\ WF_allVars(CloseStep)
    /\ \A g \in Goroutines : WF_allVars(AsksForHeader(g) \/ RefreshStep(g))

OAuthSpec == OAuthInit /\ [][OAuthNext]_allVars

OAuthFairSpec == OAuthSpec /\ OAuthFairness

(***************************************************************************)
(* Properties                                                              *)
(***************************************************************************)

\* The tokens are what OAuthTokens says, with the goroutines of the transport as
\* its callers, and a header is only ever asked for by one that sends.
TokensInv ==
    /\ Auth!TokensInv
    /\ \A g \in Goroutines : header[g] # Auth!Idle => Sends(g)

=============================================================================
