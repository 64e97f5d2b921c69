---------------------------- MODULE OAuthTokens ----------------------------
(***************************************************************************)
(* transport/oauth.go: the tokens of an OAuthHandler.  The goroutines that *)
(* talk to the server ask for an authorization header; who finds the       *)
(* stored token expired exchanges its refresh token for a new token and    *)
(* stores that, and nothing keeps two of them from doing so at once.  The  *)
(* application stores a token by completing an authorization in a browser. *)
(*                                                                         *)
(* The authorization server may honour a refresh token once or for ever,   *)
(* leave the refresh token or even the access token out of an answer, and  *)
(* refuse.  An exchange may fail before or after the server has seen it:   *)
(* Timeout of the http.Client bounds it.  A token is a number, given when  *)
(* it is issued; time passes by tokens expiring, if they ever do.          *)
(*                                                                         *)
(* PKCEEnabled is TRUE: otherwise expectedState is never set, so that      *)
(* ProcessAuthorizationResponse always fails.  The verifier it sends is    *)
(* the caller's, not the one whose challenge was sent, which nothing       *)
(* reads: only a server that does not compare them accepts the code.  The  *)
(* application processes one response at a time.                           *)
(***************************************************************************)
EXTENDS Naturals

CONSTANTS
    Callers,      \* goroutines that call GetAuthorizationHeader
    MaxTokens,    \* bound on the tokens the server issues
    MaxFlows      \* bound on the calls of GetAuthorizationURL

Tokens == 1 .. MaxTokens
Flows == 1 .. MaxFlows
None == 0

\* With a refresh token, without one, without even an access token.
TokenKinds == {"refreshable", "plain", "empty"}

VARIABLES
    store,          \* the token in the TokenStore
    issued,         \* how many tokens the server has issued
    kind,           \* kind[t]: what token t consists of
    expired,        \* tokens whose ExpiresAt has passed
    spent,          \* tokens whose refresh token the server honours no more
    lost,           \* spent tokens whose successor never reached its caller
    metadata,       \* serverMetadata has been loaded
    expectedState,  \* the state of the last GetAuthorizationURL
    codes,          \* the flows whose authorization code the server has seen
    header,         \* header[c]: GetAuthorizationHeader in goroutine c
    exchange        \* ProcessAuthorizationResponse

serverVars == <<issued, kind, spent, lost, codes>>
authVars == <<store, expired, metadata, expectedState, serverVars, header,
              exchange>>

Idle == [at |-> "idle", old |-> None, new |-> None]
NoExchange == [at |-> "idle", flow |-> None, new |-> None]

(***************************************************************************)
(* GetAuthorizationHeader, with refreshToken and GetServerMetadata         *)
(***************************************************************************)

\* GetToken and IsExpired: the stored token will do, or can be refreshed, or the
\* user has to authorize.
GetToken(c) ==
    /\ header[c].at = "idle"
    /\ header' = [header EXCEPT ![c] =
           IF store = None \/ kind[store] = "empty"
           THEN [Idle EXCEPT !.at = "required"]
           ELSE IF store \notin expired
           THEN [Idle EXCEPT !.at = "authorized"]
           ELSE IF kind[store] = "refreshable"
           THEN [Idle EXCEPT !.at = "metadata", !.old = store]
           ELSE [Idle EXCEPT !.at = "required"]]
    /\ UNCHANGED <<store, expired, metadata, expectedState, serverVars,
                   exchange>>

\* The check of the cache under the read lock.
ChecksMetadata(c) ==
    /\ header[c].at = "metadata"
    /\ header' = [header EXCEPT ![c].at = IF metadata THEN "post" ELSE "fetch"]
    /\ UNCHANGED <<store, expired, metadata, expectedState, serverVars,
                   exchange>>

FetchesMetadata(c) ==
    /\ header[c].at = "fetch"
    /\ metadata' = TRUE
    /\ header' = [header EXCEPT ![c].at = "post"]
    /\ UNCHANGED <<store, expired, expectedState, serverVars, exchange>>

\* The server issues the next token, and may spend the refresh token for it.
Issues(k) ==
    /\ issued < MaxTokens
    /\ issued' = issued + 1
    /\ kind' = [kind EXCEPT ![issued + 1] = k]

RefreshAccepted(c) ==
    /\ header[c].at = "post"
    /\ header[c].old \notin spent
    /\ \E k \in TokenKinds : Issues(k)
    /\ spent' \in {spent, spent \cup {header[c].old}}
    /\ header' = [header EXCEPT ![c].at = "answer", ![c].new = issued + 1]
    /\ UNCHANGED <<store, expired, metadata, expectedState, lost, codes,
                   exchange>>

\* Nothing is reached, or the server refuses, above all what it has honoured
\* before: every error is OAuthAuthorizationRequiredError.
RefreshFails(c) ==
    /\ header[c].at \in {"fetch", "post"}
    /\ header' = [header EXCEPT ![c] = [Idle EXCEPT !.at = "required"]]
    /\ UNCHANGED <<store, expired, metadata, expectedState, serverVars,
                   exchange>>

\* Mutated form: the new token is used and not stored.
RefreshKept(c) ==
    /\ header[c].at = "answer"
    /\ header' = [header EXCEPT ![c] = [Idle EXCEPT !.at = "authorized"]]
    /\ UNCHANGED <<store, expired, metadata, expectedState, serverVars,
                   exchange>>

\* The answer is decoded and the token stored, whatever is stored by now.
RefreshSaved(c) ==
    /\ header[c].at = "answer"
    /\ store' = header[c].new
    /\ header' = [header EXCEPT ![c] = [Idle EXCEPT !.at = "authorized"]]
    /\ UNCHANGED <<expired, metadata, expectedState, serverVars, exchange>>

\* The answer does not arrive, cannot be decoded, or the store refuses it.
RefreshLost(c) ==
    /\ header[c].at = "answer"
    /\ header' = [header EXCEPT ![c] = [Idle EXCEPT !.at = "required"]]
    /\ lost' = lost \cup ({header[c].old} \cap spent)
    /\ UNCHANGED <<store, expired, metadata, expectedState, issued, kind,
                   spent, codes, exchange>>

\* The caller has its header, or the error.
Returns(c) ==
    /\ header[c].at \in {"authorized", "required"}
    /\ header' = [header EXCEPT ![c] = Idle]
    /\ UNCHANGED <<store, expired, metadata, expectedState, serverVars,
                   exchange>>

(***************************************************************************)
(* GetAuthorizationURL, ProcessAuthorizationResponse, exchangeCodeForToken *)
(***************************************************************************)

\* GetServerMetadata for the application, which GetAuthorizationURL calls first.
GetServerMetadata ==
    /\ ~metadata
    /\ metadata' = TRUE
    /\ UNCHANGED <<store, expired, expectedState, serverVars, header, exchange>>

\* The states of two authorizations differ; the verifier and the state are
\* replaced under the lock.
GetAuthorizationURL ==
    /\ metadata
    /\ expectedState < MaxFlows
    /\ expectedState' = expectedState + 1
    /\ UNCHANGED <<store, expired, metadata, serverVars, header, exchange>>

\* The response carries the expected state, which stays what it is: the same
\* response may be processed again.
ProcessAuthorizationResponse ==
    /\ exchange.at = "idle"
    /\ expectedState # None
    /\ exchange' = [NoExchange EXCEPT !.at = "post", !.flow = expectedState]
    /\ UNCHANGED <<store, expired, metadata, expectedState, serverVars, header>>

ExchangeAccepted ==
    /\ exchange.at = "post"
    /\ exchange.flow \notin codes
    /\ codes' = codes \cup {exchange.flow}
    /\ \E k \in TokenKinds : Issues(k)
    /\ exchange' = [exchange EXCEPT !.at = "answer", !.new = issued + 1]
    /\ UNCHANGED <<store, expired, metadata, expectedState, spent, lost, header>>

\* Refused, or failed on the way there or back.
ExchangeFails ==
    /\ exchange.at \in {"post", "answer"}
    /\ exchange' = NoExchange
    /\ UNCHANGED <<store, expired, metadata, expectedState, serverVars, header>>

ExchangeSaved ==
    /\ exchange.at = "answer"
    /\ store' = exchange.new
    /\ exchange' = NoExchange
    /\ UNCHANGED <<expired, metadata, expectedState, serverVars, header>>

Expires(t) ==
    /\ t \in 1 .. issued
    /\ t \notin expired
    /\ expired' = expired \cup {t}
    /\ UNCHANGED <<store, metadata, expectedState, serverVars, header, exchange>>

(***************************************************************************)
(* The specification                                                       *)
(***************************************************************************)

\* Nothing stored, or a token that was stored earlier; the flows the user may
\* still go through, or none.
Init ==
    /\ store \in {None, 1} \cap (0 .. MaxTokens)
    /\ issued = store
    /\ kind = [t \in Tokens |-> "refreshable"]
    /\ expired = {}
    /\ spent = {}
    /\ lost = {}
    /\ \/ metadata = FALSE /\ expectedState = None
       \/ metadata = TRUE /\ expectedState = MaxFlows
    /\ codes = 1 .. expectedState
    /\ header = [c \in Callers |-> Idle]
    /\ exchange = NoExchange

\* What remains to be done of a call of GetAuthorizationHeader.
Refresh(c) == \/ ChecksMetadata(c)
              \/ FetchesMetadata(c)
              \/ RefreshAccepted(c)
              \/ RefreshFails(c)
              \/ RefreshSaved(c)
              \/ RefreshLost(c)

Application == \/ GetServerMetadata
               \/ GetAuthorizationURL
               \/ ProcessAuthorizationResponse
               \/ ExchangeAccepted
               \/ ExchangeFails
               \/ ExchangeSaved

Next == \/ \E c \in Callers : GetToken(c) \/ Refresh(c) \/ Returns(c)
        \/ Application
        \/ \E t \in Tokens : Expires(t)

Spec == Init /\ [][Next]_authVars

(***************************************************************************)
(* Properties                                                              *)
(***************************************************************************)

\* Type invariant of the handler, its store and the authorization server.
TypeOK ==
    /\ store \in 0 .. issued
    /\ issued \in 0 .. MaxTokens
    /\ kind \in [Tokens -> TokenKinds]
    /\ expired \subseteq 1 .. issued
    /\ spent \subseteq 1 .. issued
    /\ lost \subseteq spent
    /\ metadata \in BOOLEAN
    /\ expectedState \in 0 .. MaxFlows
    /\ codes \subseteq Flows
    /\ header \in [Callers -> [at : {"idle", "metadata", "fetch", "post",
                                     "answer", "authorized", "required"},
                               old : 0 .. MaxTokens, new : 0 .. MaxTokens]]
    /\ exchange \in [at : {"idle", "post", "answer"}, flow : 0 .. MaxFlows,
                     new : 0 .. MaxTokens]

\* However the refreshes of several goroutines and a new authorization cross,
\* the store is not left with a token whose refresh token has been used up: who
\* used it is about to store its successor, or has lost the answer.  Otherwise
\* every later refresh would be refused and the session be over.
SpentHasSuccessor ==
    store \in spent =>
        \/ store \in lost
        \/ \E c \in Callers : header[c].at = "answer" /\ header[c].old = store

\* exchangeCodeForToken reads serverMetadata without the lock and gives up if it
\* is nil: it never is, once a response can be processed.
MetadataBeforeState == expectedState # None => metadata

TokensInv == TypeOK /\ SpentHasSuccessor /\ MetadataBeforeState

\* What a token that has been issued and not yet stored is: not one that anybody
\* else holds, has stored or has used.
InHand(c) == header[c].at = "answer"

Fresh(t) ==
    /\ t \in 1 .. issued
    /\ t # store
    /\ t \notin spent
    /\ \A c \in Callers : header[c].old # t

\* The inductive invariant behind SpentHasSuccessor: tokens on their way to the
\* store are fresh and differ from each other.
OnTheWayIsFresh ==
    /\ \A c \in Callers : InHand(c) => Fresh(header[c].new)
    /\ exchange.at = "answer" => Fresh(exchange.new)
    /\ \A c, d \in Callers : InHand(c) /\ InHand(d) /\ c # d
                                => header[c].new # header[d].new
    /\ \A c \in Callers : InHand(c) /\ exchange.at = "answer"
                              => header[c].new # exchange.new
    /\ \A c \in Callers : header[c].old \in 0 .. issued

\* A caller whose refresh is refused has not been overtaken by another one that
\* has just refreshed the same token.
NoRefusalAfterRefresh ==
    [][\A c \in Callers :
          RefreshFails(c) /\ header[c].at = "post" => header[c].old \notin spent
      ]_authVars

=============================================================================
