# TLA+ models of the MCP Go SDK

This directory holds TLA+ specifications of the concurrent core of the SDK: the JSON-RPC message
handler that every transport shares and its variant with progress, the server that runs requests, the
registries of tools, resources, prompts and resource templates, every transport (stdio and child
processes, WebSocket, HTTP from both ends with OAuth, SSE, in-process), and the way a server announces
changes of what it offers. TLC checks each of them on small instances, safety and liveness; TLAPS proves the
safety properties of all of them but the URI templates, for every number of requests, goroutines, messages
and connections, every size of the buffers and every peer.

Contents

1. The system
2. Modules
3. How state and actions correspond to the code
4. What the runs check and show
5. Bounds
6. Fairness
7. What is proved
8. Disagreements between the code and what it says of itself
9. What is only model-checked, and what is not modelled
10. Plan

To repeat a check: `tlc -workers 2 -config Server.cfg Server.tla` (likewise for the others); to repeat a
proof: `tlapm ServerProofs.tla`, and likewise for `MessageHandlerProofs`, `RegistriesProofs`,
`ResourceRegistryProofs`, `StdioTransportProofs`, `WebSocketProofs`, `HTTPClientProofs` and
`HTTPServerProofs`.

## 1. The system

The SDK speaks the Model Context Protocol: JSON-RPC messages between a client and a server over a
transport. The parts, outside in:

```
 client.Client ── transport ──────────── wire ──────────── transport ── server.Server
                  │  └ internal.MessageHandler   MessageHandler ┘  │      │  handlers
                  └ stdio / SSE / WebSocket / HTTP / in-process ───┘      └ ToolRegistry, ResourceRegistry, ...
```

| Component | State it keeps | Operations | Talks to |
|---|---|---|---|
| MessageHandler (`internal/jsonrpc.go`) | request counter, `pendingRequests` under `requestsMu`, a timer and a one-place channel per request, five bounded channels, a context | SendRequest, SendNotification, SendResponse, the timer callback, processIncomingMessages, handleResponses, Close | the transport through its channels; callers through the response channels |
| Server (`server/server.go`) | request queue, worker pool (a channel of tokens), maps of handlers and descriptions under three locks, context, wait group | Start, processRequests, processNotifications, dispatchRequests, handleRequest, RegisterX / UnregisterX, list and call handlers, Close | receives from the transport, answers with its SendResponse |
| ToolRegistry (`server/registry.go`) | tools and entries under `mu`, statistics under `statsMu`, a token pool | Register, Unregister, Execute, updateExecutionStats, List, GetStats | tool handlers |
| ResourceRegistry (`server/registry.go`) | resources with a cache each under `mu`, subscribers' channels under `subscribersMu`, a token pool | Register, Unregister, Read, Subscribe, Unsubscribe, notifySubscribers | resource handlers, subscribers |
| PromptRegistry (`server/registry.go`) | prompts under one lock, usage counts | Register, Execute, List | prompt handlers |
| ResourceTemplateRegistry (`server/resource_template.go`) | templates under a read-write lock, each with one of its own, a change callback | RegisterTemplate, Update, Unregister, Enable, Disable, lists, FindTemplateForURI, CompleteParameter | callbacks run while a lock is held |
| StdioTransport (`transport/stdio.go`) | four channels, seven goroutines, context, wait group | readLoop (and the goroutine of its scanner), four bridges, writeLoop, SendX, Close | MessageHandler, reader and writer |
| StreamableHTTPServerTransport (`transport/streamable_http_server.go`) | `pendingHTTPRequests` with a timer per entry, SSE clients, channels | handleRPC, handleSSE, SendResponse, SendNotification, broadcast, Close | net/http, Server |
| WebSocketTransport (`transport/websocket.go`) | the connection under `connMu`, an atomic flag, a retry counter without a lock, three loops per connection | Connect, readLoop, writeLoop, pingLoop, handleDisconnection, Close | MessageHandler, the network |
| Streamable HTTP client (`transport/streamable_http.go`) | a semaphore of slots, an event stream with a retry counter, two channels to the application | SendRequest and SendNotification by POST, the event stream, Close | the network, OAuth |
| SSE client (`transport/sse.go`) | event stream, retry counter, channels | connect, read and POST loops, Close | MessageHandler, the network |
| InProcessTransport (`transport/inprocess.go`) | handlers, one MessageHandler | bridges, handleRequest, Close | client and server of one process |
| ProgressMessageHandler (`internal/progress_handler.go`) | a second map of requests, tokens, two timers per request | SendRequestWithProgress, handleProgressNotification, timeouts, Close | MessageHandler |
| ProcessTransport (`client/process.go`) | a child process, its pipes and its context, a StdioTransport, `mu` | Start, Wait, IsRunning, Close | the child |
| Client (`client/client.go`) | the server's name | typed calls: a request, then a select on response and context | a transport |
| OAuth (`transport/oauth.go`) | one stored token, metadata, the expected state | authorization header with refresh, authorization URL, code exchange | an authorization server, the HTTP and SSE clients |
| URI templates (`shared/uri_template.go`, `server/resource_template.go`) | none (parsed templates) | Expand, Match, in two implementations | resource templates |
| Types, validation, completion, compat | none or immutable | pure functions, builders | everything |

What is hard in it, and the property that makes each part correct:

- **MessageHandler.** Four parties may close the channel of a request: the callback of its timer,
  `correlateResponse`, `Close`, and nobody (the sender that fails only stops the timer). They
  synchronise through the map, but `Timer.Stop`, the send and the close all happen after the lock is
  released, and the result of `Timer.Stop` is never looked at. Correct means: a caller always gets an
  end, at most one response, its own, and no channel operation panics.
- **Server.** Back-pressure at a bounded queue, a pool of tokens taken by one goroutine and given back
  by another, a Close that waits for some goroutines and not for others. Correct means: one answer per
  request, order kept up to the start of the worker, tokens conserved, Close returns.
- **Registries.** Handlers run outside the locks, so that what was looked up may be gone when its result
  is stored; two locks in two orders; channels that are closed while events are being sent. Correct
  means: the two copies of the statistics agree, replaced entries are left alone, nobody sends on a
  closed channel, no event is withheld from a subscriber.
- **Transports.** A pipeline of goroutines, each with one message in its hands, all ended by one context.
  Correct means: order per kind, nothing lost while the transport is up, Close returns and no goroutine
  sends afterwards. For HTTP, each client gets the answer to its own request and every call ends.
- **Progress.** A second map of requests, whose timers are replaced while their callbacks may run, beside a
  MessageHandler that does not know of it. Correct means: one expiry per request, no response channel
  closed twice, callers get an end.
- **Connections that are lost.** Loops that outlive their connection, a goroutine that reconnects, a flag
  and a field changed apart, limits on retries. Correct means: one reader per connection, none leaked, a
  loss is repaired, nothing is sent to the application on closed channels, Close ends everything.
- **Processes.** The child, the library that awaits it, the context that kills it, Close that holds a lock
  for as long as it takes, and pipes that Wait closes. Correct means: what the child printed is read, no
  child outlives Close, nobody waits for ever.
- **Callbacks and handlers of the user.** Template callbacks run under the lock they may need again;
  in-process handlers run on the goroutine that would have to answer a call of theirs. Correct means:
  operations and Close return, whatever the callback does.
- **OAuth.** Several goroutines refresh the same token at once and store what they get. Correct means: the
  stored token is not one that the server has already replaced while its successor is nowhere.
- **URI templates.** Two engines, each with an inverse. Correct means: what was expanded is matched back
  to the same values.
- **Server catalog.** A change is announced after the lock is released, and lists are snapshots. Correct
  means: a client that lists again when it is told to is never left with an old list for good.

`PROJECT.json` lists the single hazards at their lines with the properties that cover each.

## 2. Modules

| Module | Models | Configurations |
|---|---|---|
| `HandlerBase` | what a MessageHandler and a ProgressMessageHandler have in common: context, ids, capacities | |
| `MessageHandler` (+ `MCMessageHandler`) | `internal/jsonrpc.go`; extends `HandlerBase` | `MessageHandlerTwo.cfg`, `LateResponse.cfg` |
| `HandlerTransport` | what transports around one MessageHandler share: wait group, Close; extends `MessageHandler` | |
| `InProcess` | `transport/inprocess.go`; extends `HandlerTransport` | |
| `SSEClient` | `transport/sse.go`; extends `HandlerTransport` | |
| `HandlerTransports` (+ `MCHandlerTransports`) | the handler alone, in-process or in the SSE client | `HandlerTransports.cfg` |
| `ProgressHandler` | `internal/progress_handler.go` and what it sees of the MessageHandler in it; extends `HandlerBase` | `ProgressHandler.cfg` |
| `Server` | request pipeline of `server/server.go` | `Server.cfg` |
| `ServerCatalog` | registration, list, call and list_changed in `server/server.go` | `ServerCatalog.cfg` |
| `ToolRegistry` | `server/registry.go`, tools | `ToolRegistryLocks.cfg` |
| `PromptRegistry` | `server/registry.go`, prompts | |
| `ResourceTemplates` | `server/resource_template.go`, the registry | |
| `UriTemplates` | `shared/uri_template.go` and the matching in `server/resource_template.go` | |
| `Registries` | one of the last four at a time; extends `ToolRegistry` | `Registries.cfg` |
| `ResourceRegistry` (+ `MCResourceRegistry`) | `server/registry.go`, resources | `ResourceRegistry.cfg` |
| `StdioTransport` | `transport/stdio.go` | |
| `ProcessTransport` (+ `MCStdioTransport`) | `client/process.go`; extends `StdioTransport` | `StdioTransport.cfg`, `StdioClient.cfg`, `StdioStalledPeer.cfg` |
| `OrderedStream` | what a one-way stream promises (abstract) | refined by `StdioTransport`, four times |
| `WebSocketTransport` | connections in `transport/websocket.go` | |
| `WebSocketMessages` | the same with its messages; extends `WebSocketTransport` | `WebSocketTransport.cfg` |
| `HTTPClient` | `transport/streamable_http.go` | `HTTPClientOrder.cfg` |
| `OAuthTokens` | `transport/oauth.go` | `OAuthTokens.cfg` |
| `HTTPClientOAuth` | the two together; extends `HTTPClient` | `HTTPClient.cfg` |
| `HTTPServer` (+ `MCHTTPServer`) | requests in `transport/streamable_http_server.go` | `HTTPServerSharedIds.cfg` |
| `HTTPServerEvents` (+ `MCHTTPServerEvents`) | the same with its event streams; extends `HTTPServer` | `HTTPServerEvents.cfg` |

The theorems are in modules of their own:

| Module | Theorems about |
|---|---|
| `MessageHandlerProofs` | `MessageHandler`, `HandlerTransports` (hence `InProcess`, `SSEClient`), `ProgressHandler` |
| `ServerProofs` | `Server`, `ServerCatalog` |
| `RegistriesProofs` | `Registries` (hence `ToolRegistry`, `PromptRegistry`, `ResourceTemplates`) |
| `ResourceRegistryProofs` | `ResourceRegistry` |
| `StdioTransportProofs` | `ProcessTransport` (hence `StdioTransport`), `OrderedStream` |
| `WebSocketProofs` | `WebSocketMessages`, `WebSocketTransport` |
| `HTTPClientProofs` | `HTTPClientOAuth` (hence `HTTPClient`), `OAuthTokens` |
| `HTTPServerProofs` | `HTTPServerEvents` (hence `HTTPServer`) |

An `MC` module only gives constants their values for TLC. A component that uses another represents it by
what it can see of it: `Server` has the transport's request and notification channels, its outgoing
channel and its context; `StdioTransport` has the MessageHandler's channels and its routing by kind;
`HTTPServer` has the server as a queue and one worker per request. Three components are composed with the
one they use as it is: `InProcess` and `SSEClient` with the whole `MessageHandler`, `ProcessTransport` with
the whole `StdioTransport`, `HTTPClientOAuth` with those goroutines of `HTTPClient` that post notifications or
dial the event stream as callers of `OAuthTokens`.

## 3. How state and actions correspond to the code

Granularity is the same everywhere: a critical section of one lock is one step, a channel operation is one
step, and code between them is split wherever another goroutine can get in between. A Go `select` is a
disjunct per case; when several are ready Go picks any, and so does TLC. A goroutine that holds a message
is a record or an entry of `hand` with that message, so that "dropped because the context is done" is a
step of its own. A panic ends the process: it is recorded and disables every action.

**MessageHandler.** `call[i]` follows one SendRequest and its caller's select; `pending` is the key set of
`pendingRequests`; `timer[i]` is the `time.AfterFunc` with its callback in three steps (started, removed
from the map under the lock, channel closed); `buf[i]` and `closed[i]` are the one-place response channel.
`corr` is `correlateResponse` in four steps: look up and delete under the lock, Timer.Stop, send with a
default case, close. `router` is `handleIncomingMessage`. `CloseCancels` and `CloseAllPending` are the two
halves of Close, which may be called again and again. Ids arrive as JSON numbers, that is float64, and
are truncated to int64: they are counted in halves so that 1.5 exists and matches request 1; ids that are
strings never match. The peer is free to duplicate, reorder and invent responses.

**Server.** `reader`, `disp`, `worker[r]` and `notifier` are processRequests, dispatchRequests,
handleRequest and processNotifications; `queue` is `requestChan`, as long as the worker pool is wide;
`tokens` is the length of `workerPool`. `SendResponse` blocks on the transport's outgoing channel unless
the transport's context is done. `closer` runs once: cancel, wait for the three loops (not for the
workers), close the transport. The transport's context and the server's derive from one parent.

**ToolRegistry.** `mu` and `statsMu` record who holds the lock for writing; Register and
updateExecutionStats are split where they take the second lock. A token is released by a deferred call.
**ResourceRegistry.** Every Register makes a new numbered entry, and content is known by the entry whose
handler made it; a read is look-up, cache check, token, handler, store in whatever entry is registered by
then, and accounting. `notifier` is the list of `go notifySubscribers(...)`, which may run in any order.

**StdioTransport.** Seven goroutines in `hand`, eight channels in `chan`; `From` and `To` say which
channels a goroutine connects. `accepted` and `got` are history variables: what came in and out per kind.

**PromptRegistry.** Like resources: entries are numbered, Execute counts the use on the entry it found.
**ResourceTemplates.** `locks[0]` is the registry's `sync.RWMutex`, `locks[e]` that of entry `e`, each with its
readers, its writer and those who wait to write, because a waiting writer keeps new readers out; `user[u]`
follows one operation and the locks it holds, callbacks included, which may begin another operation of the
registry. `announced` is whether a list callback is set, `told` whether a change waits to be announced.
**UriTemplates.** A template is what the parser made of it: literals and expressions. A text is a sequence
of symbols, of which an escape and a name are one each; a compiled regular expression is a definition of
which splits it allows and which one greediness picks. A behaviour is one job, from values to a URI and
back, or from a URI to values and back. `Registries` picks which of the four a behaviour is about.

**ProcessTransport.** `child` and `printed` are the environment, `pipesOpen` the parent's ends, `reaped` that
`cmd.ProcessState` is set, `stage` where Close is: it closes the transport, interrupts, waits five seconds at
most, kills. Scanning and reading of the pipe replace those of the StdioTransport when `spawned`. Close and
the application each call `cmd.Wait` of the one exec.Cmd, the application once: `wait[w]` has reached the call
(`called`), has seen no ProcessState (`reaping`), has the end of the child (`result`), has returned. `watcher` is
the goroutine that exec.CommandContext leaves behind and the one result it sends (`sent`: somebody has it);
there is none for a context that cannot be cancelled. All this is the library's (external): os/exec
as the code in `src/` uses it.

**InProcess, SSEClient.** `wg` is the number of goroutines the wait group counts, `closer` the caller of
Close. `bridge` parses what the MessageHandler sends and runs the handler itself, so that a handler that
sends a request over its own transport and waits for the answer waits for itself: only the timer of that
request ends it. `stream` is connectSSE and readEvents with an event in hand, `post` the loop that posts.

**OAuthTokens.** Tokens are numbered as they are issued. `spent` are those whose refresh token the server
has taken for a new one, `lost` those of them whose successor did not arrive. `header[c]` is
GetAuthorizationHeader in goroutine `c`, with the token it found and the one on the way to it; `exchange` is
ProcessAuthorizationResponse. **HTTPClientOAuth** lets `sendHTTPRequest` and `connectSSE` ask for a header, and
drops what gets none. SendRequest never asks: a request goes out without a header, with OAuth enabled or not.

**ServerCatalog.** `catalog[k]` is the pair of maps of one kind (they change together under its lock),
`updater[u]` the announcement that Register or Unregister makes after releasing it, and the client is one
that lists a kind again when it is told that it has changed.

**ProgressHandler.** `progress[i]` follows SendRequestWithProgress and its caller; `tracked` is the key set
of `progressRequests`, and of `progressTokens`, which changes with it. `clock[i]` holds the two timers,
`expiring[i]` counts callbacks that wait for the lock, `ending[i]` is the one that has taken the request
out and cancels, stops and closes in steps. `notifier` is handleProgressNotification between its look-up
and the new timer; who injects progress does so one notification after the other. Only
injected progress has an effect: over the wire a token arrives as float64 and the
map has int64. Responses never reach these requests (`progress_handler.go:386` leaves them to the base
handler, which does not know them).

**WebSocketTransport.** Connections are numbered; `conn` is the field, `open` those not closed yet,
`dialing` who holds `connMu` in Connect. `reader[g]`, `writer[g]` and `pinger[g]` are the loops started
with connection `g`, which look at the field again for each message, and `retry[g]` the goroutine of
handleDisconnection. `pongTimeout` is used nowhere in the code. **WebSocketMessages** adds `sender` (one SendX
behind its look at the flag), the `outgoing` channel, the message in the hands of a readLoop (`inHand`), the
MessageHandler as one channel (`incoming`), the copying goroutine and the application's channel, and
two ways for a connection to fail: `lost` (no reading) and `mute` (a write has failed; all others will).

**HTTPClient.** `call[c]` is the goroutine of a request, `bridge` is bridgeOutgoing with the notification it
holds, `semaphore` its channel of slots, `posting` the goroutines that use them. `stream` is
startSSEConnection with connectSSE and readSSEEvents. `arrived` and `refused` are history variables. The
constructor closes the MessageHandler's incoming channel, so that its router does nothing but receive nil
for ever (a busy loop) and the bridges behind it carry nothing.

**HTTPServer.** `call[c]` is handleRPC for one POST, `pending[i]` the entry of `pendingHTTPRequests` under
id `i`, `found[c]` the entry a worker looked up in SendResponse before it released the lock.
**HTTPServerEvents** adds `stream[s]` for handleSSE, `notice[n]` and `todo[n]` for a SendNotification and what
is left of its broadcast's snapshot, and `bridge` for bridgeOutgoing with its own. A notification is
broadcast twice, by its sender and by the bridge; a response that finds no pending call is broadcast to
every stream. `load` picks one of a few small workloads.

## 4. What the runs check and show

Runs that pass:

| Run | Question | Answer |
|---|---|---|
| `message_handler` | A request, its timer, any two messages of the peer, a one-way sender, Close at any time; the same inside the in-process transport, whose handler may call back, and inside the SSE client: does a caller ever wait on a channel nobody closes? Can anything but a timeout race make a channel operation panic? Does everything end? | `OpenChannelHasCloser`, `PanicNeedsTimeout`, `AnswerIsFinal`, `CloseReleasesWaiters` hold; every call and Close return, the goroutines end, and once Close has returned nothing of the transport runs (`TransportsInv`, with the types) |
| `server` | Four requests through a pool of two, full queues, a result that cannot be encoded, shutdown at any point | tokens conserved (`Inv`); each request answered exactly once, refused or cut off by Close, and none lost (`AnsweredExactlyOnce`); workers started in order; with a peer that reads, each is answered and Close returns |
| `tool_registry` | Two tools, two callers, two registrars; prompts registered anew while executed; three goroutines on templates whose callbacks may call the registry; URI templates expanded and matched | tokens conserved, the two execution counts agree whenever neither lock is held, somebody can always go on unless the locks are crossed (`Inv`); crossed locks are the only thing that keeps an execution from returning; every prompt use is counted on its entry, no template is lost or unannounced, and only a callback that needs a held lock leads to a deadlock (`OtherRegistriesInv`, `OperationsReturn`); outside the named templates, Match is the inverse of Expand (`TemplatesReversible`) |
| `resource_registry` | Two reads through one token while the resource is replaced, removed and expires; events to two subscribers | tokens conserved and no send on a closed channel (`Inv`); every event is offered to everyone subscribed; a replaced entry keeps its content |
| `stdio` | Lines of every kind, a line too long, messages out, failing writer, Close; and the same over a child process that prints, listens, exits, is interrupted or killed | each of the four ways refines `OrderedStream`; messages get through; Close returns; nobody sends afterwards (`Inv`); after Close no child is left, who waits in `cmd.Wait` is released unless the other of two overlapping calls has taken the result, what the child printed is read unless Wait closes the pipe (`ProcessInv`, `ProcessEnds`) |
| `server_catalog` | Two updaters, an announced and an unannounced kind, four changes, two calls | a client with an old list is going to be told, a call of something on its list fails only if it is (`CatalogInv`), and it catches up |
| `http_server` | Two calls with distinct ids; a call beside a stream and a notification; streams and notifications, one of which cannot be marshalled; timers, Close | each client gets its own answer, a waiting call always has something left to end it, Close never closes a Done twice, an answer is not broadcast as well (`EventsInv`); everybody gets out of the transport |
| `progress` | A request with progress, two notifications one after the other, both timers, Close | one expiry closes one channel once, and whoever waits has a timer that will end the wait unless Close or a timer that came too early has passed it by, and what Close has taken no timer closes (`ProgressInv`); other calls return |
| `websocket` | Two connections, one reconnection, losses and failing writes at any time, the application's own Connect, messages both ways, Close | no connection leaked, one reader per connection and never none, flag and field agree (`MessagesInv`); a loss is noticed and repaired and messages go on leaving (`TrafficResumes`); once the context is done every goroutine ends and no connection is left (`EverythingEnds`) |
| `http_client` | A call, two notifications through one slot, a stream that is lost and dialled again, an application that may not read, Close; with OAuth enabled, a call and a notification while a user authorizes for the first time, or a notification and the stream that both refresh while a user authorizes anew | no send on a closed channel and slots agree with exchanges (`Inv`); the stored token is spent only if its successor is on its way or was lost (`TokensInv`); accepted notifications are posted; Close returns and everything ends |

`Inv` of a module (`CatalogInv`, `ProgressInv`) is its type invariant and the invariants named with it in the module, as one.

Runs that find a disagreement are in section 8.

Every property has a mutant in `PROJECT.json`: a definition of the model changed the way a plausible bug
would change the code (a token kept on an error path, a channel left open, an entry stored under the wrong
key), for which TLC reports that property violated. The definitions are next to the ones they mutate,
marked "Mutated form".

## 5. Bounds

| Bound | Value | Why it is enough |
|---|---|---|
| requests in MessageHandler | 2 in-process (the second made by a handler), else 1 (2 in `MessageHandlerTwo.cfg`, run by hand: a few minutes) | requests share only the map, Close and the single correlator. With two, a response meant for the other is seen. The theorems of section 7 hold for any number. |
| loads of the message handler | four: any transport with a peer and no one-way sends; a silent peer with them; in-process; SSE | incoming and outgoing messages share only the context; callers' own contexts and sends that fail before they are stored are in the first two only |
| SSE: events, failures in a row, kinds for the application | 1, 1, 1 | one event in hand meets a full channel and Close; the second failure meets the limit |
| templates: goroutines, calls each, entries | 3, 1, 4, beginning with none or one | a holder, a waiting writer and a reader behind it; a second entry for a name that was removed. One to begin with and one by each call are four, so that no call is refused for the bound |
| prompts: goroutines, entries, uses | 2, 2, 2 | one to be counted on each entry |
| URI templates | one expression beside a literal, two with or without a slash between them; texts of one or two symbols; lists of two | every operator of either engine with every kind of neighbour that may take its symbols |
| channel capacities | 1 | every blocking case (full, empty) is reached at once; a larger buffer only delays it |
| messages of the peer | 2 | a duplicate needs two, and so does one message stuck behind another |
| server: requests, pool | 4, 2 | two run, one waits for a token, the next fills the queue: refusal needs the rest of the pipeline full |
| tool and resource registrations | 1 by each of two goroutines, 2 | one to have it, one to replace it |
| executions per caller | 2 | one that ends while the next begins |
| stdio workloads | five | the two directions share only the context and Close, so each is loaded in turn and both lightly; three lines fill the hands on the way, four sends fill the other side |
| child workloads | three: a line, a line too long, a message to write; started once | the child exits, is interrupted or killed at any point of each |
| resource workloads | two | reads and subscriptions share only the events, which are sent in any case |
| catalog: changes, names | 4, 1 | change, change back and overtake, by two updaters, for two kinds |
| HTTP server: calls, streams, notifications | 2 and 0 and 0; 1, 1, 1; 0, 1, 2; 0, 2, 1 | two calls are enough for one to touch the other's entry; a call, a stream and a notification meet in outgoingChan and in Close; two notifications, one of them bad, interfere on one stream |
| progress: requests, injected, incoming | 1, 2, 1 | requests share only the lock and Close; the second notification comes after the first has set a new timer, or after that has fired |
| WebSocket: connections, retries | 2, 1 | the loops of one connection beside those of the next; one retry reaches the limit |
| WebSocket loads | three: connections alone, with the application's own Connect; sending, ended by the parent's context; receiving, ended by Close | writing and reading share the connections only; failed attempts of the application change nothing and are left out |
| OAuth: tokens, authorizations | 3, 1 with the HTTP client (3, 2 in `OAuthTokens.cfg`) | one to be refreshed by two goroutines, its successor, and the user's |
| loads of the HTTP client | three: without OAuth; with it and an empty store, the calls and one notification; with it and a stored token, one notification being posted and the stream about to be dialled for the last time | the OAuthHandler is shared by notifications and stream alone, and both of its callers are there at once. Only the stored token expires: nobody looks at another, and one on its way may as well expire in the store |
| HTTP client: calls, notifications, slots, events, retries | 1, 2, 1, 2, 1 | the second notification waits for the slot; two events fill a one-place channel and the reader's hand |

Every bound is a constant of the module and appears in the guard of the action that would exceed it
(`MaxRequests`, `MaxIncoming`, `MaxChanges`, ...). The runs switch the deadlock check off because
the programs may stop: all calls have been made, or a panic has ended the process. That they do not stop
too early is what the liveness properties say.

## 6. Fairness

- The Go scheduler runs every goroutine that can run: weak fairness on each goroutine's own steps.
- An armed `time.AfterFunc` fires unless it is stopped: weak fairness on TimerFires.
- `ServerCatalog` assumes strong fairness of a blocked channel send: Go queues the senders of a channel,
  and wakes the first, so that a sender is not overtaken for ever.
- The peer: `Server` has a specification in which it keeps reading (`FairSpec`) and one in which it may stop
  (`StalledPeerSpec`); so has the process (`FairProcessSpec`, `StalledChildSpec`).
- The application: `ProcessTransport` has one that reads the channels of the transport (`FairProcessSpec`, as
  `server.Server` does) and one that never does (`ClientSpec`, which is what `client.Client` does).
- `ProcessTransport`: the five seconds of Close pass, a kill ends the child, and each call of the library's Wait
  takes the steps it can; that it returns is not assumed. Nothing is assumed of the child.
- `InProcess`, `SSEClient`: handlers return unless they wait for a call over their own transport; a POST ends,
  by `http.Client.Timeout` at the latest. Nothing is assumed of the SSE server or of who reads the channels.
- `Registries`: handlers and callbacks return, except that those which call the registry may wait for a lock.
- `WebSocketMessages`: a dial has a time limit (HandshakeTimeout), so Connect does not hold `connMu` for ever;
  a connection without pongs meets its read deadline; a loop whose select has both a tick or a message and
  the end of the context sees the end sooner or later (strong fairness). The application reads in
  `FairMessagesSpec` and need not in `UnreadSpec`.
- `HTTPClient`: every exchange ends, by `http.Client.Timeout` at the latest, which also covers the reading of
  an event stream. `HTTPServerEvents`: a write to a client returns, by the server's WriteTimeout at the latest.
- `ProgressHandler`: callbacks of the application return.
- Nothing is assumed of calls of Close, of cancellations, of callers' own contexts, of new requests, or of
  handlers where a property is to hold without them (`HTTPServer`: a handler need not return).

## 7. What is proved

Every invariant and every action property of the passing runs is a theorem for all values of the
constants, but `TemplatesReversible`; so are the refinements. None depends on the bounds of section 5.

| Theorem | States | Of |
|---|---|---|
| `NoCallerStranded`, `PanicsOnlyAfterTimeout`, `AtMostOneResponse`, `CloseReleases` | `OpenChannelHasCloser`, `PanicNeedsTimeout`, `AnswerIsFinal`, `CloseReleasesWaiters` | `MessageHandler` with any peer |
| `FailedSendCleansUp`, `TypeCorrect` | `FailedCallIsForgotten` (checked in `MessageHandlerTwo.cfg`), `TypeOK` | the same |
| `TransportsSound` | `TransportsInv` | the handler alone, in-process, in the SSE client |
| `HandlerSoundOverTransports` | the first four | the same |
| `ProgressTimersSound` | `ProgressInv` | `ProgressHandler` |
| `WorkersBounded`, `WorkersStartedInOrder`, `RequestsAnsweredOnce` | `Inv`, `StartedInOrder`, `AnsweredExactlyOnce` | `Server` |
| `ClientIsKeptUpToDate` | `CatalogInv` | `ServerCatalog` |
| `PoolAndStatsSound`, `CrossedLocksStayCrossed`, `PromptsAndTemplatesSound` | `Inv`, `[][LocksCrossed => LocksCrossed']`, `OtherRegistriesInv` | `Registries` |
| `PoolAndChannelsSound`, `EveryEventOffered`, `RemovedEntriesStayFrozen` | `Inv`, `EventsOffered`, `RemovedEntriesFrozen` (an action property) | `ResourceRegistry` |
| `ChannelsSafe`, `NoChildLeftBehind`, `LeftWaitingForEver` | `Inv`, `ProcessInv`, `[][\A w \in Waiters : LeftWaiting(w) => LeftWaiting(w)']` | `ProcessTransport` |
| `StreamsImplementOrderedStream` | `StreamsInOrder`: `OrderedStream`, four times | the same |
| `ConnectionsSound` | `Inv` of `WebSocketTransport` | `WebSocketTransport` |
| `MessagesImplementConnections` | `MessagesSpec => Spec` | `WebSocketMessages` |
| `MessagesSound` | `MessagesInv` | `WebSocketMessages` |
| `SlotsAndChannelsSound`, `SendersHoldTokens` | `Inv`, `TokensInv` | `HTTPClientOAuth` |
| `SpentTokenHasSuccessor`, `TokensOnTheWayAreFresh` | `TokensInv`, `OnTheWayIsFresh` of `OAuthTokens` | `OAuthTokens`, the posting goroutines and the stream of `HTTPClient` as callers |
| `TransportImplementsBothParts` | `OAuthSpec => Auth!Spec /\ [][Next]_vars` | `HTTPClientOAuth` |
| `CallsAndStreamsSound` | `EventsInv` | `HTTPServerEvents`, for distinct ids |

Hardly any of these is inductive. Each module of theorems has an inductive invariant (`IInv`, or one per
component) that implies what the runs check, a lemma per action or group of actions which says that the
step keeps it, and theorems that follow by logic alone. What had to be added, and why:

- **MessageHandler.** That Close does not close a channel twice depends on an entry being in the map only as
  long as nobody else has begun with it. `Owned(i)` says who has the right to close channel `i`: while its
  timer has not fired exactly one of the map and `correlateResponse` does, and a callback that has started
  does without asking. It also says that a response in the channel is the right one and the last, and that
  a request not yet made is untouched. Steps that are not about request `i` go through the lemma `Frame`.
  Where the invariant stops is shown by `LateResponse.cfg` (section 8).
- **Transports around it.** The wait group is the number of goroutines that have not ended (`BridgeCounted`,
  `SSEInv`). In-process, a handler that waits for a call over its own transport is not answered
  (`NestedCallUnanswered`): while it runs, no message with that id is anywhere on the way (`InFlight`). A step
  of a transport is a step of `MessageHandler` or leaves its variables alone, so that its theorems carry
  over.
- **ProgressHandler.** A request has a timer before it is in the map (`ProgressTimed`), only one callback takes
  it from there (`TakenOnce`), and Close and the map never have the same request (`ProgressStored`). With these
  `ForsakenIInv` is inductive: no callback has taken what Close has taken, or will.
- **Server.** The requests on their way, from the dispatcher over the queue and the reader to the transport's
  channel, are one increasing sequence (`InOrder`), and those that have a worker came before all of them
  (`StartedBefore`). A request that has left the way is not on it again, so that being refused and being
  answered by a worker exclude each other (`AnsweredApart`).
- **ServerCatalog.** A client that does one thing at a time has one answer on its way (`OneAnswer`). A list
  on its way is the current one or news of the change is due as well (`OldListIsDue`, and `MissIsDue` for
  calls), and the client can act upon the news only after the answer, because `toClient` is a queue.
- **Registries.** Tools: who may make the two counts of a tool differ is the registrar that holds `mu` and the
  caller that holds `statsMu` (`LocksHeld`, `Agreement`). With the fact that a tool once found stays in
  the registry (`KnownTools`) they also give the absence of deadlock, `OnlyCrossedLocksBlock`: a held `mu` is
  held by a registrar that waits for `statsMu`, hence for a caller that waits for `mu`, and with `mu` free
  some execution that holds a token goes on. Prompts: `PromptsInv` and that an execution knows its entry.
  Templates: each lock is what its goroutines, by the places they are at, hold of it and wait for
  (`LocksInv`); from this, `NoDeadlockWithoutCallbacks`: of goroutines that wait for each other in
  a circle, one is an operation that a callback has begun.
- **ResourceRegistry.** Readers and subscribers share nothing but the list of events and are proved apart.
  `EventsOffered` speaks of notifiers that have ended; while one is sending, a subscriber is on its list or
  has been offered the event (`OfferedSoFar`).
- **StdioTransport.** Going upstream from what has been delivered, hands and channels hold the messages that
  follow, up to the first goroutine that has exited: it may have dropped one, and nothing from behind it
  moves again (`Outbound`, `Inbound`). Three kinds of messages share the way to the router, so `Inbound` has
  a number of lines that have been routed, which cuts each stream in two. Every step of a
  goroutine is one of each stream or a stutter (`StreamsMove`). Over a process, the scanner's steps are replaced
  and everything else is a step of `StdioTransport`.
- **ProcessTransport.** A call passes the reaping only when the child has ended, and a result that is sent is in
  the hands of a call that has returned (`WaitsSound`). So of two calls at most one is left without a result,
  and it stays so, since no step makes `watcher` anything else than `sent` again.
- **WebSocket.** No loop keeps its connection. Until the context is done the connection in use and the
  readLoop that is alive belong together, because only that loop gives the connection up and by doing so it
  ends (`ReaderOwns`). With messages every step is one of the connections alone (`MessagesImplementConnections`).
- **HTTP client and OAuth.** The notifications in the channel are the last ones accepted, the bridge holds
  the one before, and what is posted is older (`InLine`); this makes slots agree with exchanges. A token on
  its way to the store is known to nobody else (`OnTheWayIsFresh`), or a spent one could be stored.
- **HTTP server.** Under distinct ids the entry under the id of a call is its own or none, and all a worker
  does concerns this call alone (`CallOK`). The hypothesis `DistinctIds` is what `README.md:351` takes for
  granted; what happens without it is the run `http_server_shared_ids`.

The assumptions are on constants only: `ConstantsAssumption` of each module (in the modules of the handlers
`BoundsAssumption`, `PeerAssumption` and `ProgressAssumption`, in `ServerCatalog` `CatalogAssumption`), and
`ChildAssumption`, `OAuthAssumption`, `RegistriesAssumption`, `EventsAssumption`, `SSEAssumption` and
`MessagesAssumption`. They say that bounds are natural numbers, that channels have a place and pools a token,
that there is a tool, that those who take tokens from a pool can be counted, that `MaxEvents` of the SSE
server is within `MaxIncoming`, and that workloads have the shape of workloads. TLC evaluates them in every
run. `ServerCatalog` and `ProgressHandler` name their initial states, steps and invariants after themselves,
so that the modules of theorems can extend them beside `Server` and `HandlerTransports`: the theorems speak
of the very definitions that the runs check.

## 8. Disagreements between the code and what it says of itself

Each is a run whose property TLC finds violated.

- `tool_registry_locks` (`ExecuteReturns`). `Register` takes `mu` then `statsMu`, `updateExecutionStats`
  takes `statsMu` then `mu` (`server/registry.go:349, 368, 428, 446`): both wait for ever. `README.md:27`
  promises thread-safe operations. `ExecuteReturnsOrLocksCross` shows that nothing else does this. Both sides
  of the dilemma are proved for any tools and goroutines: without crossed locks somebody can go
  on (`OnlyCrossedLocksBlock`), and locks once
  crossed stay crossed (`CrossedLocksStayCrossed`).
- `http_server_shared_ids` (`OwnAnswer`). `pendingHTTPRequests` is keyed by the client's own id, so that
  two clients which both number from 1 share an entry (`transport/streamable_http_server.go:254`), and one
  gets the other's answer. `README.md:351` promises matching by unique ids.

More deserves a look. Each of the following properties is stated in its module and violated; put it into the
configuration named, in place of the properties there, under the specification named if there is one (for
the configurations marked with a star it is in the file; TLC stops at the first violation, so
remove what has been seen to see the next).

| Configuration | Module | Property | What happens |
|---|---|---|---|
| `LateResponse.cfg` * | MCMessageHandler | `TimedOutChannelSkipped` | `correlateResponse` sends on the channel of a request whose timer callback has started but not yet taken the lock; the callback closes the channel first, the send panics. The comment at `jsonrpc.go:326` takes the default case for protection against this |
| the same | | `ChannelClosedOnce` | Close closes a channel (`jsonrpc.go:352`) whose timer callback, already started, closes it again (`:142`) |
| `HandlerTransports.cfg` | MCHandlerTransports | `OpenStreamResetsCount` | the count of failures is never reset (`sse.go:162`): a stream that was open for days does not give the next one its attempts back. `http.Client.Timeout` cuts every stream after a minute besides |
| `ProgressHandler.cfg` | ProgressHandler | `EveryProgressCallReturns` | Close takes requests out of the map and leaves their channels open, for good (`ForsakenStayOpen`, proved); and a timer that fires before its request is stored finds nothing (`progress_handler.go:139`–`156`, `:330`) |
| `Server.cfg`, `StalledPeerSpec` | Server | `CloseReturns` | with a peer that has stopped reading, the reader blocks in the refusal of a request (`server.go:330`), on a transport Close only closes after it has waited for the reader (`:662`, `:664`) |
| `Server.cfg` | Server | `NoHandlerAfterClose` | workers are not in the wait group (`server.go:371`) and run on after Close |
| `ResourceRegistry.cfg` | MCResourceRegistry | `ReadsCurrentHandler` | content of the old handler is stored in the entry of the new one (`registry.go:200`) and served from there |
| `Registries.cfg` | Registries | `CallbacksReturn` | a list callback runs under the lock of the entry or the registry (`resource_template.go:99`, `:187`, `:201`), a completion callback under the read lock: one that calls the registry waits for itself, or for a writer that waits for it |
| `Registries.cfg` | Registries | `EveryTemplateReversible` | `uri_template.go:22` promises RFC 6570, but fragments, lists in paths, a second query and several variables in one expression are not matched back, and escapes stay escaped; the registry's star takes `{/path*}` for part of the name, so that it is not a path of several segments |
| `StdioClient.cfg` * | MCStdioTransport | `ResponsesGetThrough` | `client.Client` never reads its transport's notification channel; once the buffers are full, the response behind the notifications never reaches its request (`jsonrpc.go:261`). `README.md:359` promises that independent operations prevent blocking |
| `StdioStalledPeer.cfg` * | MCStdioTransport | `CloseReturns` | Close waits (`stdio.go:343`) for a writeLoop that is in the middle of a write; over a process it does so before it signals the child (`process.go:289`), so that a child that has stopped reading is neither interrupted nor killed |
| `StdioTransport.cfg` | MCStdioTransport | `WaitAndCloseReturn` | Close, whose cleanup calls `cmd.Wait` (`process.go:313`) while the application's is under way (`:277`), and of two such calls only one receives the result of the goroutine that watches the context: Close stays in `<-done` (`:322`) with `mu` held, or Wait never returns, for good (`LeftWaitingForEver`, proved). The comment at `process.go:279` says "Close terminates the process and cleans up resources" |
| `StdioTransport.cfg` | MCStdioTransport | `OutputIsRead` | Wait closes the pipe when the child has ended (`process.go:277`), while its last lines have not been read |
| `WebSocketTransport.cfg` | WebSocketMessages | `OneWriter` | writeLoop and pingLoop write to one connection at once (`websocket.go:314`, `:352`), which the library forbids |
| `WebSocketTransport.cfg` | WebSocketMessages | `SuccessResetsLimit` | the count of retries is reset after Connect has returned (`websocket.go:383`), so that a connection lost at once meets the limit (`:367`) although every attempt succeeded |
| `WebSocketTransport.cfg`, `UnreadSpec` | WebSocketMessages | `LossIsRepaired` | with an application that does not read, readLoop waits with a message in hand (`websocket.go:275`) and never notices that its connection is lost |
| `HTTPClientOrder.cfg` * | HTTPClient | `NotificationsInOrder` | notifications are posted by goroutines of their own (`streamable_http.go:302`) and overtake each other |
| the same | | `LimitIsInARow` | the count is never reset, because connectSSE always returns an error (`streamable_http.go:415` says "Connection succeeded, reset reconnect count") |
| `OAuthTokens.cfg` * | OAuthTokens | `NoRefusalAfterRefresh` | two goroutines spend the same refresh token (`oauth.go:306`, `:379`); the slower one is refused and its message dropped although the other has just stored a new token |
| `HTTPServerSharedIds.cfg`, `FairSpec` | MCHTTPServer | `EveryCallEnds` | with a shared id, cleaning up one call stops the timer of the other (`streamable_http_server.go:531`), which then never ends |
| `HTTPServerSharedIds.cfg` | MCHTTPServer | `LateResponseDropped` | SendResponse sends after releasing the lock (`streamable_http_server.go:511`) on a channel the timer has closed |
| `HTTPServerEvents.cfg` | MCHTTPServerEvents | `WritesWhileServed` | a broadcast writes to a client of its snapshot whose handler has returned (`streamable_http_server.go:430`) |
| `HTTPServerEvents.cfg` | MCHTTPServerEvents | `ListedWhileServed` | a notification that json.Marshal rejects throws every stream out of sseClients (`streamable_http_server.go:431` says "Client disconnected, remove it") |

Noticed on the way, without a property: the verifier that GetAuthorizationURL makes for PKCE can be read by
nobody, and without PKCE no response is ever accepted, because the expected state is never set
(`README.md:54` promises full PKCE support); a refresh answered without a new refresh token loses the old
one; IsRunning stays true for a child that has exited until somebody calls Wait (`process.go:241`);
RegisterTemplate takes templates that do not parse; with OAuth enabled, requests are still posted without an
Authorization header, because SendRequest does not go through sendHTTPRequest (`streamable_http.go:233`,
`:344`), although `README.md:52` and `:54` list OAuth with the transport.

## 9. What is only model-checked, and what is not modelled

Only model-checked:

- Liveness under fairness: `EveryCallReturns`, `GoroutinesExit`, `TransportCloseReturns`,
  `EveryRequestAnswered`, `CloseReturns` (of the server and of stdio), `ExecuteReturnsOrLocksCross`,
  `OperationsReturn`, `MessagesGetThrough`, `ProcessEnds`, `ClientCatchesUp`, `ProgressCallReturns`,
  `TrafficResumes`, `EverythingEnds`, `NotificationsPosted`, `ShutdownCompletes` and `EverybodyLeaves`. Weak and
  strong fairness are defined with ENABLED, about which the prover cannot reason. What an invariant can say of
  it is proved where it was worth saying: `OnlyCrossedLocksBlock` spells out the guards of the tool registry.
- `TemplatesReversible`. What an engine makes of a template is computed along its parts, so that the theorem
  would be an induction over sequences; the induction theorems of the library take an operator as a
  parameter, which no backend can instantiate. No module uses RECURSIVE operators.

Left out of the modules that exist: heartbeats and the framing of event streams, `/health`, POSTs with a
notification, a second Start of a process, a second Wait of the
application, its command line, environment and stderr, OAuth metadata beyond
its presence, the random strings, counters and statistics no decision reads (MessageStats, averages,
durations), logging, the contents of messages, headers and size limits of HTTP, handlers that panic (they
end the process), JSON array ids (unhashable as map keys), and setters that only run before Start.

Not modelled: the parser of URI templates with its limits, completion, validation and types (sequential
string processing, well covered by the unit tests), the decoding of results in the client, the compatibility
layer (it delegates), examples, benchmarks and interoperability tests (programs that use the SDK).

## 10. Plan

Done: every component with state of its own, and the compositions of section 2. What is left:

1. A composition end to end: client, two transports and server, as a refinement of "each request is
   answered at most once, by its own answer", with `MessageHandler` and `Server` as they are. It needs an
   instance small enough for TLC, one request and channels of one place, and would share the run of
   `Server`.
2. Theorems. Every safety property of the passing runs but `TemplatesReversible` is proved. What the
   composition of item 1 would need beside them is that the transports implement the channels which
   `Server` sees of them; for stdio that is most of `StreamsImplementOrderedStream`. The longest proofs, those
   of the templates and of the streams, can be made shorter by more lemmas about a lock and about a
   channel.

Small components share a run with the one they talk to or resemble, by loads as in `HandlerTransports`,
`Registries` and `MCStdioTransport`, rather than have one each.
