# qwe1 in TLA+

qwe1 is an agent written in Go that runs on a server and lets a phone watch and
manage it (`src/agent`), and the Flutter app that talks to it (`src/app`). The
agent pairs devices with an enrollment token, hands out access and refresh
tokens, answers HTTP requests, pushes messages over a WebSocket, runs shells,
and passes calls on to Docker and the file system.

These modules model the parts of both programs whose correctness depends on the
order in which things happen. Each definition is translated from the source;
`PROJECT.json` names the lines it stands for. All paths below are relative to
`src/`.

    tlc -config AuthRaces.cfg MCAuthStore      model-check one run
    tlapm AuthStoreProof.tla                   check the proofs

## 1. The system

| component | state | operations | calls, shares, is called by |
|---|---|---|---|
| auth store, signer (`agent/internal/auth`) | `fileState` in memory under a mutex, the state file, the signer's secret | NewStore, Reload, Persist, AddEnrollment, MarkEnrollmentUsed, AddDevice, AddRefresh, RotateRefreshAtomic, RevokeDevice, IsDeviceRevoked | handlers run concurrently over one store; `qwe1-agent --enroll` is another process over the same file |
| WebSocket hub (`server/ws.go`) | map of clients, their send channels, broadcast channel | register, unregister, Broadcast, read pump, write pump, shutdown | the metrics goroutine broadcasts; clients ping and subscribe |
| terminal (`terminal/terminal.go`) | registry of sessions, a PTY, channel, pump and discarders for each | Create, Kill, KillAll, Sweep, Input, Resize, Attach, Detach | handlers; the shells |
| rate limiter (`ratelimit`) | one bucket per key | Take, Cleanup | middleware, on every request |
| attempt tracker, audit log | failures per key, ring buffer | Fail, Reset, Locked; Add, Recent | nobody in the agent |
| alerts (`alerts`) | rules, buffer, breach times, containers that are down | EvaluateHost, ContainerDown, ContainerUp, Ack, List | the metrics goroutine, handlers |
| docker (`docker`) | client, stop of each stream | list, inspect, start, stop, logs, annotateStats | handlers; `retryDocker` replaces the manager |
| files (`files`) | allowed roots; the file system | Resolve, List, Read, Write, Delete, Rename, Copy | handlers |
| host (`host`) | latest sample, last network counters | Run, Sample, Latest | metrics goroutine, handlers |
| certificates (`certs`) | two files | EnsureCerts | start of the agent |
| server (`server`) | the parts above | New, Run, routes, middleware | main |
| app: token refresh (`server_repository_impl.dart`, `api_client.dart`) | refresh lock, secure storage, server rows | _refreshAccessToken, addServer, deleteServer | every request that gets a 401, the WebSocket client |
| app: WebSocket client | socket, timers, attempts | connect, disconnect, reconnect, heartbeat | providers |
| app: providers | lists of servers, containers, alerts, files | load, refresh, add, update, delete | the user interface |

### What is hard in it

The longer list, each entry at its line, is `hazards` in `PROJECT.json`.

* **Three copies of one state.** The server's memory, the state file and the
  image the enroll command loaded are all written back as a whole. Reload reads
  the file before it takes the mutex and assigns it after; handlers touch the
  store in several lock sections and persist at the end; any of it may crash or
  fail in between.
* **One temporary file, two processes.** Both write `path.tmp` and rename it.
* **One-time tokens over a lossy network.** The agent revokes a device that
  presents a used refresh token. The app has to save every rotated token, and
  may refresh once at a time only.
* **Channels closed by one goroutine and used by another.** The hub closes the
  channels the read pumps send pongs into.
* **Blocking on full channels.** Shell output, client messages.
* **Check, unlock, act.** The session limit; removing and killing sessions; an
  alert that is raised after the lock was given up; what a request charges, looks
  up and then uses.
* **Names instead of handles.** The file handlers check a path and use it again
  by name, system call by system call, with no lock, while other requests write,
  move, copy and delete.
* **Fields nobody guards.** The collector's last sample and counters, written by
  its own goroutine and by whoever asks before the first sample is there.

### What makes each component correct

* *Auth store:* a refresh token buys one successor; no image has two live tokens
  of a device; a device is revoked as a whole and for good; what was answered is
  in the file; access tokens survive a restart; printed enrollment tokens work.
* *State file:* at any time it holds one whole image.
* *Hub:* the map and the channels agree; a peer gets what it is owed, once and
  in order, until it is dropped; the drain loop never waits; gone connections
  are reaped; nothing touches a closed channel.
* *Terminal:* no more sessions than allowed; every removed session is killed and
  every killed pump ends; output goes to the client or the discarder, never to
  both.
* *Token refresh:* the app never gets its own device revoked while nothing was
  lost; what it stores is what the agent expects; every caller gets an answer.
* *Rate limiter and middlewares:* in any window, at most burst + rate x window;
  no handler runs for a request that came after its device was revoked.
* *Docker:* a list is handed on only when no worker can still write to it; log
  lines do not depend on how the daemon cuts the stream; an answer says what
  happened.
* *Host collector:* rates are differences of counters read in order.
* *Alerts:* one alert per breach; an alert for a container is acknowledged once
  the container is back; the newest alerts are kept.
* *Files:* a write is seen whole or not at all; copy and delete leave the rest
  of the tree alone.
* *App socket, server list:* no socket after disconnect; no lost update.

## 2. The modules

| module | models | composes or refines |
|---|---|---|
| `AuthStore` | the store, the handlers for enroll, refresh and revoke, the enroll command, crash and start of the server | implements `SessionLedger` |
| `SessionLedger` | what the store promises: a durable ledger of refresh tokens | |
| `AuthStoreProof` | theorems about `AuthStore` | |
| `StoreFile` | how Persist replaces the state file, step by step, for several threads of several processes | implements `AtomicFile` |
| `AtomicFile` | replacing and loading a file in one step each | |
| `StoreFileProof` | theorems about `StoreFile` | |
| `TokenProtocol` | the app's refresh of one server, its storage, the network, and the agent's answer | |
| `WSHub` | hub goroutine, read and write pumps | |
| `Terminal` | manager, sessions, pumps, discarders | |
| `TokenProtocolProof` | theorems about `TokenProtocol` | |
| `StreamsProof` | theorems about `WSHub` and `Terminal` | |
| `RateLimit` | the token buckets and their clock | |
| `Gate` | requests on their way through the middlewares to a handler | composes requests with `RateLimit`, and implements it |
| `GateProof` | theorems about `Gate` and `RateLimit` | |
| `DockerStats` | annotateStats: workers, semaphore, reports | |
| `DockerLogs` | StreamLogs and lineWriter: frames into lines | |
| `Docker` | the connection, its retries, the requests | composes `DockerStats` and `DockerLogs` |
| `DockerProof` | theorems about `Docker` and its two parts | |
| `HostMetrics` | what a sample is, for the next three | |
| `HostCollector` | Run, Sample and Latest of the collector | |
| `Alerts` | the alerts engine | |
| `Monitor` | the server's goroutines around both, `/alerts` | composes `HostCollector` and `Alerts` |
| `MonitorProof` | theorems about the engine and the collector | |
| `Files` | the file handlers, one system call after the other | |
| `FilesProof` | theorems about `Files` | |
| `MC*` | symmetry and constants for TLC | |

### AuthStore

`mem` is `Store.fs`, `disk` the state file, `signer` the secret the server signs
with, `req[r]` a handler in progress with its local variables, `cli[c]` an
enroll command. A handler is a sequence of steps, cut where the code releases
the mutex or leaves it for the file: `handleEnroll` reads the file
(`EnrollRead`), assigns it (`EnrollAssign`), looks the token up, adds the
device, marks the token, adds the refresh token and persists; `handleRefresh`
rotates, and on a refusal looks the token up and revokes; `handleRevoke` passes
the middleware and revokes. `Persist` is one step here: `StoreFile` shows when
that is so. A finished handler keeps its record, which is how the properties
speak of answers given. Tokens, devices and secrets come from small sets and are
used once (`minted`). Time is one bit per token (`expired`).

Left out: LastSeen, names and addresses, the time at which records were made,
access tokens except for the device and the secret they were signed with, and
the methods of Store that nothing in the agent calls.

### StoreFile

An inode holds one image, nothing, or a mixture; `path` and `tmp` are the two
names. `persistLocked` is Lock, Open (truncating), Write, Rename, each of which
may fail; a reader has the inode it opened. A process is killed at any step.
`Init` has a file: before the first Persist there is none, and NewStore then
starts empty, which `AuthStore` has (`FirstBoot`). A power failure, after which
the file system itself may have lost the order of write and rename (the code
never calls fsync), is not modelled.

### TokenProtocol

One server of the app. `_refreshAccessToken` is cut at its awaits: take the
lock, read the stored token, look the server up, post, save the access token,
save the refresh token. The agent's side is one step per request (`Serve`),
which is what `AuthStore` shows of it. Requests and answers may be lost, time
out or come late; the app may be killed; `deleteServer` and `addServer` run
beside without the lock. `lost` is a history variable: an answer was given up,
or the app died holding one, or the agent could not save a rotation.

### WSHub

The hub's select is `Register`, `Unregister`, `HubSend` and `Stop`; `Broadcast`
is what the metrics goroutine calls. `Accept` to `ReadFails` are the goroutine
of the handler and then the read pump; `WriterTake`, `WriterDrain`,
`WriterFlush` and `WriterEnds` the write pump with its open frame. `owed` and
`got` record what the peer should have and has received; `panicked` is a send on
or a close of a closed channel.

### Terminal

Create is CreateCheck, Spawn, Insert, as the lock is taken twice. Kill, KillAll
and Sweep are Unlist and KillRemoved. `Swept` and `Streamed` say whether anyone
calls Sweep and KillAll, and which sessions anything attaches to: the agent itself does
neither, its tests do both. The module's specification is `TermSpec`, so that
`StreamsProof` can extend it beside the hub. Chunks are counted; a session's idle time is one bit.

### RateLimit and Gate

Time runs in ticks, and a bucket's level is the number of ticks it has been
refilled for, so that one token costs `Cost[k]` of them: a rate of ten a second
is a cost of one with ticks of 100 ms. Rounding of the floating-point level is left out. `Grant` and
`Refuse` are `Take(1)`; `Filled` is the refill it begins with. `start` and
`granted` are a window of observation that may be opened at any moment, for the
properties only.

A request of `Gate` goes through `ipRateLimit`, then, on protected routes,
`ChargeToken`, `Validate`, `CheckDevice` and `Handle`; `/ws` is not charged. Each
takes one lock once, which is why each is one step. Logging, CORS and the
recovery from panics change no state; read-only mode is never switched on.

### DockerStats, DockerLogs and Docker

`DockerStats` has the caller that fills the semaphore and starts the workers
(`StartWorker`), then takes as many reports as it started workers; a worker gives
its place back and then reports, on a channel with no buffer, so that `Collect`
is a step of both sides. `DockerLogs` keeps the buffer of each stream and one
sequence of lines; a frame is any short string with line feeds and carriage
returns anywhere. A container with a terminal sends no frames: if the inspect
that tells so fails, the parser meets raw text and gives up (`OpenLogs`,
`EndLogs`). `Docker` adds the client made by `New`, the six attempts of
`retryDocker`, and a request at a time of each kind: requests share nothing but
the client.

### HostMetrics, HostCollector, Alerts and Monitor

A value is over its threshold, under it, or, for mounts and sensors, absent. Of
the network counters the model keeps the sum over the interfaces, which falls
when an interface goes away; of a rate, whether the unsigned difference wrapped.
`Sample` is Gather, Compare, Store: the collector has no lock, and until Run has
published a sample Latest takes one too.

`breachAt` is the age of a breach rather than its time, up to the age the rule
asks for: a check compares nothing else. EvaluateHost takes the lock for each
metric anew (`Check`), in the order of the code (`Order`). ContainerDown is two
steps, as it unlocks before it emits. `observed` is what an observer of the
values alone would say of each breach. `Monitor` has the goroutines of `Run` in
server.go: the evaluation runs on a ticker of its own and takes whatever Latest
returns. The agent gives the engine no rules and nothing in it reports docker
events or updates rules: `RuleSets` and `Reporter` say what a caller may do, as
the engine's tests do.

### Files

`tree` has an inode or `Dir` at each path, `data` the chunks of each inode. A
request is the sequence of system calls its handler makes: Write is check,
create the temporary file, fill, rename, remove the temporary name; Read is
stat, open, chunks; Delete opens the directory and empties it entry by entry,
wherever others move it; Copy works off a list, writes into the target in place
and finds by ReadDir whatever is there at the time. `stays` keeps, of a search,
the paths that were there all along. The request's temporary file has the
request's name. A chunk goes to the writer's own offset, so that what another
copy truncated comes back with a hole. A create fails when no inode is left. A
killed agent leaves the tree as it is.

Left out: symbolic links, which Resolve follows before anything else; owners and
permissions; sizes, and the limit on uploads except that an upload may break off
anywhere; a power failure.

## 3. The runs

All properties of a run that is expected to pass hold in every reachable state of
its instance. Each was also checked to fail for a plausible mistake in the model
(`mutants` in `PROJECT.json`).

| run | instance | shows |
|---|---|---|
| AuthRaces | 4 devices, 4 tokens, 4 requests, an enroll command, 2 secrets, 1 crash, failing I/O | TypeOK, OneLivePerDevice, RevokedAsAWhole, TokensSurviveRestart under every race |
| AuthAlone | the same from the first boot; pairing overlaps no other request | AnsweredIsDurable, SingleUse, RevocationIsFinal, LedgerOnlyAdvances |
| AuthEnrollLost | a running server and an enroll command | violates PrintedTokenIsHonoured, see below |
| StoreFileOneProcess | 2 threads, 2 images, 4 inodes | ReplacedAtomically |
| TokenLossy | 3 callers, 2 devices, 3 requests, loss | RevokedOnlyAfterLoss, StoredIsValid, EveryCallReturns |
| WSHubSafety | 2 clients, 1 channel, capacities 2 and 1, 2 messages, shutdown | MapMatchesChannels, PanicOnlyAfterDrop, DrainNeverBlocks |
| WSHubLive | 1 client, 2 channels, 3 messages, no shutdown | OnceInOrder, ConnectionReaped |
| TermSessions | 2 sessions, 2 requests, limit 1; one session is attached to | LimitWithRaces, NoDiscarderWhileAttached, RemovedIsKilled, PumpEnds |
| Gate | 2 requests, an address with burst 2, a bearer token with burst 1, 4 ticks | WindowBound, ServedBound, RevokedIsRefused |
| Docker | 4 containers over 2 slots; 3 characters a stream, 2 a frame; 2 retries | ReturnedIsQuiet, FramingIsInvisible, AnswersAreTrue, UpIsConnected, RequestEnds |
| Monitor | a mount that comes and goes, a rule for it that may be dropped, 2 containers with a reporter, a buffer of 2, 3 changes | WrapIsExplained, AlertsMatchBreaches, NewestKept, UpIsAcked, HighIsAlerted |
| Files | 2 requests, each one of 19 operations on a tree of a file in a directory; a crash at any moment | VisibleIsWhole, ReadsOneVersion, TempsAreOwned, SearchFindsWhatStays, Confined, RequestsEnd |

Each module has a type invariant. `AuthRaces` checks that of the store; all of
them are theorems (section 4), and adding `TypeOK` to the INVARIANTS of another
run checks it there.

**Why the bounds are enough.** Four requests let an enrollment, a refresh, a
reuse and a revocation overlap in every order, and a crash separate them; four
tokens are two devices with a rotation each, or one with three. A second crash
meets a server with nothing in memory, as the first does. The state file needs
one inode for each of path, path.tmp and the reader of each thread. In the token
protocol a refusal needs two requests with one token; the third leaves room for a
re-enrollment between them. A full channel needs capacity one; draining more
than one message needs two. The limit of sessions is exceeded with two creators.

In `Gate` four ticks fill, empty and refill either bucket, and pass a cleanup
between them (`MaxTime`); `MaxServed` is never reached before the budget is. A
list needs more containers than slots, and enough of them that a place is used
twice: four over two. Three characters hold a line, its line feed and the
beginning of the next, in frames that cut it anywhere (`MaxText`, `MaxFrame`).
`MaxChanges` is one budget of the monitor for all that happens to the host, the
containers, the buffer and the rules: a breach that ends and begins again, or an
alert that is raised, pushed out and cleared, takes three. A capacity of two
lets alerts move up and leave. Of the file system, `Depth` 3 lets a directory
copied into itself run into the longest path; `MaxInode` exceeds what two
requests ever hold; two chunks make a half upload; two requests with the crash
show every pair of operations against each other, and a third has, of those two,
nothing left that it alone could see.

**Fairness.** Goroutines and futures that can run do, so their steps are weakly
fair: the register and unregister cases of the hub, the pumps, the pump of a
shell, the second half of Create and Kill. What people, peers, shells, the
network and the disk do is never fair: a peer may stop reading (`WriterFlush` is
fair only once the connection is closed), a user may never close a session.
`SF` is used for taking the refresh lock: Dart wakes the waiters of a
completer in the order they came, so that one waiter is not passed over for
ever. In `Monitor` it is used for the clock, which never stops; it is the model
that lets time pass only between two evaluations. The Docker daemon answers what
it was asked and ends a log that is not followed; that it is up or a container
writes anything is not fair. File requests go on (`RequestStep`), as a system
call returns; uploads may break off but need not end otherwise.
`CHECK_DEADLOCK FALSE` is set for the hub, the gate and the files: with all
messages sent and all clients gone, with the clock at its bound, with all
requests answered, nothing is left to happen.

### Where code and comments disagree

`AuthEnrollLost` checks that a printed enrollment token is honoured until it
expires (`PrintedTokenIsHonoured`, handlers.go:59): Persist of the running server
overwrites the token that `--enroll` has just written to the file.

More claims are stated in the modules and fail as well. Putting the property in
the place of those of the .cfg named, with the constants given, shows the
execution.

| property | instance | what happens |
|---|---|---|
| AnsweredIsDurable | AuthEnrollLost with PairingAlone FALSE | an enrollment's Reload undoes a rotation not yet persisted (store.go:120) |
| RevocationIsFinal | AuthEnrollLost with PairingAlone FALSE | the enroll command writes back an image from before the revocation (main.go:65) |
| EnrollmentTokenSingleUse | AuthEnrollLost | the Used mark (handlers.go:76) is written and never read |
| TokensSurviveRestart | AuthEnrollLost with FirstBoot, 3 secrets and MaxCrashes 1 | on a first boot server and enroll command generate a secret each (server.go:66) |
| PathWhole | StoreFileOneProcess with Thread {g1, c1}, Process {server, command}, ProcessOf <- ServerAndCli | both processes write `path.tmp` (store.go:163) |
| MaxConcurrent | TermSessions | two creators pass the check before either registers (terminal.go:155) |
| NothingLostWhileAttached | TermSessions | a stopped discarder takes one more chunk (terminal.go:67) |
| BusyShellGoesOn | TermSessions with Swept FALSE, Streamed {} | a new session has no discarder |
| RefusedOnlyWhenFull | the same | a shell that exited keeps its place (terminal.go:190) |
| IdleIsKilled | the same | nobody calls Sweep (config.example.yaml:50) |
| UpIsAcked | Monitor with two reporters | ContainerDown emits after it gave the lock up: a ContainerUp in between clears nothing (alerts.go:125) |

What reading the code for these models showed besides:

* `New` guards against a metrics interval of 0 for the collector (server.go:71),
  `Run` gives the same setting to `time.NewTicker` unguarded (server.go:252).
* The log line of server.go:90 promises Docker "as soon as the daemon becomes
  reachable"; retryDocker gives up after six attempts.
* EvaluateHost is "called on every collected sample" (alerts.go:97); it is called
  on a ticker of its own, with a sample that may be old or have been seen.
* The agent runs the engine with no rules (server.go:116), and nothing calls
  UpdateRules, ContainerDown, ContainerUp, StreamEvents, the limiters' Cleanup,
  the terminal's Sweep and KillAll, the app socket's disconnect.
* A file copied onto itself is emptied and answered with 201 (files.go:249); a
  directory copied into itself goes on until the path is too long; DELETE with an
  empty path and `recursive` deletes the first root; a recursive deletion follows
  a directory that is renamed meanwhile.
* After a reuse the revocation's Persist error is ignored (handlers.go:155);
  once the hub has stopped, read pumps wait for it for ever (ws.go:138);
  deleteServer takes no lock, so a refresh in flight saves tokens again
  (server_repository_impl.dart:192).
* A failed WebSocket calls both `_onError` and `_onDone`, and each schedules a
  reconnect (web_socket_client.dart:140-165).

## 4. What is proved

Every safety invariant and every action property of the passing runs is a
theorem, as are the two refinements and the type invariants. The runs show them
on small instances, the theorems for every value of the constants, from the
assumptions stated with each. For each module there is an inductive invariant;
each action has a lemma or a step that shows it is kept.

### AuthStoreProof

For any sets of devices, tokens, requests and enroll commands and any number of
crashes:

* `TypeCorrect`: `Spec => []TypeOK`
* `AtMostOneLiveToken`: `Spec => []OneLivePerDevice`
* `RevocationIsWhole`: `Spec => []RevokedAsAWhole`
* `SecretIsKept`: `Spec => []TokensSurviveRestart`, if `~FirstBoot`
* `AnswersAreDurable`, `TokensAreSpentOnce`, `RevocationsAreKept`: `Spec =>
  []AnsweredIsDurable`, `[]SingleUse`, `[]RevocationIsFinal`, if `PairingAlone`
* `FileIsLedger`: `Spec => LedgerOnlyAdvances`, the refinement of
  `SessionLedger`, if `PairingAlone`

The first three hold under every race. That `AddRefresh` adds the first record of
its device depends on the device being new, and on every image there is, because
a Reload or the enroll command may put any of them in its place. `IInv` is
TypeOK, `Sound` for every image, and `NewDevices`: devices with records were
minted, a device being paired has a record in no image, and no two requests pair
the same device. `RotateKeepsSound` and `RevokeKeepsSound` are about the methods
of the store.

The others rest on `JInv`. Its `OneSecret` says that every image and every
signature has the secret of the file; it needs the file to be there at the first
start (`~FirstBoot`), as the server and the enroll command otherwise generate a
secret each. Its `Settled` is what pairing alone gives (`PairingAlone` is a
restriction of the environment: an operator pairs while nothing else runs). What
a Reload or an enroll command read is still what the file holds when it is used
(`Exclusive`); the memory knows all that the file knows, in the order of the
ledger (`Ahead`); and a request that did its work has its records in the memory,
one that was answered in the file, and nobody else has its token (`Requests`).
Each is needed: without `Ahead` a Persist could lose what another request was
answered. Without either hypothesis the theorems are false, and section 3 says
which instance shows it. `TurnSettles` and `MemoryTurn` say once what a step of a
handler must do; each handler then shows that it does.

### StoreFileProof

For any number of goroutines:

* `FileStaysWhole`: `Spec => []PathWhole`, in one process
* `PersistIsAtomic`: `Spec => ReplacedAtomically`, the refinement of
  `AtomicFile`, in one process
* `MutexIsReturned`: `Spec => []TypeOK`, for any number of processes

The invariant says what each stage of the holder of the mutex has: after Open,
path.tmp is its inode and not path's; after Write, that inode holds its image.
Without `OneProcess` the first two are false (section 3 says how to see it); the
third holds still, as each process has a mutex of its own and every way out of
Persist gives it back.

### TokenProtocolProof

For any number of callers, devices and requests:

* `NeverRevokedByItself`: `Spec => []RevokedOnlyAfterLoss`
* `StorageIsCurrent`: `Spec => []StoredIsValid`
* `TokensAreIssued`: whatever was lost, every token in the storage, in a caller's
  hands or on the network was issued by the agent, and the counters of the agent
  are paid for by the requests sent
* `TokenTypes`: `Spec => []TypeOK`, which needs the third for its bound

That a caller presents a token only once depends on who else could be presenting
it. The invariant is `Types`, with the lock held exactly by the caller inside the
guarded section, and, while nothing was lost, `Good`: nothing is revoked; there
is one request or answer at a time and the caller it belongs to waits for it; a
token in a caller's hands is accepted and not of an enrollment being saved; an
enrollment's token is fresh; and the stored token may be used up only while its
successor is on the way to the storage.

### StreamsProof

Of the hub, for any clients, messages and capacities:

* `MapAndChannelsAgree`: `Spec => []MapMatchesChannels`
* `NoPanicBeforeDrop`: `Spec => []PanicOnlyAfterDrop`
* `DrainFindsItsMessages`: `Spec => []DrainNeverBlocks`
* `PeersReceiveOnceInOrder`: `Spec => []OnceInOrder`
* `HubTypes`: `Spec => []TypeOK`

The invariant of the first three adds `ClosedWhy`: a channel is closed for a
client that has left, or after a drop or a shutdown. `DrainNeverBlocks` rests on
the write pump being the only receiver of its channel. For OnceInOrder, `FlowInv`
says that what a peer has received, then the frame being written, then what is in
the channel, pongs left out, is what it is owed (`Flow`), and that numbers rise
along the broadcast channel and what was owed before it (`Numbered`). `Caps` are
the capacities.

Of the terminal, for any limit, any finite set of handlers and any sessions:

* `RacesAreBounded`: `TermSpec => []LimitWithRaces`
* `OneReader`: `TermSpec => []NoDiscarderWhileAttached`
* `TermTypes`: `TermSpec => []TermTypeOK`
* `NobodyIsForgotten`: a session that is neither registered nor done is in the
  hands of a handler, between its two lock sections
* `DonePumpsGoOn`: the pump of a session that is done is at a step it can take

For the first the invariant says that the registry is finite and that a handler
that spawned holds one session, so that Insert trades a creator for a session;
for the second, only what `attached` and `discards` are. The last two are what
RemovedIsKilled and PumpEnds ask of every state; that the handler and the pump
then go on is fairness.

### GateProof

For any keys, bursts and rates and any finite number of requests:

* `GateTypes`: `Spec => []TypeOK`
* `GateRefinesLimiter`: `Spec => RateSpec`; the limiter promises the gate what it
  promises anybody
* `WindowHolds`: `Spec => []WindowBound`
* `RefusalsCostNothing`: `Spec => []RefusalsAreFree`
* `HandlersAreBounded`: `Spec => []ServedBound`
* `RevokedNeverServed`: `Spec => []RevokedIsRefused`

WindowBound counts what the bucket holds with what it granted, which makes it
inductive: a grant moves an amount from one to the other, a tick adds no more
than a tick, a cleanup only deletes buckets that are full by then. That is what
`RateLimitAssumption` asks of its age; a shorter one would break it. For
ServedBound the invariant relates grants to the requests served and those charged
and still on their way.

### DockerProof

For any list, any capacity of the semaphore, any texts and any frames:

* `PoolIsBounded`: `StatsSpec => []BoundedConcurrency`
* `QuietAfterReturn`: `StatsSpec => []ReturnedIsQuiet`
* `NobodyWaitsForEver`: until annotateStats returns, the guard of one of its
  steps holds
* `FramesDoNotShow`: `Spec => []FramingIsInvisible`
* `AnswersTellTheTruth`: `Spec => []AnswersAreTrue`
* `ListsAreQuiet`: `Spec => []ReturnedIsQuiet`, with the other requests and the
  retries around
* `DockerTypes`: `Spec => []TypeOK`

The invariant of the list counts: the semaphore holds one message for each worker
at work, and the reports taken are the workers that ended. The third theorem is
about guards, as ENABLED is beyond the prover.

For the logs the specification is a recursive function of the whole text, the
program one of the frames. `Split` relates them: the text of a stream is a part
that was read to the end of a line, whose lines were handed on, and what is
buffered. It is inductive because scanning a text and one more character is one
turn more (`ScanAppend`), and characters without a line feed only lengthen what
is left over (`ScanRest`). That the recursive functions are what their equations
say (`ScanScans`, `PickPicks`) takes an induction over the length. The library's induction theorems take an operator, which no
prover here can instantiate; `Induction` is about sets instead (a set of numbers
with 0 and with n + 1 for every n holds all of them), and follows from `WFMin`
and `NatLessThanWellFounded`. For the answers, `Talk` says which state of the
connection and of the request each of them is given in.

### MonitorProof

For any metrics, containers, rules, delays, capacity and number of callers:

* `BufferKeepsNewest`: `Spec => []NewestKept`
* `AcksAreKept`: `Spec => AckedStays`, an acknowledgement survives whatever is
  emitted, cleared or pushed out
* `OneAlertPerBreach`: `Spec => []AlertsMatchBreaches`
* `UpClearsItsAlerts`: `Spec => []UpIsAcked` with one reporter (`OneReporter`);
  with two it is false
* `WrapsAreExplained`: `Spec => []WrapIsExplained`
* `MonitorTypes`: `Spec => []TypeOK`

`StepsOfEngine` and `StepsOfCollector` reduce a step of the monitor to one of the
engine or of the collector. `Shifted` says what emitLocked does to the buffer;
NewestKept and AckedStays follow from it. For one alert a breach, `Agree` ties
the engine's age and active flag to what the values alone show. For UpIsAcked the
invariant adds that an alert still to be emitted is of a container that is down.
For WrapIsExplained it says that, while no interface vanished and no two samples
overlapped, one goroutine at most is between reading the counter and storing it,
and what it read is at least what is stored.

### FilesProof

For any tree, any names, any number of requests at once, any disk, and a crash at
any moment:

* `NamesShowWholeFiles`: `Spec => []VisibleIsWhole`
* `DownloadsAreOneVersion`: `Spec => []ReadsOneVersion`
* `TempsAreNotLeft`: `Spec => []TempsAreOwned`
* `SearchesFindWhatStays`: `Spec => []SearchFindsWhatStays`
* `RequestsAreConfined`: `Spec => Confined`
* `FilesTypes`: `Spec => []TypeOK`

The lemmas about paths come first: being under one another is transitive, two
paths above a third are one above the other, moving a subtree is one to one. The
invariant has five parts. `Rooted`: the tree is finite, and what is above a path
is a directory. `Requests`: a handler's record is of its place in the code, and
the list of a copy stays under its target. `Owned`: before a crash or before a
directory that may hold one moves or is copied, temporary files are where their
requests put them. `Content`: a writer has its inode for itself, under its
temporary name wherever others moved that, and holds as many chunks as it wrote;
a reader's inode is complete and nobody's; copies write in place and are the
exception (`inPlace`). `Searching`: a search has found what stayed, or has a
directory above it left in its list (what moves with a directory no longer
stays). `Sizes` adds that no file outgrows an
upload, copies included.

### What is assumed, and what is not proved

The assumptions are those of the modules: constants of the right kind and
disjoint sets, and a finite set of handlers in `Terminal`, as a bound on them is
part of `LimitWithRaces`. The hypotheses `~FirstBoot`, `PairingAlone`,
`OneProcess` and `OneReporter` are stated in the theorems that need them. All of
them are true of the instance of some passing run.

Model-checked only: the eight liveness properties (EveryCallReturns,
ConnectionReaped, RemovedIsKilled, PumpEnds, UpIsConnected, RequestEnds,
HighIsAlerted, RequestsEnd). Liveness under fairness and ENABLED are beyond the
prover. That the properties of section 3's last table fail is shown by TLC, as a
counterexample is.

## 5. What is not modelled, and the plan

* *Attempt tracker and audit log.* No handler uses the tracker and nothing is
  recorded in the log; a model would be of their tests. They follow when the
  agent calls them.
* *TLS certificates.* EnsureCerts is one sequence at the start. Its hazard, a
  certificate without a key after a crash, is what the code does: it looks for
  the certificate only, so the property to state fails at once.
* *Start and shutdown of the server, configuration.* Sequential. The goroutines
  that Run starts are in the modules of the parts they drive; flags, files and
  defaults are read once.
* *Docker:* images, volumes, networks and inspect pass one answer of the daemon
  on; maskSecrets and cpuPercent are conversions; StreamEvents has no caller.
* *Files:* Favorites and Stat have no caller; symbolic links, permissions and
  power failures as said above.
* *App WebSocket client, app server list.* Next to be modelled: the reconnect
  timers around a token refresh and an intentional close (`AppSocket`, composed
  with `TokenProtocol`), and a slow refreshStatuses beside add and delete
  (`ServerList`). What they should promise the code does not keep today, see
  `hazards`.
* *App repositories, DTOs, database, user interface, generated code, scripts.*
  Conversions, queries and I/O.

Proofs to come: RevokedIsRefused against the auth store instead of a set of
devices, which needs the two modules composed; that `Serve` of the token
protocol is what the handlers of `AuthStore` do to one device; and the bounds by
which the failing claims of section 3 miss (`LimitWithRaces` is one for
MaxConcurrent).
