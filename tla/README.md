# Roqer in TLA+

Roqer lets an AI agent work in Roblox Studio. This directory holds a formal model of the
parts of it where order, concurrency and failure decide whether it is right, the TLC
configurations that check the model on small instances, and proofs, checked by TLAPS,
that hold for every size.

Paths below are relative to the repository. `PROJECT.json` holds the same facts for
tools: components, runs, the source lines behind every definition, hazards, theorems.

## 1. The system

```
 agent run (desktop)           MCP clients
        | tool calls                | tool calls
        v                           v
 +--------------------------------------------+    proxy processes forward
 | primary MCP server  (packages/core)        | <- to the one that owns the port
 |   tools -> BridgeService -> SseTransport   |
 |   rojo: leases, playtest guard, delegate   |
 +--------------------------------------------+
    ^ POST /ready /disconnect /response   | GET /events (one stream per plugin VM)
    |                                     v
 +--------------------------------------------+
 | Studio plugin VMs (studio-plugin)          |   edit VM, play-server VM;
 |   StudioEventStream, ClientBroker          |   runtime clients behind the server VM
 +--------------------------------------------+
```

| Component | Source | State it keeps | Operations | What is hard |
|---|---|---|---|---|
| Bridge: peers | `packages/core/src/bridge-service.ts` | `instances`, `deliveryOwnersByPhysicalSession`, `instanceAliases` | register, unregister, activity, stale cleanup, resolve a target | duplicates and takeovers, place changes, clients that depend on a server |
| Bridge: requests | same | `pendingRequests` with claims, settled ids | enqueue, claim, release, settle, time out | redelivery, timeouts racing answers, migration to a new place |
| Event stream transport | `packages/core/src/studio-transport.ts` | `streams`, per stream `blocked`, `closed` | open (replacing), pump, drain, heartbeat, status, close | backpressure, replacement order, lost wakeups |
| HTTP routes | `packages/core/src/http-server.ts` | MCP activity, stream handles | `/ready`, `/disconnect`, `/unregister-instance-id`, `/events`, `/response`, `/proxy`, `/mcp` | calls that arrive after their caller gave up |
| Plugin event stream | `studio-plugin/src/modules/StudioEventStream.ts` | generation, stream, in-flight, pending and terminal request ids | start, refresh, stop, reconnect, dispatch, post answers | stale callbacks, duplicate delivery, lost acknowledgements |
| Plugin client broker | `studio-plugin/src/modules/ClientBroker.ts` | one entry per player, pending disconnects | register, refresh, unregister, retry | a player leaving during a registration |
| Proxy and promotion | `packages/core/src/server.ts`, `proxy-bridge-service.ts`, `rojo/primary-client.ts`, `rojo/primary-service.ts` | bridge mode; a client's intent, checkpoint and uncertain call; the primary's scopes | forward, delegate a source call, ask for its status, release, promote | lost answers, calls served after they were given up, races for the port |
| Rojo writes | `packages/core/src/rojo/file-write*.ts` | the lease and guard directories on disk | acquire, reclaim, compare and write, release | crashes and suspensions of lease holders, editors saving meanwhile |
| Rojo playtest guard | `rojo/playtest-guard.ts` | ledger, write reservations, start tickets | reserve, record, validate, admit, settle | a start that validates while saves go on and windows move |
| Rojo project model | `rojo/sourcemap.ts`, `structure.ts`, ... | a project map | map scripts to files | sequential |
| Studio instances | `managed-instance-registry.ts`, `studio-instance-manager.ts` | a file shared by processes | launch, record, close | processes of the operating system |
| Runs | `apps/desktop/electron/main.ts`, `runtime/run-claims.ts`, `pending-runs.ts`, `src/App.tsx` | starts, holds on chats and places, runs a window follows | start, cancel, finish, close and re-open the window | cancelling at any await, one run per chat and place |
| Run engine | `runtime/run-engine.ts`, `agent-loop.ts` | one run's turns and approvals | plan, call tools, ask | the model's and the tools' answers |
| Journal | `runtime/run-journal.ts`, `recovered-runs.ts` | dirty snapshots, files | record, flush, acknowledge, recover | a crash or a failed write between any two steps |
| Workspace store | `runtime/workspace-store.ts` | manifest, previous manifest, chat files | load, save, collect | a crash between any two writes |
| Server process | `runtime/mcp-server-process.ts`, `mcp-client.ts` | child process, supervision state | start, adopt, stop, restart | stop during an await of the supervision |

Section 5 says what is not modelled, and why.

### What makes each part right

* Peers: a call for (place, role) reaches one session, the right one. A live session is
  never displaced; a dead one never blocks its successor.
* Requests: settled once, run at most once, answered by the handler that ran; none is
  forgotten while something could still take it, except that a claimed request whose frame
  the plugin threw away waits for the end of the stream, or its timeout.
* Transport: what can be delivered is delivered without waiting for a timer; what a
  broken stream had claimed becomes deliverable again.
* Plugin: no answer is lost, nothing runs twice, and the connection always comes back.
* Source writes: one writer at a time holds a file's lease, no save replaces what it was
  not planned against, and a finished call does not leave its file locked, except where
  section 2 says so.
* Playtests: none starts with a save missing in Studio; saves and starts exclude each
  other, and neither for ever.
* Source authority: what a client was told did not happen never happens; an old map is
  never replayed; a free port is taken over by a process that has nothing to lose.
* Runs: one per chat and per place; a cancelled start never works; the record of a run
  that worked survives whatever fails, once, in a workspace that can be loaded.

## 2. Modules

| Module | What it is |
|---|---|
| `StudioBridge` | the server's side: `BridgeService` with `SseStudioTransport` behind the routes |
| `StudioBridgeProofs` | what is proved of it |
| `StudioLink` | `StudioBridge` composed with the plugins: `StudioEventStream` in each physical session |
| `StudioLinkProofs` | that it keeps the bridge, from the claim to the answer, and what callers are told |
| `RequestPromise` | abstract: what the caller of a tool request may rely on |
| `StudioPromiseProofs` | that `StudioLink` implements it |
| `ClientRegistrations` | `StudioBridge` composed with a play server's `ClientBroker` |
| `ClientRegistrationsProofs` | what is proved of it |
| `SourceWrites` | Rojo source writes of several processes: lease, guard, comparison, rename |
| `SourceWritesProofs` | what is proved of it |
| `PlaytestGuard` | the barrier between saves and playtest starts |
| `PlaytestGuardProofs` | what is proved of it |
| `SourceAuthority` | source calls of proxies at the primary, and promotion |
| `SourceAuthorityProofs` | what is proved of it |
| `WorkspaceStore` | how saved chats reach the disk |
| `RunRecords` | `WorkspaceStore` composed with runs, their holds, the journal and the window |
| `RunRecordsProofs` | theorems about `RunRecords` and `WorkspaceStore` |
| `MC...` | small instances for TLC |

### StudioBridge

The bridge and the transport call each other synchronously: registering a peer pumps its
stream, closing a stream releases claims, which pumps other streams. Nothing interleaves
inside a JavaScript turn, so both are one state machine and an action is a whole turn,
with everything it calls. The plugins are the environment: any call may come at any time.

| Variable | Code |
|---|---|
| `inst[x]` | `instances`: the (instanceId, role) a session holds; the role is `kind` and `n` (`client-n`) |
| `idle[x]` | the age of `lastActivity` in the three classes the code tells apart: at most 3 s, more, more than 30 s |
| `owners[s]` | `deliveryOwnersByPhysicalSession` |
| `stream[s]`, `blocked[s]` | the entry in `streams` and its flag; the generation stands for the claim owner `sse:<session>:<n>` |
| `arrivals`, `status`, `target`, `claim` | `pendingRequests` in order of `timestamp`, how each was settled, its target and `claimOwner` |

| Action | Code |
|---|---|
| `Ready` (`Assigned`, `Register`) | `POST /ready`, `registerInstance`: numbering, duplicate or takeover, migration, pump, status frame |
| `Disconnect`, `UnregisterPlace`, `CleanupStale` (`Unregister`) | `unregisterInstance` with its clients, the streams it closes and the requests it rejects |
| `Age` | time |
| `OpenStream`, `CloseStream`, `Drain`, `Heartbeat`, `RefreshStatus` | `open`, `closeStream`, `onDrain`, the heartbeat interval, `refreshStatus` |
| `SendRequest`, `Respond`, `TimeOut` | `enqueueRequest`, `settleRequest`, the timer and `cleanupOldRequests` |
| `Restart` | shutdown or crash of the primary, and a successor that starts empty |

`Pump` is the heart: the transport's loop of claiming and writing on each stream it is
asked to wake. Where a socket starts to push back is a free choice; the loop stops there
and nowhere else, and a status frame, when one is due, can be what fills the socket.
A backpressured write is still sent: the request stays claimed.

Left out: event payloads and framing, authentication, the alias table (requests are
addressed to canonical ids), import payloads, and the time between `/ready`'s status
frame and its answer, which belong to one turn anyway.

### StudioLink and RequestPromise

`StudioLink` adds a plugin VM to every physical session. `phase` is where `connect` is
waiting; the code's generation counter is represented by what it achieves: after a change
of generation the outcome of an older call is ignored, but the call itself may still reach
the bridge (`late`). `wire` is what the bridge has written and the plugin has not read.
`busy`, `answers` and `terminal` are `inFlightRequestIds`, `pendingResponses` and
`terminalResponseOrder`. Two are history variables: `runs`, who started each request's
handler, and `discarded`, whose frames the plugin has thrown away on the stream it listens to.

Frames written to a stream the plugin has stopped listening to are lost, whatever it had
not read is lost, acknowledgements are lost, posts arrive late or never, a VM is destroyed
at any point, the server restarts at any point. All of these are failures and `MaxFaults`
bounds how many one behaviour has.

A plugin can also drop a request with its stream open (`Discards`): a frame that cannot be
read, or a chunk of a large request while eight others are incomplete, is passed over
(`joinChunk`, `decodeMessage`). Incomplete sets outlive the stream they came on by up to a
minute, so reconnecting does not make room. The bridge keeps the claim, nobody runs the
request, and its caller waits for the timeout, as the comment of `decodeMessage` says. What
the properties claim of it is that nothing else drops a request, and that this one is
dropped no longer than the stream lives: `discarded` is emptied with it, and from then on the
request is owed to its caller again.

`RequestPromise` is the specification of the link for a caller: a request is settled at
most once, its handler starts at most once, and an answer is the answer of a handler that
ran. `StudioLink` implements it under the mapping `CallerState`, `StartCount`; the runs
check `Promise!Spec` as the property `PromiseKept`.

The promise has two limits, both met while modelling.

* When a peer changes place, `migratePendingRequests` moves the pending requests of *every*
  role of the old place, also those that another VM of the old place is running. If a second
  VM plays that role in the new place, and the first one's stream then breaks, the request is
  delivered to the second one too: a window that moves takes along what a play server runs,
  a play server that moves what another window runs. In the runs of `StudioLink` no two VMs
  of a role meet that way; `StudioPromiseProofs` presumes it by name (`OwnRequestsMove`). The
  run `bridge`, which has such peers, shows that while the first stream stays open nothing
  is delivered twice.
* A plugin remembers its last 256 answers. A request redelivered on a new stream, whose
  answer is acknowledged while the second frame is unread, runs again if 256 other answers
  are acknowledged before that frame is read. With `MaxTerminal = 1` and two requests TLC
  finds this in fifteen or so steps; with as many requests as remembered answers, as in
  the runs, it does not happen. The presumption is `FramesReadInTime`.

### ClientRegistrations

A play server registers each player's runtime client behind its own session. `entry`,
`role`, `registered`, `registering` are the fields of a `ProxyEntry`, `retry` says that its
timer is set, and `calls` holds the coroutines of `registerProxyEntry` that wait: for the
place's name, for the bridge, or to read the reply. A coroutine is `fresh` while the
entry's generation is the one it began in, which is all the code compares. `late` are calls
the broker has given up that still reach the bridge; `disconnect` is
`pendingProxyDisconnects` with the progress of its one delivery loop.

| Action | Code |
|---|---|
| `HearsReady` | `handleReady` and `refreshAllLogicalRegistrations`: every entry begins anew, in a new generation |
| `PlayerJoins`, `PlayerLeaves`, `PlaytestEnds` | `registerProxy`, `unregisterProxy`, `disconnectAllProxies` |
| `PayloadReady`, `Taken`, `Refused`, `Returns` (`Superseded`) | `registerProxyEntry` from wait to wait, and the bridge's answer in between |
| `RetryFires` | the timer of `scheduleProxyRetry` |
| `Disconnects`, `DisconnectReturns`, `DisconnectAgain` | `deliverProxyDisconnect` |
| `CallLost`, `LateReady`, `DisconnectLost`, `ServerLoses`, `BridgeFails` | failures, bounded by `MaxFaults` |

Of the server's own connection only the phases matter here: registered, told so, stream
asked for, open. A `/disconnect` that arrives after its loop has ended is left out, and so
is the forwarding of requests to the client's VM (`dispatchClientRequest`).

`KnownWhileOpen` is a statement about one player. With two, the registration of a player
who has just left can arrive late enough to displace another client, which no stream
protects before the server's own has opened; the broker learns of that only when the
server registers again. TLC finds it in seventeen steps; they need more than three seconds
between the server's registration and its stream.

### SourceWrites

A writer is one call of `compareAndWrite`; `pc` is where it stands. The lease is a directory
with an owner file, which can be missing or torn and whose heartbeat can be stale; the guard
is the short directory `<lease>.guard` that serialises changes of the lease. `file` holds
what the source holds and which file it is (inode), so that a replacement by an editor and
a save into the same file differ. `Turn` says that a process runs nothing else between the
two steps of a synchronous section.

| Action | Code |
|---|---|
| `Begin`, `EnterGuard`, `GuardBusy`, `Publish`, `Taken`, `Stat`, `Reclaim`, `Refused`, `Probe` | `acquireSourceWriteLock`, `withSourceWriteGuard`, `sourceWriteOwnerStatus`, and proper-lockfile's `mkdir`, `stat`, retries |
| `Compare`, `WriteTemporary`, `CompareAgain`, `Check`, `Rename` | `compareAndWrite`: both comparisons, the copy, `assertHeldSync` and the rename in one turn |
| `Unlock`, `UnlockFails`, `GuardFails`, `GivesUp` | the release: the library's attempt (phase "release"), its repetitions in the call and by `retryReleaseInBackground` ("unlock"), and what ends them ("done", "abandoned") |
| `Expire`, `Heartbeat` | time, and the timer that refreshes the lease |
| `Crash`, `PidReused`, `...Fails`, `Edit`, `ClearGuard` | failures, the operating system, other editors, the user |

A guard that a crash or a failed removal leaves behind is never reclaimed by the code; the
file stays locked until a user removes it. The model has that as it is (`Left`), and
`LeaseReturned` excepts it.

It excepts one more case. The comment on the retry delays (`file-write-lock.ts:15`) promises
that a finished request never leaves its file locked, and says after which failures: a busy
guard, or a delete that is refused for a while. Any other failure ends the repetitions at once
(line 185), in the background without a word (line 41). If the disk is full when a release
makes its guard, the guard goes, no attempt follows, and the lease stays, with an owner that
is alive: to other processes the file is busy until that one ends, to itself until the lease
is thirty seconds old, when a later call of the same process takes it as left behind.
The phase "abandoned" is that release.

### PlaytestGuard

A script is a pair of a window and a file. `entries` is the ledger of saves still to be
verified, `writes` the reservations, `ticket` what a start holds. `start`, `check` are
where a start stands: it validates one entry after the other, and reading the file, asking
Studio and judging are separate steps (`ReadFile`, `Inspect`, `Judge`), between which
files, scripts, registrations and other starts go on. `Ask`, `Judge`, `Expire`, `Settled`
are `beforeRequest` with its two time-outs and the end of the admitted request;
`BeginWrite`, `Save`, `FinishWrite`, `AbandonWrite` are what `_scriptWrite` does with the
guard. `Register`, `Leave`, `ForgetAlias` are the registrations of the bridge, told to the
guard. Left out: records without a Studio owner, the history of place identities and its
overflow.

### SourceAuthority

Each process is in one `mode`. The client's side (`RojoPrimaryClient`) has `intent`, the
checkpoint `kept`, the epoch `acked`, the uncertain call `pending` and its queue; the
primary's side (`RojoPrimaryService`) a `scope` per client. A call travels in `sent` until
it is served, however late, and its answer in `reply`. `Ask`, `Recover`, `Send`, `Refused`,
`Hear`, `GiveUp`, `Leave` are the steps of `run` and `recover`; `Status`, `Release`,
`Refuse`, `Begin`, `Created`, `CreationFails`, `Finish` those of the service; `Try`, `Bind`
the promotion with its two checks; `PrimaryDies` and given-up calls are the failures.

Two things were met that no property claims otherwise. A client that is killed, or closed
while a call is uncertain, never releases its scope; the primary has 64, and refuses new
clients after that until it ends. And `PortIsTaken` regards the port as free or owned: a
process that binds it and finds that it may not keep it closes it again, for which moment
another one's attempt fails and is repeated.

### WorkspaceStore and RunRecords

`WorkspaceStore` is one save after the other: chat files, previous manifest, manifest,
collection of unused files; `Stop` is a failed write or a crash after any of them.
`RunRecords` adds what the desktop application does around it. `stage` is where a start or
a run is; `holder` is `RunHolds`, `aborted` the aborted signals of `PendingRuns`; `mem`,
`file`, `dirty`, `attempts` are the snapshots, files, dirty set and write queue of
`RunJournal`; `view` and `tracked` are what the window shows and follows; `saveQueue`
holds the workspaces that wait to be saved. A workspace is how often each run is in it.

| Action | Code |
|---|---|
| `Begin`, `FindPlace`, `StartFails`, `OpenJournal`, `Opened`, `Discard` | `startRun` from wait to wait, with `RunHolds.begin`, `holdPlace`, `release` |
| `Complete` | the end of a run in `startRun`'s `finally` and the last snapshot |
| `WriteJournal`, `Flush`, `JournalFails`, `DiscardFails` | `flush`, in the background or by `drain`, and what a failed write does to starts and runs |
| `StopStart`, `Record`, `Close`, `Open`, `Load` | the window: stop, a finished run becomes a message, unload, launch or re-activation, hydration and its first save |
| `Initialize`, `Save`, `GoOn`, `FinishSave`, `SaveFails` | `initializeStorage`, `queueStateWrite`, the store's steps, `acknowledge` (`Acknowledged`) |
| `Die` | the process ends at any moment |

`drain` waits for the writes that are under way, and does not fail with those of the
background. So `Acknowledged` may remove the journal of a run whose last write has failed, and
if a flush for another run falls between the removal of its file and that of its snapshot, the
file comes back. The model allows that whenever such a run is acknowledged, whether one of its
own runs flushes then or not; `RecordedOnce` is what makes it harmless.

Deleting chats is left out. While reading it, one thing stood out: `App.tsx:949` cancels a
start that is abandoned while in flight without `discard`, also when its chat has been
deleted, so that its journal comes back at the next launch as "Recovered work".

## 3. Runs

| Run | Instance | Question | States |
|---|---|---|---|
| `bridge` | an edit peer, 2 play servers, 2 places, 2 requests, room for 2 streams | types, routing, protection, claims, wakeups, takeovers, migrated requests | 59,358 |
| `plugins` | one window with 2 requests or 2 windows with 1, and a failure, or a server with a client and 2 failures | the promise, answers kept, nothing dropped between claim and answer but a frame thrown away | 118,426 |
| `served` | 1 window with a request or 2 without, 2 failures, fairness | requests are taken, answers arrive, plugins get their stream back | 37,972 |
| `timeout` | 1 window, 1 request | expected violation, see section 6 | |
| `players` | a server and a player, 2 places, 1 failure, fairness | one loop per player, nobody forgotten, broker and bridge agree, a player who stays gets registered | 213,638 |
| `number` | a server and two players, 1 failure, fairness | expected violation, see section 6 | |
| `saves` | 2 writers of one process and 1 of another, an editor and a failure, or 2 failures, the second in a reclaim or a repeated release, fairness | the lease is held at the rename, no update is lost, the lease comes back | 325,812 |
| `starts` | 2 windows, 3 scripts, 2 files, a start, fairness | starts see what was saved, saves are barred, nothing stays barred | 335,552 |
| `authority` | a primary and 2 proxies, 3 calls, 2 failures, fairness | nothing late, no old map, promotion without loss, the port is taken | 554,029 |
| `linked` | the same | expected violation, see section 6 | |
| `records` | 2 of 3 runs and a failure, or one run and 2 failures, 2 chats, a place, 3 windows | holds, nothing lost, recorded once, always loadable | 743,290 |
| `reopened` | 2 runs, 1 failure, 2 windows | expected violation, see section 6 | |

The runs `plugins`, `served`, `starts`, `authority`, `saves` and `records` restrict the
instance by an action constraint of their MC module: which windows play a part, how many
calls or runs there are together. It removes combinations, never a step of those that
remain, with one exception: in `records` a window is opened only when no save waits
(`Quiet`, which `RunRecords` defines and the theorem `NothingIsLost` presumes). `reopened`
is the same question without it.

### Properties

| Property | Says |
|---|---|
| `OneSessionPerTarget` | two sessions never hold one (place, role) |
| `OwnersMatchStreams` | protection from takeover and cleanup exists exactly while a stream is open |
| `NoStrandedClaim` | every claim belongs to a stream that is open now |
| `CarriedByRegistered` | no stream, and no runtime client, outlives its registration or its server |
| `NoLostWakeup` | whatever makes a request deliverable also pumps the stream that can take it |
| `NoSecondDelivery` | a delivered request goes to no second stream while the first is open |
| `TakeoverInheritsNothing` | whoever displaces a session gets none of its requests |
| `ClaimedIsInHand` | a claimed request is on the wire, running, or answered, unless its frame was thrown away on the very stream that claimed it |
| `PromiseKept` | the link implements `RequestPromise` |
| `AnswerKeptUntilSettled` | a plugin forgets an answer only when the request is settled or its VM is gone |
| `OneLoop` | an entry has exactly one current registration coroutine while it is being registered, else none |
| `NeverForgotten` | an entry is registered, being registered, or will be tried again |
| `KnownWhileOpen` | while the server's stream is open the bridge knows the broker's client by its number |
| `HeldAtRename` | whoever has passed the last check still owns the lease when it renames |
| `NoLostUpdate` | a save replaces what it was planned against, or an editor's save in the window the code admits |
| `StartsAreSynced` | a queued start has every saved script in Studio as on disk, unless Studio's copy changed after it was read |
| `SavesAreBarred` | no save replaces a file of a window, or of a ticket, while a start holds it |
| `NoLateEffect` | no source operation begins that its client no longer waits for |
| `MapsAreCurrent` | what primary and client keep is what the client's last operation left |
| `PromotedIsPlain` | one process owns the port, and it took it without bindings, calls or doubts |
| `HoldsAreExact` | chats and places are held by the runs that start or work, one each, and by no other |
| `NothingLost` | a run that worked is in the journal or the saved chats |
| `RecordedOnce` | no run is put into its chat twice |
| `AlwaysLoadable` | both manifests refer only to chat files that are there |
| `RequestsAreTaken` | a request of a registered session is started or settled in the end, without its timeout, unless its frame is thrown away, and then again once that stream is gone |
| `LeaseReturned` | the lease of a call goes in the end, unless its process dies, a guard is left behind or its release meets a failure that is not retried |
| `AnswersArrive`, `PluginsConnect`, `EachPlayerRegisters`, `NothingStaysBarred`, `PortIsTaken` | what else must eventually happen |

### Bounds, and why they are enough

* Two sessions can compete for a tuple; a third adds no new kind of conflict, because a
  registration meets at most one holder (`OneSessionPerTarget`, proved for any number).
* Two places: where a peer was and where it goes.
* Two requests: one ahead of another in the queue, one claimed and one not. Where the
  clients or a third session use up the budget, one.
* `Gens` is the number of generations in use at a time, not of streams opened: generations
  are only compared for equality, so a free one is as good as a new one. Two suffice, the
  current stream and its replacement; with plugins a third, for the one the plugin still
  listens to.
* `MaxStreams` is 1 or 2, for the limit of 64 to be met. `MaxTerminal` is 2, for 256; with
  two requests nothing is evicted (section 2 says what eviction would do).
* `MaxFaults` is 2: a failure, and another during the recovery from it. In `plugins` the
  windows fail once, and in `records` two runs meet one failure; that any number of failures
  does no harm is proved of both. In `saves` the second one hits only a call that reclaims a
  lease or ends a release that is being repeated, and only where no editor saves; in `players` it is 1, because the retries of a registration recover from all
  failures in one way.
* `saves`: two calls of one process and one of another are the two ways a writer can
  meet a lease: its own process's, of which it knows whether it lives, and another's.
* `starts`: a second script and a second window of one file are the ways a record can
  concern a start or not; `MaxEntries` is 2, for 1024, to be met. Two moves: away and back.
* `authority`: two proxies, for the race and for a client that meets a primary that has
  been a client. `MaxScopes` is 1, for 64, to be met.
* `records`: two runs of one chat, or of two chats and one place, are the ways runs
  compete. Three windows: the run's, one that recovers and dies, one that recovers again.

A request id is used once, so runs of the bridge alone end in states where no request is
left; peers can still come and go and deadlock is checked. The other runs set
`CHECK_DEADLOCK FALSE`: a window may be closed, a playtest over, the bounds used up, for good.

`MaxCalls` is 2: a coroutine of an old generation and the current one. A refresh waits
until it finds a free slot. `Leavers` names the players who may leave; in `number` none
does, so that the run ends within minutes. The runs of `ClientRegistrations` have one
generation: a stream opens after the old one has closed.

Symmetry is declared for requests, alike peers and generations, which are only compared,
and in the safety runs `bridge` and `plugins` only.

### Fairness

Only in the runs with liveness properties, and only for what the code or its runtime
drives: timers fire (reconnect delays, heartbeats, stale cleanup, `Age`), posted calls are
answered, sockets report their end, events are read or thrown away, handlers return, pending answers are
posted once the stream has opened. Never assumed: that a caller sends a request or times
out, that the user starts or stops a plugin, that a failure happens. `Opens` is strongly
fair because the plugin asks for the stream as soon as it has registered, while the
cleanup that could get in between needs thirty seconds of silence.

`FairClientSpec` states the same about time directly (`InTime`): in the end the server's
connection attempts take less than those thirty seconds. Every other part is weak fairness
of answers, timers and socket events.

`SourceWrites`: a call that has begun goes on while its process runs; entering the guard
is strongly fair, because another call's section may be in the way each time it tries, and
the retries of an acquisition and a release outlast finitely many sections.
`PlaytestGuard`: reads, saves and queued requests end, each has a time-out.
`SourceAuthority`: only the promotion timer and the bind it starts. `RunRecords` states no
fairness and claims no liveness: its runs, saves and windows end when users and models do.

`PluginsConnect` allows for another running plugin of the same role: which of two live
windows of one place gets the tuple is decided by who is there.

## 4. Proofs

Every safety property of section 3, every action property, and the refinement of
`RequestPromise` are proved by TLAPS, each from an inductive invariant, for all values of
the constants that satisfy the named assumptions of the modules. Those assumptions say that
the "none" values are not values (`BridgeAssumption`, `CallAssumption`, `NothingAssumption`,
`NoneAssumption`, `LeaseAssumption`, `WorkspaceAssumption`, parts of `RunAssumption` and
`WritesAssumption`), that limits are numbers, that the sets which are counted are finite, and
what the code's own checks give: the topology checks of `/ready` (`SessionAssumption`), that
only a play server's plugin is a broker (`ClientsAssumption`), that a run belongs to one chat
(`RunAssumption`) and a call to one process (`WritesAssumption`). `MaxFaults` and the other
bounds are parameters like any: the theorems hold for every number of failures.

Four theorems presume more, each for a reason section 2 gives: `NothingIsLost` presumes
`Quiet`, `LinkKeepsPromise` and `HandlersStartOnce` presume `OwnRequestsMove` and
`FramesReadInTime`, and `KnownToTheBridge` one player (`LonePlayer`). Each is there because
without it the code does not keep the property.

### StudioBridgeProofs

| Theorem | Property |
|---|---|
| `TypeCorrect` | `TypeOK` |
| `RoutingIsUnambiguous` | `OneSessionPerTarget` |
| `ProtectionIsExact` | `OwnersMatchStreams` |
| `ClaimsAreHeld` | `NoStrandedClaim` |
| `NothingIsOrphaned` | `CarriedByRegistered` |
| `DeliveredOnce` | `NoSecondDelivery` |
| `TakeoverIsClean` | `TakeoverInheritsNothing` |
| `NothingIsOverlooked` | `NoLostWakeup` |

The inductive invariant is `Inv`, in two layers.

`Typed` is `TypeOK` with `KindsMatch` (a session's tuple has the role the session
announced) and `WaitingAddressed` (a waiting request has a target). Both are needed for
types alone: a client keeps the number of its old tuple, and a migrated request changes
the place of its target.

`Inv` adds `OneSessionPerTarget`, `OwnersMatchStreams`, `NoStrandedClaim` and
`CarriedByRegistered`, and these four only hold together. A takeover is allowed when the
holder has no delivery owner; that its stream needs no closing then follows from
`OwnersMatchStreams`. Releasing the claims of a closed stream leaves none behind because
`NoStrandedClaim` names the only stream each could be held by. `Pump` gives a request to
one stream because `OneSessionPerTarget` allows one that can take it. Unregistering a
server finds every client of it because of `CarriedByRegistered`.

The argument is made once for `Pump` (`PumpEffect`: it claims only waiting requests, for
streams that are open, and changes no claim it is not told to release) and once for each
action: what it hands to `Pump` are claims of streams that stay open (`Kept`).
The action properties then follow from `Inv`: only a closed stream's claims are released
(`ReleasedIsClosed`); only a registration assigns a tuple, and it rejects the displaced
session's requests (`OnlyRegisterAssigns`, `TakeoverRejects`). For the wakeups, `PumpWakes`
says that a stream which can write beside a request it could take was not among those
pumped, and `CarriersWoken` goes through the actions: each one either pumps the carriers of
what it makes deliverable, or changes nothing for them.

### StudioLinkProofs

| Theorem | Says |
|---|---|
| `LinkTypes` | `LinkTypeOK` |
| `LinkKeepsBridge`, `LinkImplementsBridge`, `LinkOverlooksNothing` | `LinkSpec => Spec`: the plugins' steps are steps the bridge allows its environment, so it keeps its invariants and its wakeups |
| `ClaimsAreInHand` | `ClaimedIsInHand` |
| `AnswersAreKept` | `AnswerKeptUntilSettled` |
| `CallersGetRealAnswers` | nobody is told two things, and an answer only of a handler that was started |

`LinkTyped` is the bridge's `Inv` with the types of the plugins. `HandInv` adds
`ClaimedIsInHand` and what it needs: every request the bridge ever took is in its queue, so
that a claim is carried as a frame (`Taken`); what a plugin reads, runs or has to answer the
bridge took (`Known`); and what it remembers as answered is settled, so that a frame dropped
for that reason carries no claim (`Remembered`). Every action of a plugin moves a request
from wire to handler to answer, or notes that it was thrown away (`WireSteps`, `WorkSteps`,
`DiscardSteps`). No presumption is made here.

### StudioPromiseProofs

| Theorem | Says |
|---|---|
| `LinkKeepsPromise` | `PromiseKept`: `StudioLink` implements `RequestPromise`, under `OwnRequestsMove` and `FramesReadInTime` |
| `HandlersStartOnce` | `StartedOnce`, under the same |
| `LoneWindowKeepsPromise` | `PromiseKept` without presumptions on behaviours, for one window, one play server, any clients, and no more requests than a plugin remembers |

That a handler starts once is a statement about one VM and one about all of them.
`PromiseInv` adds to `HandInv` that one VM at most has ever been given a request
(`OneTaker`); that as long as it waits it is reserved to that VM (`Reserved`: nobody else
plays its role, or the VM carries the session it is for, or could be the one to carry it
again); and that the VM still knows what it has started, or is gone, or can never be given it
again (`Recalled`). `Reserved` is where a place change needs `OwnRequestsMove`, `Recalled`
where forgetting the oldest answer needs `FramesReadInTime`. Every step then maps to one of
`RequestPromise` or a stutter. The third theorem discharges both presumptions: with one VM to
a role a request moves to no other, and `RememberedOnce` shows that a memory as large as the
set of requests never has to forget.

### ClientRegistrationsProofs

| Theorem | Property |
|---|---|
| `BrokerTypes` | `ClientTypeOK` |
| `ClientsAreCarried` | `CarriedByRegistered` |
| `LoopsAreSingle` | `OneLoop` |
| `NobodyIsForgotten` | `NeverForgotten` |
| `KnownToTheBridge` | `KnownWhileOpen`, for one player |

`BrokerTyped` is `Inv` with the broker's types and that a registration that was answered has
a number. `LoopInv` says of every entry which coroutines of its generation there are: one if
it is held and being registered, none otherwise; what ends or overtakes a coroutine either
frees its slot or raises the generation of all (`FreedEffect`, `StaleEffect`, `BeginsEffect`).
`NeverForgotten` is inductive with the types.

`KnownWhileOpen` takes the longest argument of the project, because broker and bridge only
agree through what happened since the server registered. `Renewed(s)` are the clients whose
registration the bridge has answered since the server read its own answer: they count as
registered, or their coroutine is about to say so. `Standing(s)` says that while the server's
registration lives (it is waiting for its stream, or has it open), all of them are registered
at the server's place, and until the stream protects them none is older than the server: so
whatever unregisters one of them, by name, by place or for its age, unregisters the server
too. `InPlace` says that server and coroutines agree about the place, without which an answer
could come from another one; `StagesFit`, that who is being disconnected has left;
`NumbersAreOne` is where the single player comes in. The order of ages is the one thing
presumed of time, and it stands in the model (`Ages`).

### SourceWritesProofs

| Theorem | Property |
|---|---|
| `WritesAreTyped` | `SourceTypeOK` |
| `LeaseIsHeld` | `HeldAtRename` |
| `NoSaveIsLost` | `NoLostUpdate` |

`HeldInv` is the types, `HeldAtRename` and `Alone`: between its last check and its rename no
other call of the process is in the guarded section. So nobody can take the lease in that
time (`NotReclaimable`): its process is up, and only a call of the same process could take it
for an orphan. `PlanInv` adds what a call may rely on: files and plans are of the past, so
that the identity of the file tells whether it was replaced (`FilesPast`), and after its
second comparison the text is what the call planned against unless the identity says
otherwise, or an editor has saved in the window the code admits (`Compared`).

### PlaytestGuardProofs

| Theorem | Property |
|---|---|
| `GuardTypes` | `GuardTypeOK` |
| `SavesAndStartsExclude` | `SavesAreBarred` |
| `StartsFindTheirScripts` | `StartsAreSynced` |

The types need `Room`: the ledger together with the saves under way stays within
`MaxEntries`, so that the save that ends always finds a place. Exclusion goes both ways and
is inductive only so: a start that validates or is queued keeps new reservations out, and a
reservation keeps new starts out. For `StartsAreSynced`, `SyncInv` says of a validation that
no saved script has been forgotten (`NoneForgotten`: it is in the ledger, or its save is just
ending), that it takes every entry of its window, each once, and that what it has read is
still in Studio, unless Studio's copy has changed since (`Sound`).

### SourceAuthorityProofs

| Theorem | Property |
|---|---|
| `AuthorityTypes` | `AuthTypeOK` |
| `PromotionIsPlain` | `PromotedIsPlain` |
| `NoOldMap` | `MapsAreCurrent` |
| `NothingTakesEffectLate` | `NoLateEffect` |

`AuthInv` is the types, `PlainPrimary`, and for every process that its copies agree: an
uncertain operation is its last one, made from the map it keeps (`LastOperation`); it asks
only about that one (`AskedIsPending`); one call of it at most is on its way, being prepared
or running (`OneInFlight`); a scope has the map of the operation it last applied
(`ScopeIsCurrent`), the client keeps what was acknowledged (`KeptIsCurrent`), and a reply is
the last word about its operation (`ReplyIsFinal`). Late calls are harmless because an
operation number the scope has passed is refused, which is what `ScopeIsCurrent` is for.

### RunRecordsProofs

| Theorem | Property |
|---|---|
| `StoreIsLoadable` | `AlwaysLoadable` of `StoreSpec`: a store that saves whatever it is given |
| `SavedIsLoadable` | `AlwaysLoadable` of the application |
| `RecordsTypes` | `RecordsTypeOK` |
| `HoldsStayExact` | `HoldsAreExact` |
| `NoneRecordedTwice` | `RecordedOnce` |
| `NothingIsLost` | `NothingLost`, under `Quiet` |

`AlwaysLoadable` becomes inductive as `StoreInv`: from the moment all chats are written
until the manifest is, the chats of the workspace that is being saved are there as well.
Collecting keeps it because what it removes is named by neither manifest
(`RemovingKeepsLoadable`); every step of the application is a step of the store or leaves
it alone. `HoldsAreExact` becomes inductive as `HoldsInv`: it is taken one run and one key
at a time (`Exact`, equivalent by `ExactHolds`), with the types of what it mentions, and
with `Fresh`: a run not yet begun was not cancelled, and a start that looks for a place
still has the one it asked for, so that finding one adds a key and replaces none.

`OnceInv` adds to `HoldsInv` the types of journal and workspaces, and of every copy of a
workspace there is (on the disk, being saved, waiting, shown) that it has a run at most once
and none that has not begun (`Once`); what the window follows it has not recorded
(`Unrecorded`); the journal knows only runs that have begun, and is not written before
storage is initialised (`Begun`, `Recovering`). All of this holds without `Quiet`. `KeptInv`
adds that a run works only once its first snapshot is on the disk (`Worked`, `Opening`), that
what a window has recovered has every run of the journal (`Merging`), and `Growing`: each copy
has what the one before it has (saved, waiting in order, shown), so that a save never takes
anything back. For that a window must not load while saves wait (`Loading`): it is what `Quiet`
is for, and what fails in `reopened`.

### Model-checked only

The liveness properties, the fairness they rest on, and anything that mentions `ENABLED` are
out of the prover's reach and stay with TLC: `RequestsAreTaken`, `AnswersArrive`,
`PluginsConnect`, `EachPlayerRegisters`, `LeaseReturned`, `NothingStaysBarred`, `PortIsTaken`.

## 5. Not modelled, and what could follow

* The run engine and its approvals (`run-engine.ts`, `agent-loop.ts`): one run is one loop
  that waits for one thing at a time; an approval is looked up and answered in one turn.
* The supervision of the server process (`mcp-server-process.ts`): its steps depend on
  operating system processes and probes of the port. A stop, or a stop and a new start, during
  an await of the loop leaves the old loop running beside the new state; that two servers
  started so do not both own the port is `PromotedIsPlain`, what the supervisor then believes
  of them is not covered.
* Managed Studio instances: starting, finding and ending processes.
* The Rojo project model (`sourcemap.ts`, `structure.ts`, ...): sequential code over files.
* Framing of the event stream and joining of chunks: which chunks arrive in which order, and
  how many sets are open. That a request is thrown away for it, or for a frame that cannot be
  read, is in `StudioLink` (`Discards`).
* The alias table of places, which is consulted in one turn.
* Plugin handlers, the tool catalogue and its argument checks, animation, rig and image
  code, adapters to model providers and to Blender, the interface beyond what it saves and
  follows of runs, the evaluation harness, scripts and assets: input and output, numeric or
  sequential code, or nothing that outlives a call. They are the larger part of the
  repository's lines.

What could still be proved, beyond the properties: `KnownWhileOpen` for several players, as
long as a player's late registration finds no other client unprotected; `NothingLost` for
windows that are opened while saves wait, of the runs those saves do not record; and the
promise for several windows whose places stay apart.

## 6. Findings

`timeout`: the comment on `REQUEST_TIMEOUT` (`packages/core/src/bridge-service.ts:37`) says of a
plain timeout that no Studio session took the request and "Nothing ran". The error is chosen
by whether the request is claimed when the timer fires, and `releaseDeliveryClaims` removes
the claim when the stream breaks. If a plugin reads a request and starts it, its stream
breaks, and the request expires before the plugin is back, the caller is told that nothing
ran. The run's trace is exactly that.

`number`: `studio-plugin/INSTALLATION.md` (line 135) says that the play server registers "a
`client-N` for each player that joins", and the bridge's comment on duplicate tuples
(`bridge-service.ts:406`) that they are not reachable through normal Studio usage. An entry
remembers the number it was given and asks for exactly that one when it registers again
(`ClientBroker.ts:358`). If the bridge has dropped it meanwhile and a player who joins is
quicker, the bridge gives that player the lowest unused number, which is the remembered
one. The first player's registration is then refused as a duplicate on every retry, for as
long as the other stays: the holder is protected by the server's own stream, and the broker
never falls back to asking as `client`.

`linked`: `rojo/primary-client.ts` runs the source calls of one client in turn and delegates
them while it has the intent to. `invoke` sets the intent when a link is queued (line 101);
an unlink that was queued before it clears it when it is acknowledged (line 53), and the
link then binds the place. The client is bound without intent: it runs its source calls by
itself, with no binding of its own, so that they are not saved to the project, against what
`mcp-compat.ts:94` says of edits on a linked place; and when the primary goes, it tries to
take the port and gives it back again and again, because `server.ts` checks the bindings only
after the bind (lines 130 and 137). The run finds it with two calls and no failure.

`reopened`: `README.md:49` says that chats are saved on the user's computer, and
`electron/main.ts:450` calls the save of a closing window a "last-chance renderer flush". On
macOS the application outlives its window. A new window loads the workspace (`main.ts:394`)
as soon as the store is free, even if saves of the old window still wait in `saveQueue`;
its own first save comes behind them and puts back what it loaded. If one of the waiting
saves recorded a finished run, the journal of the run has been removed by then, and its
message is lost. It takes a window opened again while a save is going on and another
waits, which a large workspace or a slow disk makes possible.
