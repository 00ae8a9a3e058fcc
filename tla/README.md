# herdr-remote: TLA+ models and proofs

herdr-remote puts the terminal of a workstation's Herdr session into a browser. A **relay**
(`packages/relay/src`) stands between **workstations** and **browser windows**; on each workstation a
**host connector** (`packages/cli/src/connector`) keeps a WebSocket to the relay and runs one PTY for each
window; a **supervisor** (`packages/cli/src`) keeps the relay and the connector running; the **web client**
(`packages/relay/web/src`) is the terminal in the browser. This directory holds the models of that program,
the configurations that check them on small instances, and proofs for every size of some of it.

## 1. Inventory

| Component | State it keeps | Operations | Talks to |
|---|---|---|---|
| Relay registry (`server/sessions, host-channel, client-channel, maintenance`, `relay-server`) | hosts, windows, streams; per host its socket, grace timer, v2 index table and the Set of its windows | upgrade, hello, hand-off, close, grace timeout, exit, sweep, revoke, shutdown | connector and browser over WebSockets |
| Relay message paths (`transport`, `client-channel`, `host-broadcasts`) | caches of palette, font, agent status | forward output and input, broadcasts | both |
| Authentication (`auth-store`, `requests`, `http-api`, `state`) | hosts, devices (on disk), pairing codes and attempt windows (memory) | enrol, pair, authenticate, revoke, cleanup | HTTP, the registry |
| Paste, file and font relays (`paste-proxy, fs-proxy, font-proxy`) | transfers in flight for each window | begin, chunk, ready, error, release | the connector's `pasted-files, host-files, font-server` |
| Connector link (`host-connector, main, wire`) | socket, reconnect and keepalive timers | connect, close, stand down, stop | relay, sessions |
| Connector sessions (`connector/sessions, pty-session, herdr-server`) | streams with a PTY, index table, held and probed starts, one shared launch, the fast-failure count | start, stop, exit, launch Herdr | relay through the link; Herdr's socket |
| Connector lock (`connector/lock`) | the lock file | acquire, release | other connector processes |
| Supervisor and services (`supervisor, service, runtime, lib/process`) | child and timer of each service; `runtime.json` | start, reclaim, restart, stop; `start`, `pair`, `stop` commands | processes, the file |
| Agent watch (`agent-watch`) | subscription, poll and debounce timers, the read in flight, the summary last sent | start, stop, read, report | Herdr's API; the relay through the link |
| Tool forwarding (`tool-forward` and the shims) | pending clipboard reads | forward, answer, time out | shims on the workstation; windows |
| File dialog and downloads (`fs-proxy`, `host-files`, `web/src/features/files`) | the listing shown and the one picks are looked up in, requests under way, transfers | list, pick, preview, rename, delete, download by slices | the window, the relay and the connector |
| Browser connection (`web/src/connection`) | socket, backoff, heartbeat and probe timers, refusals, the state shown | connect, wake, close, pair, switch profile | relay |
| Updater (`updater`, `update-command`, `lifecycle`) | the package, its stage and the previous release; which services ran | download, swap, undo, copy, npm, restart | the file system, npm, the services |
| Terminal font (`web/src/features/hostFont`, `font-proxy`, `font-server`) | the font told of, its status, calls and requests under way, characters held | evaluate, accept, decline, load, cut, draw, refresh | window, relay and connector |
| Browser features, predictive echo, TUI, keep-alive managers, packaging | | | |

**What is hard here.** Each process is an event loop, so a handler is atomic, and what is hard lies between
handlers: (a) *ordering*: a replaced connection's close, messages and timer arrive after its successor is
installed; hellos arrive on sockets that are already closing; stops and exits cross on the wire;
(b) *stale state across an await or timer*: a Herdr probe or launch that ends after its window or its connection
went away, a reconnect timer after the host returned; (c) *several processes and one file*: the lock file and
`runtime.json`; (d) *crashes* that leave processes, lock files and ledgers behind; (e) *liveness*: a window
that waits for a host or a PTY, a service that died, a link that fell silent; (f) *limits and counters*: maxHosts, windows per host,
v2 indices that wrap, devices of a workstation; (g) *partial failure*: a rename that fails half-way through a swap,
a slice that never comes. `PROJECT.json` lists each such place at its line, with the properties that cover it.

**What makes each component correct.** *Registry*: records and windows point at each other, streams and indices
belong to live sessions on the current connection, the connector runs exactly what is registered, a replaced
connection's events leave the others' windows alone, waiting ends. *Authentication*: a revoked or expired device is refused, a code pairs once,
limits hold. *Transfers*: each is settled once and its slot given back. *Sessions*: input reaches its own PTY,
nothing outlives its window, every window hears. *Lock*: a connector that holds it keeps it alone. *Supervisor*: one copy of each service,
none lost from the ledger (section 2 names the exception to both), none that died stays dead, none that stood down restarts. *Agent watch*: what was sent is what
Herdr has, when nothing is under way. *Links* of connector and browser: one socket, what is shown is so, a silent link is noticed,
and an end that is meant is kept. *Files*: the window acts on the entry it shows; a transfer ends. *Font*: a window draws with the font of now. *Updater*: whole releases, and the services back.

In some places the code does less than a comment says of it: `lock.ts:1`, `runtime.ts:103-104`, `host-files.ts:8-11`,
`update-command.ts:135`, `release-install.ts:123-124`. The models contain what happens there; each property says what is left of the promise, and where it ends;
section 2 tells it under each module.

## 2. Modules

| Module | Models | Abstract specification | Theorems |
|---|---|---|---|
| `Relay` | the relay's registry | implements `Attachment` (proved) | `RelayProofs` |
| `Attachment` | what the relay promises, without sockets, records and timers | | |
| `HostSessions` | connector sessions, the wire and the relay's half of it, Herdr | | `HostSessionsProofs` |
| `HostLock` | the lock file | | `HostLinkProofs` |
| `Services` | supervisor, service commands, `runtime.json`, the processes | | `ServicesProofs` |
| `AgentWatch` | the connector's watch over Herdr's agents | | |
| `HostLink` | the connector's link to the relay, and the watch that it starts and stops (extends `AgentWatch`) | | `HostLinkProofs` |
| `BrowserLink` | a window's link to the relay, with the relay's side of it | | `WindowProofs` |
| `FileTransfer` | the file dialog, the relay's transfers and the workstation's files | | `WindowProofs` |
| `HostFont` | the workstation's font in a window, the relay's gate and the workstation's font server | | `TransferProofs` |
| `AuthStore` | workstations, pairing codes, devices and the file they are saved in | | `AuthStoreProofs` |
| `ReleaseInstall` | an update of the installed package | | `ReleaseInstallProofs` |
| `PasteUpload` | an upload in slices: the window's sender, `paste-proxy`, the connector's `PasteUploads` | | `TransferProofs` |

`MC*` modules name the model values; each `.cfg` is one run. Operators headed *Mutants* in a module are changed
forms of single definitions; they take no part in the specification, and serve to show that each property notices the fault.

### Relay

*State.* A connection (`WebSocket`) is used once, so a `RelayHost` object is named by the connection `h` whose hello made
it: `host[h]` has its fixed fields, `wired` (has `host.ws`), `reconnecting`, `timers`, `indexTable` and `nextIndex` the others.
`hosts`, `clients`, `streams` are the maps of `RelayContext`. `members` has the Set *objects* behind `host.clients`, because a
hand-off gives the new record the old one's Set: the aliasing is part of the model. `hostSock`/`windowSock` are `readyState`s:
a socket the relay closes stays "closing", and still delivers messages, until its close event. `running` is what the connector
at the other end was told to run, `toldCount` and `told` are the last messages of their kind.

*Actions.* One for each handler, the whole of it: `HostHelloNew/Replace/Handoff` are the three ways of
`handleHostConnection`'s hello; `HostClosed` its close handler with `detachHost` or `beginHostReconnect`; `GraceTimeout` the timer;
`SessionExit` and `HostShutdown` messages; `WindowHello`, `WindowClosed`, `SlowWindow` (a full or failing socket),
`SendFailed` (`host.ws.send` throws) those of a window; `RevokeDevice`, `Sweep`, `Close` the operator's and the timers'.
`Detach(W, H)` is `detachClient` on each window of W and then `detachHost` on each record of H, and takes a waiting
host with its last window. The numbers in hellos that pass authentication are chosen freely: capability flags, device, host id.

*Refinement.* `Attachment` knows workstations that are down, up, waiting or stalled, and windows that are attached, served or gone.
`StateOf`, `AttachedTo`, `Served` and `LeftForGood` are the mapping. "stalled" is the hand-off to a connection that is already
closing when its hello is handled: the record has a socket, its windows have no session, and no grace timer runs until the close
event comes. It looks like waiting, but a `Sweep` that takes its last window leaves the record registered (`detachClient` removes
an emptied host only while it is reconnecting), which a model with two workstations and then the proof of the refinement came upon.

*Assumed.* Stream ids (random) are unique: `<<h, c>>` names one. A window's device decides its host. Frames, palettes, fonts
and scrolling are payload.

### HostSessions

*State.* `byStream, streamIndexToId, waitingForHerdr, probingStarts, herdrLaunch (launch, askers), fastFailures` are the fields
of `Sessions`. `toHost` and `toRelay` are the two directions of the WebSocket; `open`, `index`, `heard` the relay's and the
window's end. `herdr` is what a probe would meet: no socket file, a stale one, a running server, somebody else's.

*Actions.* `Receive` handles `session_start`, `session_stop`, `herdr_start` to the first await; `ProbeAnswered`/`ProbeDone` are the two
ends of the probe, so anything may come between; `LaunchStarted`/`LaunchFailed` settle the shared launch and every `startHerdrFor` that
awaits it; `PtyExit` with `reportExit`; `LinkLost`, `Disconnected` (the close event, `stopAll`), `Reconnect`. Left out: output
batching, flow control, sizes; they change no session.
`Init` may have the launch that `autoStart` makes under way already.

*Remark.* That launch has no asker, and `startHerdrFor` serves the windows held by the launch it awaits: a window held
before the connector was started anew waits for its own request, although `protocol.md:461-463,479` says that every waiting
window gets its session once the socket answers (`host-connector.ts:180`).

### HostLock

One action for each call into the file system, by process: `Open` (`wx`), `Write`, `ReadOwner`, `Remove`, `ReadBeforeUnlink`, `Unlink`, and
`Die` anywhere. All processes contend: any may start while others take, hold or give up the lock.

*What holds and what does not.* "One host connector per workstation" (`lock.ts:1`) is not what the code ensures. A second process that reads
the file between its creation and its content takes it for a dead owner's and removes it (`lock.ts:33-54`), and both come to hold the lock;
so do two that both found a dead owner. What does hold is `HeldLockIsKept`: a process is *midway* when its next call relies on what an earlier one found (it
created the file, or is about to remove it); once one process holds the lock, its file is whole and in place and nobody is midway
(`Settled`), it keeps the lock alone and the file stays, however many contend, are refused, stop or die, until it stops or dies itself.

### Services

*State.* `phase, child, timer, stoodDown` are the supervisor's; `ledger, supPid, field` are `runtime.json`; `proc` is what became of
every process ever started (a start token tells a pid from its later owner, so a process is named by service and count); `cmd[c]` is
what the `startServices` of command `c` has read and not yet written back.

*Actions.* `Launch`/`Reclaimed` are `start` before and after the strays' deadline, `ChildExit` and `Restart` the exit handler and the
timer, `Stop`/`Stopped` the stop and its grace period, `Crash`; `StartRead`/`StartServices`, `StopServices` the commands; `Die` the end
of a service process. Backoff and grace lengths are left to the order of events.

`startServices` is run by `start`, which leaves the services to the keep-alive manager when one is in use, and by `pair` (`service.ts:293-306`, called by
`cli.ts` and the TUI), which does not; so a start command may begin, and end, at any moment of a supervisor, of `StopServices` and of other start commands.
`cmd[c].alone` notes that nothing of the kind has begun since it read.

*What holds and what does not.* A start command that is not alone replaces the file by the copy it read before it spawned (`service.ts:162-163,187`). What the
supervisor recorded in between is lost, although `runtime.ts:103-104` keeps the ledger "append-only (minus dead entries) precisely so no writer can lose another
writer's pids"; and beside a supervisor that still waits for the strays it starts a second copy, which `lifecycle.ts` is there to keep from appearing. `LedgerKeeps`
says that this is the only way: a live process that is on the ledger, or is being started, is on it after every step, except what a start command that
was not alone did not read. The auxiliary `apart` has the processes such a command started or dropped; `OneOfEach` says that of the others no service has
two, through crashes, strays, reclaims and commands.

*Remark.* A spawn that emits `error` and no `exit` (outcome "errors" of `SpawnOutcomes`) leaves `entry.child` set, and the service
is never started again (`supervisor.ts:246`); with that outcome `RestartPolicy` fails. The run leaves it out.

*Assumed.* At most one supervisor at a time (the service manager's business), and that a supervisor event with the spawn and
the update of `runtime.json` it makes is one step, as are the reads and writes of `persistPids` and of `stopServices`: only `startServices`
spawns between the two. A process that ignores SIGTERM counts as told to end.

### PasteUpload

*State.* `phase` is the window's view of each upload (at most one of a window is "sending", `activeUploadTaskIdRef`); `reading` the
slices whose read has not ended; `slots` and `requested` the relay's `client.pasteUploads` with their requested sets; `uploads,
pending, nextToRequest, received` the connector's; `file` the slices on disk; `toHost` and `toRelay` the connector's WebSocket.

*Actions.* `Begin`, `ReadDone`, `ReadFailed`, `Stall`, `WindowGone` of the window, with the relay's handler of what it sends;
`HostReceive` (`begin`, `chunk`, `drop`, each with the sweep it starts with), `PtyExit`; `RelayReceive` with the window's handler of what
is forwarded; `LinkRestarted`. A sweep may abort any upload that its window is not sending: a slice resets the ten minutes, and a
window without one gives up after thirty seconds.

*Assumed.* What passes between window and relay is handled at once; a slice waits in the window anyway, until it has been read.
Left out: the paste in one message, sizes and names, and the pruning of the directory when it is full.

*Remark.* The window takes any `paste_error` of its stream for the upload in flight (`TerminalContext.tsx:234`, `clientAdapter.ts:151`),
although errors carry the `requestId` (`protocol.md:566`): the error of an upload given up earlier ends the next. A stream that
ends with `session_exit` leaves its partial files until a sweep (`pasted-files.ts:412`).

### AgentWatch and HostLink

*State.* `sockets` are the connections the connector ever dialled, each with its `readyState`, `isAlive`, what the relay at the other end
takes it for (`peer`) and the messages on their way; `ws` the current one, the three timers, `clientCount`, `legacyHeartbeat`,
`authFailure` the fields of `HostConnector`; `exit` how the process ended. `pollTimer` to `lastSummary` are the fields of `AgentWatch`;
`herdr`, `snapshot`, `event`, `unseen` what Herdr has, the answer on its way, the event on its way, and whether the summary changed unheard.

*Actions.* `ReconnectFires`, `Opens`, `Receive` (each message), `KeepaliveTick`, `Pong`, `Drops`, `Stop` of the link; `PollTick`, `DebounceFires`,
`ReadEnds`, `ReadFails`, `SubscriptionStarts`, `SubscriptionLost`, `EventArrives` of the watch; `Relay*` the other end. `main.ts` calls `start` once, which
is `Init`. A relay that does not know `clientCount` is the peer "old", with `None` for the count. `stop` and `onFatal` end the
process in the same step, so that the late close of an older socket (`host-connector.ts:266`) is only guarded against: `OneLink` shows
there never is one. A link that falls silent before `host_ready` has no keepalive yet; there TCP gives up.

### BrowserLink

*State.* `sockets`, `ws`, the timers, `authFailure`, `temporaryFailure`, `rejectedByRelay`, `isManuallyClosed` and `state` are fields of `RelaySocket`;
`dialledBy` remembers what asked for the last dial. *Actions.* Those of the user (`UserConnects`, `SwitchProfile`, `UserDisconnects`), of the page (`Wake`, timers),
the messages with their handler, and the network. A message is heard in the step that says it: nothing else of the window reads
the socket, and what is lost with a socket is lost either way. How long a timer takes is left to the order of events.

*Remarks.* With `autoReconnect` off, a temporary refusal shows "reconnecting" with nothing under way (`StateTells` speaks of
`autoReconnect`). After an authentication error a link that goes silent before its close is dialled again by the heartbeat's probe. A
`paired` that is lost leaves a spent code.

### FileTransfer

*State.* `view`, `lists`, `previews`, `mutation`, `download` of the dialog; `fsDownloads` and `fsChunkRequests` of the relay's window; `listing`,
`reading`, `transfers` of `HostFiles`; the two directions between them, with the relay's forwarding part of the handler that
answers. A directory is named, its entries are not: a pick is right when it is looked up in the listing the window shows. A pull and a
slice do not carry an index, only whether they are the last: a window has one of them on its way at most (`PullsInTurn`).
A download has the timer that runs for it: `ready` until it is announced, then that of the slice it waits for, set anew by each slice
(`ReadyTimesOut`, `SliceTimesOut(k)`). The auxiliary `alone` says whether the listing last asked for had no other listing or change beside it, and
`sure` in a request that the rows picked from were listed so.

*Assumed.* The relay forwards at once; its throttle of listings is a free choice to drop one; the loss and
return of the window's own link is left out.

*What holds and what does not.* The dialog may be opened anew or retried (`FileListModal.tsx:99-101,275`) beside a listing. Then a late listing moves
the workstation's listing and not the window's (`host-files.ts:200`), and what is picked next is looked up elsewhere, although the comment at 8-11 says a pick is
looked up in what was shown. `ShownIsMeant` says that this lasts until the next listing that is asked for alone, and no longer.

*Remarks.* A workstation that cannot read a slice keeps the relay's slot thirty seconds. Abandoned
transfers are swept when another request arrives, not after ten minutes as `protocol.md:750` has it. `clientAdapter.ts:151` drops the `requestId`, so that any
`fs_` error fails every request under way.

### HostFont

*State.* `state` is `HostFontState` and `covered, asked, wanted, batchTimer` the refs of `useHostFont`; `tasks` are the calls of `evaluate`, `load`,
`prefetchGlyphs` and batches under way, each at the await it waits for (a call is `fresh` while its generation is the current one, so
that no number grows). `pendingSlices` (its `pendingRef`) and `timers` are those of `useHostFontTransfer`: the timer of a slice removes the entry of its key, whoever
made it. `registered` and `drawn` are what the page added to `document.fonts`, `kept` the files on the device. `wire` has the window's
requests in the order the workstation answers them.

*Actions.* One for what follows each await. What runs in the same task as the settling of a promise (`Settled`) runs before anything else.
`CutsAdded` goes on to `load` in the same task, so before React renders: `load` then looks at the state of before. `Accept` is the answer at the prompt,
in another tab, or a sync; `Answer` the workstation's handler with the window's. `astray` is auxiliary: the font of a call that loads
although the window has been told of another since. *Bounds.* `Ids` calls, `MaxReports` tellings, `Limit` requests.

*What holds and what does not.* Of the nine awaits after which a call asks whether it is out of date, the `catch` of `evaluate` (`useHostFont.ts:283`) does not: a kept
file that the browser refuses, of a font with no large one to wait for, lets the load of the older font override the newer. The model has that path, and
`FontIsCurrent` says that it is the only one, that it takes such a font, and that what is drawn with is registered even then.

*Assumed.* Otherwise React has rendered before the next event. A request frees its place at the relay with its answer, not by age.

*Remarks.* Because `load` looks at the state of before, held cuts whose file is missing are registered, but `glyphs.alias` is set back to null, which
"The FontFace family the cuts are registered under, once one is" (`hostFontState.ts:56`) should not be: they are not drawn with until the next
cut. The batch timer keeps the source it was set for, so a font that changes within its 80 ms has the relay refuse
the batch, which fails every request under way. Characters whose answer was dropped stay in `asked` and are not fetched again.

### AuthStore

*State.* `hosts`, `devices`, `pairings`, `lastDeviceSaveAt` are the maps of `AuthStore`, `disk` the devices in the file; `now` the clock; `used`,
`revoked`, `pushedOut` history that only properties read. `lastSeenAt` and `expiresAt` are set together and are one field, `seen`.
*Actions.* One for each method that changes state, with the cleanup and the save it makes; `Restart` loses what memory had.
The file is replaced by a rename, and a save that throws ends the relay: both are `Restart`. Attempt windows (`requests.ts`) only refuse and are not modelled.

*Remarks.* A hello whose code completes a pairing may still be refused afterwards (`client-channel.ts:107-126`), and the device it made
may have pushed out one in use. A device pushed out or expired keeps the windows it has; only revoking ends them.

### ReleaseInstall

*State.* `target`, `stage`, `previous`, `npmStage` are directories, as the release of each file of the package and the set of modules nested in it;
`pc` where each updater is, `todo` what it has left to look for, to move or to copy, `carried` and `reading` what `carriedModules` has found and whose manifest it reads
next. `Direct` and `Needs` are who depends on whom. *Actions.* One for each call into the file system: the look-ups before the swap one by one (`ReadManifest`, `Resolve`, `LookUp`,
`ReadNeeds`), those of `swap`, `replaceTree` and their undoing; `Npm` (external: it replaces the package as a whole or not at all) and the stage it fills where Windows holds the package
(`EmptyNpmStage`, `FillNpmStage`); `Begin`, `Restart`, `RestartFails`, `StartAgain`, `StartFails` what `runUpdate` and `whileServicesStopped` do to the services;
`Die` anywhere. `MaxFaults` and `MaxDeaths` bound the calls that fail and the processes that die.

*What holds and what does not.*

* "No process ever sees half a release" (`release-install.ts:123-124`). Where directories can be renamed nobody finds the files of two. But when an update renames the package away
  while another looks through it for its modules (`release-install.ts:62-93,190-197`), the other finds none and installs a release without them. `crossed` notes that this
  happened; `ReleaseIsWhole` says that otherwise the modules are complete.
* "Nothing was replaced, so the old release starts as it was" (`update-command.ts:135`). A copy on Windows that breaks off leaves parts of two releases, which does not start. And
  the removal of what is left in npm's stage (`in-place.ts:78`) is outside the `try`: where it throws, `runUpdate` (`update-command.ts:132`) ends with an exception and the services it stopped stay down ("thrown").
  `ServicesComeBack` speaks of these two cases and of a start that itself fails ("down") by name, and says that in all others the services are back.

*Remarks.* With two failing calls, the undo and then the removal of the stage, modules already moved are deleted with the stage, and
the release left in `previous` lacks them (`release-install.ts:152-155,205`). A stage or `previous` of a process that died is never removed by a later
update: its name has the pid. Between the two renames there is no package: a process that dies there
leaves none, and another updater's restart may meet that.

## 3. Runs

| Run | Question | Bounds | Why they are enough |
|---|---|---|---|
| `relay_safety` | does every structure of the registry agree with every other, in every order of events, and does the relay implement `Attachment`? | 1 workstation, 2 connections, 2 windows, 2 indices, 1 pending handshake | a hand-off needs two connections; two windows tell "this one" from "all", and use up and wrap the index table |
| `relay_live` | do the limits hold and does revoking end a device's windows (`AdmissionHolds`), does a window without a session get one or get let go, do events of one connection leave another's windows alone (`EventsStayApart`)? | 2 workstations with a device each, 2 connections, 1 window, maxHosts 1, sends may throw, fairness | a second workstation is refused, or takes a place that came free; both connections may be of one workstation, so waiting, return and timeout are there |
| `host_sessions` | is input routed right, is nothing left behind, is every window answered, does a window hear in the end? | 2 windows, 1 index, limit 2 of fast failures, fairness | the index of the first is given to the second; two starts are held together |
| `host_lock` | does a settled holder keep the lock, and do dead owners give way? | 3 processes that contend, fairness | a holder, one that comes, one that gives up or died at any call |
| `services` | is there ever a second copy, is a pid lost, does what stood down stay down and what died come back (`RestartPolicy`)? | 1 service of 3 processes, 2 supervisors, spawns that throw, 1 start command beside them, fairness | crash, stray, reclaim, restart; a stale write-back. Services have nothing in common but the file, which the proofs cover for any number |
| `paste` | is a saved file whole, is a pull or a slot ever lost, does an upload end without its stall timer? | 1 window, uploads of 2 and 3 slices, 1 slot, 2 slices pulled at a time, fairness | slices arrive out of order and are pulled in two rounds; the second upload is refused, or runs beside what the connector still has of the first |
| `host_link` | is there one socket, does the watch run only while windows are counted, is a quiet watch up to date, does the link come back? | 2 sockets used again, 1 window, 2 summaries, 2 messages on their way, fairness | a socket closing beside its successor; a summary that changes and changes back, before, during and after a read |
| `browser_link` | is there one socket, is the state shown so, does nothing dial uninvited, does the window heal? | 2 sockets used again, fairness | timer, wake-up, probe and close of one socket meet the next |
| `file_transfer` | is what is picked what was shown, is every pull served, does a download end? | 2 directories, 3 request ids used again, 1 transfer of at most 2 slices, a dialog opened anew or retried at any moment, fairness | a late answer meets the next request; the relay's only place is taken; a slice's timer is set after another's |
| `auth_store` | does a device in use stay paired, does one that is gone stay gone, which one gives way? | 2 workstations, 3 devices, 1 code, 2 devices each, time to 6 | a device more than allowed, two saves throttled, expiry at the last instant, a restart between any two steps |
| `release_install` | is half a release ever seen, and do services come back? | the command and a settings screen, 2 files, 2 modules (one needed by the other only), 2 newer releases, 1 failing call, 1 death | a swap meets another's look-ups, swap and npm; the failure may be of a move, of a rename, of the undoing |
| `host_font` | is what a window draws with the font it was last told of, and does every check and transfer end? | 3 fonts (a file and a large font; another large font; a file the browser may refuse), 2 characters, 2 calls under way, told twice, 2 requests on their way, fairness | the second telling, of the other font or of the same, meets every await of the first; common and rare characters are fetched apart |

Each module has a `TypeOK`, proved for every value of the constants: as part of the invariant in `Relay`, `AuthStore`, `HostSessions`, as what the proof rests on in `HostLock` (`LockTypeOK`),
`HostLink` (with that of `AgentWatch`), `PasteUpload` and `BrowserLink` (with types of the messages that are sharper still), by a theorem of its own in
`FileTransfer`, `HostFont`, `Services` and `ReleaseInstall`. None is listed in the configurations. Each inductive invariant of section 4 was checked with TLC on such constants before it was proved.

**Deadlock** is checked in `auth_store` and `browser_link`. Elsewhere connections, processes, streams, uploads and updates are used up,
and nobody is obliged to connect, so that the system may rightly come to rest. What must not get stuck is stated as liveness.

**Symmetry** permutes connections and windows in `relay_safety`, devices and workstations in `auth_store`; both check safety only.

**Fairness.** *Relay*: a socket in "closing" gets its close event (the ws library ends the wait for the peer after 30 seconds), and a
timer that is set fires. Nobody is assumed to connect, to send, or to come back. *HostSessions*: what was sent is read, the close
event comes, a probe answers (it has its own timeout). A launch need not end, nor Herdr start. *HostLock*: a process that is
taking or giving up the lock goes on or dies. *Services*: exit events and restart timers fire; a spawn that is retried again and
again succeeds at last (strong fairness of `Revive`; without it a service that cannot be started would be the counterexample).
*PasteUpload*: what was sent is handled, and a read of a slice succeeds or fails. The stall timer is not relied on.
*HostLink*: timers fire and messages are read (weak); a dial that is repeated again and again opens, is registered and hears so
(strong: the network and the relay are back at last); a link that is silent is answered or given up by TCP. The
debounce sets itself anew at each event, so nothing is assumed of it. *BrowserLink*: the same of the window's dials, heartbeat, probe and
announced closes. *FileTransfer*: the timer of a download that waits for `ready`, and that of each slice, fires unless it was
cleared; no answer is assumed. *HostFont*: timers fire, and reads, writes and
registrations in the browser end. *AuthStore*, *ReleaseInstall*: safety only.

## 4. Proofs

Every theorem is about every value of the constants that the module's named assumptions allow (finite sets, `None` apart from
everything, at least one index ...), without bounds on windows, connections, devices, processes or messages on their way.

**`RelayProofs`**, the relay's registry.

* `TypeCorrect`: `Spec => []TypeOK`. The work is in `NextIndexType` (the round robin's result is an index, from the
  least-element principle on naturals) and in the three hellos.
* `RegistryHolds`: `Spec => []RegistryConsistent`. `RegistryConsistent` is not inductive: the code compares
  objects, so one has to know which records can still share a Set of windows and what a record that is no longer registered holds.
  `RecordsSound` says that, and `Reg == TypeOK /\ RegistryConsistent /\ RecordsSound` is inductive. `DetachEffect` and `DetachReg`
  carry the argument for every handler that detaches; each hello has a lemma of its own.
* `StreamsHold`: `Spec => []StreamsConsistent`, inductive beside `Reg` (`ReleaseStreams`, `DetachStreams`, `HelloStreams`: what a
  release, a detach and each of the three hellos leave of the streams).
* `GraceHolds`: `Spec => []GracePeriod`, inductive beside `Reg`; `WaitingFacts` and `WaitingKept` say which facts of a waiting record
  a handler has to leave alone, `DetachGrace` and `HelloGrace` that they do.
* `OthersEventsStayApart`: `Spec => EventsStayApart`. A step of a connection that does not have a window's workstation, be it late, replaced or of another
  workstation, leaves that window its record, its session, its socket and its grace timer. It needs `Reg`: records may share a Set of windows, and
  only who is registered tells whose it is.
* `RoutingHolds`: `Spec => []IndexRouting`: a v2 index leads to the one window whose session carries it, through the wrap of the
  round robin, and an index not in use to none; by what `NextIndexType` says of the index given.
* `AdmissionIsKept`: `Spec => []AdmissionHolds`: `maxHosts` and the windows' devices, through every replacement and return.
* `HandoffKeeps`: `Spec => HandoffKeepsWindows`: a hand-off lets no window go and gives each a session if the new connection is open.
* `NoOrphans`: `Spec => []NoOrphanSessions` under `~SendMayThrow`. A `ws.send` that throws makes the relay forget a socket that is still
  open, to which it then cannot say that sessions stopped.
  The invariant is `OpenWired`: an open connection is the one its record has.
* `Implements`: `Spec => ImplementsAttachment`, the refinement, for every number of workstations. `StepKinds` sorts the handlers
  by what they do to records and windows (`Ends`, `Waits`, a hello, ...); each kind is then one abstract step or a stutter. It needs an
  invariant more, `Serving`: a window of a record with an open socket has its session on it.

**`HostSessionsProofs`**, the connector's sessions with both directions of its WebSocket: `SessionsHold` for the invariant,
`InputIsRouted`: `Spec => []InputRouting`, `NothingStays`: `Spec => []NothingLeftBehind`, `NoWindowForgotten`: `Spec => []EveryWindowAnswered`.
What connects the two ends is the order of what is on its way. `Sides` says that a window the relay let go has its stop in the queue
behind its start; `Apart` that of two streams with one index the stop of the first comes before the start of the second, wherever the connector is in
its queue; `Ended` that a stream whose exit is being reported has nothing left on the workstation; `Answered` that an open stream whose
start was read is worked on or has its last word, on its way or heard, with nothing after it that says otherwise.

**`HostLinkProofs`**, the connector's link and its agent watch: `LinkHolds`, `LinkIsOne`: `Spec => []OneLink`,
`RestIsFresh`: `Spec => []QuietMeansFresh`. `Present` ties the timers to the one socket; `Fits` says what can be on its way on it
(the answer to the hello comes first, and only a relay that counts windows sends counts), without which `client_count` could start a watch
nothing stops. `Reported` makes freshness inductive: either something will still read Herdr (a poll, an event, a debounce, a read marked
`pending`), or the read in flight or the summary last sent is what Herdr has.

The lock file is in `HostLinkProofs` too, for any number of processes, contenders and deaths: `HeldLockKept`: `LockSpec => HeldLockIsKept`. `RivalLeavesSettled` is
the argument: a contender finds the holder's file and that its owner lives, one that gives up finds that the file is not its own, and neither gets midway. It needs no
assumption on who takes the lock when; section 2 says what it does not promise.

**`WindowProofs`**, a window's link: `LinkHolds`, `OneLinkPerWindow`: `Spec => []OneWindow`, `ShowsTheTruth`: `Spec => []StateTells`,
`OnlyThePersonDials`: `Spec => NoUninvitedDial` (once the socket is gone; one that is still there and silent is replaced by the probe, as section 2 remarks). They need `Wanted`: while there is a socket nobody has disconnected and the relay has not
refused the window, and a dial is set only while nothing rules it out.

The files dialog is in `WindowProofs` too, for any number of directories, requests, transfers and slices:

* `ShownIsMeantHolds`: `FilesSpec => []ShownIsMeant`. It is the head of a queue that the property speaks of; the invariant, `FilesInv`, speaks of all that is on its way:
  `PicksFirst` that no listing goes before a pick that is `sure`, and none is read meanwhile, `Meant` that such a pick names the workstation's listing. A
  listing asked for alone gives both: while it is the only one, `Orderly` says that of listings, changes and reads one at most is
  anywhere (`OneErrand`), that the rows shown are the workstation's (`RowsStand`) and that an answer on its way tells them (`Told`).
* `PullsServedHolds`: `FilesSpec => []PullsServed`. A download that was not announced (`Unannounced`) is the newest
  that was asked for or is on its way back, and no pull or slice of it is anywhere; one that was (`BeingServed`) has no download
  asked for or announced after it, so that neither the relay's cap nor a sweep is about to take its place: it is
  registered, and staged or its end is on the way.
* `PullsInTurn`: `FilesSpec => []SlicesInTurn`. Of the download under way one pull or slice at most is on its way, in one direction or the other,
  it is marked the last exactly when the window waits for the last, and none past the total is asked for: of the two reasons for which the relay
  refuses a pull (`fs-proxy.ts`, `requestFsChunk`) the second never arises.
* `FilesTypes`: `FilesSpec => []FilesTypeOK`, with the relay's caps (`FilesBounded`); that the slice waited for is one of the total needs `SlicesInTurn`.

**`ServicesProofs`**, supervisor and `runtime.json`: `OneCopy`: `Spec => []OneOfEach` and `LedgerKeepsAll`: `Spec => LedgerKeeps`, for any number of services,
processes, supervisors, crashes and start commands at any moment, and for every outcome of a spawn. `OnRecord` (what is live and not `apart` is in the ledger and is its service's
pid in the file), `Supervised` (under a supervisor that launched it is its child) and `ReadIsTrue` (what a start command read is still so, and nothing was
added while it was alone) are inductive together. `PersistKeeps` and `OthersKeep` say that no other writer drops what lives, `StartKeeps` what a start command may drop.
`StoodDownStays` is the safety half of `RestartPolicy`, also with start commands beside the supervisor. `ServicesTypes`: `Spec => []TypeOK`; its work is `FreshIsNamed`, that a service which may be
started once more has a name left for its process.

**`AuthStoreProofs`**, for any number of workstations, devices and codes and any times to live: `PairingsLast`: `Spec => []StaysPaired`,
  `GoneStaysGone`: `Spec => []GoneForGood`, `OldestGoes`: `Spec => OldestGivesWay`. `StaysPaired` compares a device with history, and a restart
  takes the file for memory, so the invariant has to say how far the file may lag: `DiskFollows` says that for each device the
  file has a time less than `SaveEvery` before the last one it was let in, which the throttle keeps because it notes only
  the saves it made (`lastDeviceSaveAt[d] <= disk[d].seen`). `AuthInv` is that, `TypeOK` and `GoneRightly`.

**`ReleaseInstallProofs`**. `ReleaseStaysWhole`: `Spec => []ReleaseIsWhole`, for any number of updates at once, files, modules, failures and deaths, and
  for platforms where a directory can be renamed. What an update has in hand (`InHand`) is per updater, so that another's steps leave it alone
  (`OthersKeep`). While nobody has `crossed`, `Complete` says that the modules found and those still looked for are all that the ones found need (`Follows`), so that
  in the end all are carried over, and that between the renames all are in one of the two directories. `Held` says who answers for a package that is
  away: an update that goes on, or, once a call failed, one that undoes. `StepInHand`, `StepInPlace` and `StepHeld` go through the actions.

`ServicesReturn`: `Spec => []ServicesComeBack`, on every platform, with the exception and the failing starts. `Alone` says that no other update has begun,
`Stopping` how far the services of that one are, what it will start, and that only a failed call ends it "thrown" or "down", `Kept` what
the package holds at each step that no failed call has disturbed, so that what is started is what is on disk.

`ReleaseTypes`: `Spec => []TypeOK`. Types are not inductive alone, since a step takes a directory apart that has to be there: `Equipped` says
that an update which moves modules, or puts them back, has both its directories, and what it has left to move or copy; `SourcesLeft` (of
`ServicesReturn`) that npm is tried only from a source there is.

**`TransferProofs`**, pasted files: `PasteSavedWhole`: `Spec => []SavedWhole` and `PasteUploadsAccounted`: `Spec => []UploadsAccounted`, for any
number of windows, uploads, slices and messages on their way, and any window of pulls. `Progress` says that what an upload waits for and what it has on
disk are together the slices `0 .. nextToRequest - 1`, so that the count `received` tells when the file is whole; `Flying` that a slice
waited for is asked for, being read or on its way at one of these places only, and once (`Once`, of both queues), so that the three counts are those of
disjoint parts of `pending`; `Pulled` that it is at one of them, `Held` that a slot has an upload or its end to wait for.

The font is in `TransferProofs` too: `FontStaysCurrent`: `FontSpec => []FontIsCurrent`, for any number of fonts, files, characters, calls, tellings and
requests, and for any files the browser refuses. `FontInv` adds what the calls hold (`Sound`): a call whose generation is the current one is about the font shown. A batch is
the exception, since its timer keeps the font it was set for; but the relay and the workstation answer only for the large font of
the font announced, so that once its cut has been answered, the cut is of the font shown. What a call does in the task in which its promise settled needs
no check of the generation, because nothing comes between (`decide`, `startCut` are fresh). The `catch` of `evaluate` does not check either, and something does come
between: `Blind` says of which fonts, `LoadAway` what becomes of the window then, and `Shown` widens "the font shown" to any until the window is
told of a font it does not show. `FontTypes`: `FontSpec => []FontTypeOK`, on that invariant, with the timers of the slices waited for.

**Model-checked only.** Everything about liveness and ENABLED is out of the prover's reach: `NobodyWaitsForever`, the second half
of `RestartPolicy`, `DeadOwnersGiveWay`, `WindowHears`, `UploadSettles`, `LinkReturns`, `Heals`, `DownloadSettles`, `LoadSettles`. Every safety
property that a run checks, invariant or action property, is proved.
Nothing in the modules is recursive, so no induction over data is needed.

## 5. Plan

1. **Done**: the modules of section 2 and the theorems of section 4: every safety property of every module is proved, and so is the
   refinement of `Attachment`.
2. **More of the code**, where it decides something: the one-message paste; the pruning of pasted files; the loss of the window's link in
   `FileTransfer`.

## 6. Not modelled

Rendering, layout, gestures, settings, the TUI, reading and cutting fonts, palettes: user interface and file formats. Validators, status and metrics: data without decisions.
The keep-alive managers and packaging: wrappers of other programs. The elevated tab: Windows only. The window's input queue is emptied
in the task that fills it, and a forwarded tool request is a promise, settled once by construction: neither has a state worth a module.

*Predictive echo* (`features/terminal/predict`) guesses what a program will draw. When a guess stands or is withdrawn is decided by rules of
thumb (a prefix of the echo may be anybody's output, any move of the caret lifts a suppression), so that what a model could
promise would be those rules again; what matters, that the screen ends as the program drew it, is the terminal library's.

Everything else that is left out has a line in `PROJECT.json`.
