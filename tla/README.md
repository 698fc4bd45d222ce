# Formal model of Proliferate

Proliferate runs coding agents in managed sandboxes, on the user's desktop and
in the cloud. This directory holds TLA+ specifications of its core protocols,
TLC configurations that model-check them on small instances, and proofs that
TLAPS checks for every instance.

    tlc -config Supervisor.cfg MCSupervisor.tla          # any .cfg below
    tlc -config Stream.cfg SessionStream.tla             # no MC module needed,
    tlc -config Bridge.cfg SupervisorBridge.tla          # nor here
    tlapm SupervisorProofs.tla                           # half a minute
    tlapm SupervisorHistoryProofs.tla                    # the same, it extends it
    tlapm RuntimeUpdateProofs.tla                        # a minute, it extends it too
    tlapm SessionRegistryProofs.tla                      # two minutes
    tlapm SessionIntentsProofs.tla                       # two minutes
    tlapm SessionStreamProofs.tla                        # half a minute
    tlapm SupervisorBridgeProofs.tla                     # some seconds
    tlapm HandOverProofs.tla                             # the same, it extends it

The development covers the five parts where a mistake is hardest to test and
costs most:

* the **runtime update** of a managed sandbox, in which three programs on two
  machines replace each other's binaries while any of them may crash
  (specs/supervisor.md, specs/worker.md, specs/FEATURE_DOCS/MANAGED_RUNTIME.md);
* the **bridge** by which a sandbox whose programs were started independently is
  handed over, while it runs, to the Supervisor that the update needs;
* the **session registry** of AnyHarness, in which actors that run the same
  session one after the other hand over the numbering of its event log while
  callers start, stop and address them (specs/anyharness/acp.md);
* the **session intents** of the product client (desktop and web), an outbox
  that sends what the user clicks to the runtime in order, while the answers
  and the events about it race each other;
* the **session stream** of the product client, which follows the events of a
  session over streams that break, overlap and are reopened
  (specs/codebase/systems/product/chat/transcript.md).

Together the last three follow one session from the click to the runtime and
back: an intent becomes a request, the actor that owns the session acts on it
and numbers the events, and the stream brings them to the transcript and to the
outbox that waits for them.

## 1. The system

| Component | State it keeps | Operations | Talks to | Here |
|---|---|---|---|---|
| Update mailbox (`proliferate-runtime-update-protocol`) | request and result files in one directory | publish, overwrite, list, probe, collect | written by Worker and Supervisor | `UpdateTypes`, `UpdateMailbox` |
| Supervisor (`proliferate-supervisor`) | active, `.prev` and staged binaries, activation journal; two children | spawn, recover, supervise, drain, swap, gate, roll back | mailbox, artifact host, its children | `Supervisor`, `SupervisorHistory`, `SupervisorInvariant`, `SupervisorProofs`, `SupervisorHistoryProofs`, `AtomicUpdate` |
| Worker, update loop (`proliferate-worker`: `runtime.rs`, `supervisor_bridge/mailbox.rs`) | SQLite store of the converged version; pins of the last ack | heartbeat, reconcile, plan, emit, collect | server, mailbox | `RuntimeUpdate`, `RuntimeInvariant`, `RuntimeUpdateProofs` |
| Server, pins and heartbeats (`cloud/runtime_workers`) | desired and reported version per sandbox | set pins, record heartbeat | Worker | `RuntimeUpdate`, `RuntimeInvariant`, `RuntimeUpdateProofs` |
| Worker, bridge (`supervisor_bridge/bridge`) | `started` and `done` markers, process lock | gate, prepare, launch, confirm, exit; the legacy in-place updates | Supervisor, AnyHarness, server | `SupervisorBridge`, `SupervisorBridgeProofs`, `HandOverProofs` |
| Worker, enrolment and syncs | credentials, synced hashes | enrol, refresh, push | server, AnyHarness | planned |
| AnyHarness session registry (`live/sessions/manager`, actor life cycle, sink, event store) | map of live handles, actor generations, next event number, event log | start, inject, unload, reap, dismiss, close, stop, restore, repair | session domain, agent process, SQLite | `SessionRegistry`, `SessionRegistryProofs` |
| AnyHarness live session actor (`live/sessions/actor`) | queued prompts, turn, pending interactions | prompt, reorder, steer, cancel, answer, replay | agent process, session store, clients | planned; the queue and the configuration as a client observes them are in `SessionIntents` |
| AnyHarness session domain | sessions, prompts, links, subagents | create, fork, delegate, deliver completions | live sessions | planned |
| AnyHarness workspaces | worktrees, archives, checkpoints | create, archive, restore, delete | git, sessions, operation gate | planned |
| AnyHarness workflows, reviews, goals, loops, plans | runs and steps | start, advance, settle | sessions, server | planned |
| AnyHarness agents, adapters, integrations, terminals, artifacts, mobility, cowork | installed programs, ptys, exports | install, open, export | external programs | not modelled: I/O around external programs |
| Server workflows and background tasks | runs, claims, outbox | claim, lease, complete, relay | runtime, Celery | planned |
| Server cloud sandboxes | sandbox rows | provision, pause, resume, reconcile | provider | planned |
| Server billing | usage, seats, subscriptions | account, reconcile, receive webhooks | Stripe | later |
| Server accounts, auth, organizations, agent gateway, integrations | rows, tokens | CRUD, proxy | identity and model providers | not modelled: transactional CRUD and I/O |
| Client session intents (`session-intent-store.ts`, `hooks/sessions/lifecycle/session-intent-*`) | the outbox: one entry per intent; dispatcher | click, supersede, cancel, retry, dismiss; create the session; dispatch; reconcile | AnyHarness over HTTP, events stream | `SessionIntents`, `SessionIntentsProofs` |
| Client session stream (`hot-session-ingest-manager.ts`, `session-stream-*`, history hydration) | the manager's entry and token, the registered handle, the queue of a stream, the transcript | connect, retry, self-heal, flush, repair a gap, hydrate, close | AnyHarness over SSE and HTTP, intents | `SessionStream`, `SessionStreamProofs`, `EventFeed` |
| Clients, the rest | views, navigation, reducers of transcripts, settings | render, select | AnyHarness, server | not modelled: derived state and layout |
| Diagnostics, SDKs, catalogs, installers | — | — | — | not modelled: no state of their own that the core depends on, or generated |

### How the modelled parts interact

    server --pins in the ack--> Worker --request file--> mailbox --drain--> Supervisor
    server <--reported version-- Worker <--result file-- mailbox <--outcome-- Supervisor
                                  ^                                              |
                                  +------------- kill / respawn -----------------+

The server pins a version per component (AnyHarness, Worker). The Worker's
heartbeat reports the running versions and brings back the pins. For a
component that diverges the Worker writes a request. The Supervisor, which is
the parent of both programs, drains the mailbox on every poll tick: it
downloads and stages the artifact, swaps it in behind a journal
(`active -> .prev`, `staged -> active`), restarts the child, waits for a health
gate, rolls back if it fails and writes a result. The Worker takes note of an
Activated result, stores the version it will report and removes the pair.

What is hard about it:

* a crash of the sandbox between any two file operations, in the middle of a
  swap above all;
* renames and removals that fail, including those that are meant to repair an
  earlier failure;
* the Worker is itself restarted by the activation it asked for, between any
  two steps of its tick;
* requests that supersede each other, are withdrawn, or are collected while
  the Supervisor is reading them;
* request ids are a function of component and version, so the result of an
  earlier attempt and that of a new one are the same file.

What makes the parts correct: there is always a binary to boot; an activation
is atomic and only taken back for the retained version; an outcome is true when
it is written; every request is decided; both programs keep coming back; the
loop comes to rest; a rollout of good artifacts ends at the pinned version.

    legacy Worker --files, launch script--> Supervisor --spawns--> AnyHarness, Worker
        |                                                              |         |
        +-- lock beside worker.sqlite3 --- must pass to ---------------|---------+
        +-- /health of whoever has the port ---------------------------+

Before any of this a legacy sandbox has to get a Supervisor, and the Worker that
is to be replaced arranges it. What is hard here:

* the two Workers need the same lock, the two AnyHarness the same port, and
  programs are found and killed by path, whoever started them;
* evidence is indirect: a process with the right path, a port that answers;
* the launch script is a process of its own; an attempt may be cut off anywhere
  or end without an answer, and the next tick has to make sense of what is left;
* the legacy Worker goes on updating binaries in place and exec's itself.

What makes it correct: one Worker and one Supervisor at a time, a spawned Worker
that writes to the mailbox, nobody but the owner of the processes who swaps, no
`bridge.done` without a runtime, and a hand-over that comes to an end.

    start / inject / reap / unload / dismiss / close / stop
        |            lookup, install, remove
        v
    map of live handles --command--> actor generation --events--> session_events
        ^                                 |  (own thread, own sink)      UNIQUE(session, seq)
        +--------- retired ---------------+        offline append, repair ---^

A live session is an actor on a thread of its own that numbers events from
memory; without an actor, events are appended under the lock of the map with the
next free number. An actor that exits closes its mailbox, writes its last
events, seals the sink, relinquishes the numbering, reaps its process group and
only then ends. What is hard here:

* all of this takes time, and callers who see a part of it (a closed mailbox, a
  missing entry) draw conclusions about the rest;
* commands are answered before the exit they ask for, or never, if they reach a
  mailbox that closes;
* a start fails or is cancelled after its first events;
* detached tasks hold the sink of a generation that has handed over;
* the terminal transaction of a turn fails for good, a crash leaves a turn open.

What makes it correct: one writer at a time; no number is used twice; a turn left
open is repaired before anyone else runs; every call returns; an exit asked for
is carried out.

    click --> outbox --dispatcher, one at a time--> HTTP request --> actor: turn, queue, config
               ^  ^                                      |                      |
               |  +------------ HTTP answer -------------+                      v
               +-- reconcile -- transcript <-- stream / tail / history -- session_events

The outbox keeps an intent from the click until the runtime has confirmed it. A
dispatch is a chain of awaits (prepare the blocks, resolve the address of the
workspace, request, answer), and the session itself may not exist yet. What is
hard here:

* the events of a prompt or of a selection may arrive before the HTTP answer to
  it, long after, or without one;
* the user cancels, retries, or clicks again between any two awaits, and a later
  selection supersedes a queued one;
* selections made while the session is being created are sent with its
  creation, and must be neither lost nor sent twice;
* a remounted dispatcher does not know of a dispatch under way;
* an unanswered request may have been acted upon.

What makes it correct: what an intent is finally shown as is what happened to
it; the runtime acts in the order of the clicks, each once; the value chosen
last wins; no intent waits for ever.

The stream side has three sources for one transcript, each of them a chain of
awaits that overlaps the others: a stream read from where the transcript ends, a
fetch of the whole history, and a fetch of the tail after a gap. Attempts to
connect outlive the reason they were made for; retries, the self-heal of the
manager and the effect that reconciles the hot sessions all reconnect. What
makes it correct: the transcript has no hole, the outbox is told of every event
in order, no stream stays open that nobody would close, and a session that stays
hot is caught up with.

## 2. The modules

`UpdateTypes` — components, versions, keys and outcomes. A version stands for
its bytes: the code compares sha256 sums, the model compares versions.

`UpdateMailbox` — `requests`, `results` and the order `later` of the
`requested_at` stamps. Each operation is one atomic rename or unlink.

`Supervisor` — the process. `pc` says which file operation, process operation
or network call comes next, so `Crash` can fall between any two:

| `pc` | Code | Actions |
|---|---|---|
| `down` | not running | `Start` |
| `reconcile`, `clearJournal` | `reconcile_activation_journal` | `Reconcile`, `ReconcileFails`, `ClearJournal` |
| `spawnAnyharness`, `spawnWorker`, `restorePrev` | `run`, `recover_missing_*` | `SpawnAnyharness`, `SpawnWorker`, `SpawnFails`, `RestorePrev` |
| `supervise` | `supervise_generation`, `wait_or_tick` | `Tick`, `AnyharnessExited`, `WorkerExited` |
| `list`, `read`, `rank`, `supersede`, `pick` | `next_pending`, `supersede_stale_same_component` | `ListRequests`, `ListFails`, `ReadRequests`, `RankRequests`, `SupersedeRequests`, `SupersedeFails`, `PickRequest` |
| `check`, `fetch`, `stage` | `activate_one` up to the swap | `CheckActive`, `CheckUnreadable`, `FetchOk`, `FetchTransient`, `FetchTerminal`, `Stage` |
| `writeJournal` ... `unjournal` | `activate_binary` | `WriteJournal`, `MovePrev`, `Place`, `PutBack`, `Unjournal` |
| `restartAnyharness`, `restartWorker`, `gate`, `rollback` | `finish_activation`, `roll_back` | `RestartAnyharness`, `RestartWorker`, `GatePasses`, `GateFails`, `RollBack` |
| `record` | `run_pending` | `Record`, `RecordFails` |

`verdict` is the outcome reached so far and also tells which of the two uses of
a step is meant: `restart*` with a verdict is the best-effort restart after a
rollback. `fixing` is the component whose failed spawn is being recovered.
`CheckUnreadable` is the active binary that cannot be read (`activate/mod.rs:236-239`):
it counts as another version, so the requested one may be swapped in over itself. The
three passes of `next_pending` are steps of their own, as each of them asks the
mailbox again whether a request has its result. The
Worker is left free here, within what its side of the protocol allows: it
writes requests and removes pairs whose result is Activated; either of the two
removals may fail and is not repeated (`WorkerCannotCollect`), so that a request may outlive its result.

`AtomicUpdate` — the promise without files, processes or crashes: `Install`,
`Revert`, `Succeed`, `GiveUp`, `LoseTrack`, `Dismiss`, `Collect`, `Forget`. `Supervisor`
implements it under the mapping `serving <- Serving, fallback <- prev`, where
`Serving[c]` is what `c` runs from or would run from after a crash at this
point: the active binary; if it is absent, the staged one that the journal
completes to; else `.prev`. `Forget` is the only concession: a boot may move
`.prev` to the active path and so give up the copy of what is served anyway.
`reverted` is the request whose version was taken back and whose outcome is still to be
written (`TakenBack` in the mapping): a request is given up as RolledBack only after that, and nothing is
installed in between; a crash may make the Supervisor lose track of it.

`SupervisorHistory` — two history variables for properties that speak of the past:
`gated`, which versions passed a gate, and `misread`, whether the active binary
could not be read when the current request was checked.

`SupervisorInvariant`, `SupervisorProofs` — section 5.

`RuntimeUpdate` — the closed loop: server pins, heartbeats that may get lost, the Worker
as a process that dies whenever its child slot changes, and the Supervisor's
actions unchanged. Running versions are what the Worker believes (store, else
boot-time version), as in the code, not what runs.
A store or a result that cannot be read counts as absent (`RunningMisread`, `ResultUnreadable`).
`RuntimeInvariant` — its inductive invariant, section 5. One part of it is a property in its
own right and checked by `RuntimeLoop`: `ChecksStillHold`, that what the Worker has checked still
holds when it acts on it, although the Supervisor runs in between.

`SupervisorBridge` — every Worker process has a slot; `pc[w]` is what it does next:

| `pc` | Code | Left by |
|---|---|---|
| `locking` | `WorkerProcessLock::acquire` | `TryLock` |
| `idle` | between heartbeats | `Asked`, `NotAsked` |
| `probe`, `prepare`, `launch` | `bridge_with_host` up to the launch | `AlreadyBridged`, `NoSupervisor`, `Prepare`, `PrepareFails`, `Launch`, `LaunchFails` |
| `script` | waits for the launch script | `Nohup` |
| `confirm`, `health`, `mark` | `confirm_ownership`, `bridge.done`, exit | `ConfirmLive`, `ConfirmHealth`, `GiveUp`, `MarkDone`, `MarkFails` |
| `converge`, `stop`, `relaunch`, `gate` | the mailbox, or the in-place swap | `Converge`, `BeginSwap`, `StopRuntime`, `Relaunch`, `SwapGate` |
| `selfUpdate` | `self_update.rs` | `NoSelfUpdate`, `Exec` |

`cfg[w]` is the configuration the process loaded, `onDisk` the one the next will load:
`legacy`; `equipped`, a legacy one into which an operator has put the inputs of the
bridge (`bridge/mod.rs:96-105`, tried first at 135); or `owned`, which names the mailbox.
`Prepare` writes the owned one for inputs that the server delivered and leaves an equipped one as it is
(182-187). Which of the two a sandbox starts with is open.
The launch script (`script[w]`) goes through its parts whether or not its Worker
lives. The Supervisor is reduced to what the hand-over sees of it: `SpawnRuntime`,
`SpawnHeir`, `GenerationEnds`. `KillSupervisor` leaves its children running: its
AnyHarness becomes `stray`, its Worker loses its parent.

`SupervisorBridgeProofs`, `HandOverProofs` — section 5.

`SessionRegistry` — one session. `phase[g]` says how far generation `g` has come:

| `phase` | Code | Left by |
|---|---|---|
| `starting` | thread spawned, handle installed (`manager/startup.rs`, `actor/startup.rs`) | `BecomeReady`, `StartupFails` |
| `idle`, `turn` | `run_idle`, `run_turn` | `BeginTurn`, `EndTurn`, `AbandonTurn`, `EndTurnFails`, `GiveUp`, `ActorTakesCommand`, `ActorTakesReap` |
| `closing` | mailbox dropped (`run.rs:82`) | `Finalize` |
| `finalized` | last events written | `Seal` |
| `sealed`, `aborted` | sink fenced, or its tasks destroyed after a failed start | `Relinquish` |
| `relinquished` | another generation may number events; process being reaped | `Finish` |
| `finished` | thread ended | `Retire` removes the entry |

`exit[g]` is the exit that was asked for last, and `deadline[g]` the deadlines that run
during the turn: an Unload and a Stop set one, a Dismiss and a Close do not. A Stop that
has waited for its bound abandons the turn (`active.rs:426-431`), best effort.

A caller is at a position of its own (`caller[c].at`): a start enters, joins or
repairs and installs, and awaits readiness (`StartBegins` ... `StartReturns`); an
injection looks up, appends or sends, and waits for the hand-over when the mailbox
is closed (`InjectBegins` ... `InjectHandsOff`); the other commands read the handle,
send, and then wait for the entry to go (`gone`), for the process to die (`reaped`)
or remove the entry themselves (`remove`, `mark`). The lock of the map is held over
several steps only between `StartRepairs` and `StartInstalls` (`LockFree`).

`SessionRegistryProofs` — section 5.

`SessionIntents` — the outbox of one session, the runtime that acts on its
requests, and the events on their way back. `step[i]` is how far the dispatch of
intent `i` has come on the client, `net[i]` where its request is:

| State | Code | Left by |
|---|---|---|
| `intent[i].status`, not dispatched | entry in the store (`session-intent-state.ts`) | `Dispatch`, `CancelBeforeDispatch`, `Supersede`, `DismissPrompt` |
| `step[i] = "prepare"` | awaits before the checks of a prompt (`session-intent-prompt-dispatch.ts`) | `PromptPrepared` |
| `step[i] = "target"` | resolving the address (`session-intent-config-dispatch.ts:77-98`) | `TargetResolved`, `UnsentFails` |
| `step[i] = "sent"` | awaiting the answer | `PromptAnswered`, `ConfigAnswered`, `OtherAnswered`, `Unanswered`, `GivenUp` |
| `net[i].at = "request"` | the request on its way | `Handle` (`HandlePrompt`, `HandleConfig`, `HandleResolve`, `HandleMutation`), `Refuse`, `Vanish` |
| `feed` | events written and not delivered | `Deliver` |
| `creation` | `session-creation-materialization.ts` | `BeginCreation`, `SessionCreated`, `SessionAdopted`, `CreationFails` |

`due` stands for the dispatcher's effect: it is set when `dispatchVersion` moves,
so a change that does not move it leaves an intent waiting, as in the code.
`Remount` forgets what is in flight. `Remote` says whether resolving an address
takes I/O (cloud, SSH) or not (local): it decides whether anything can happen
while `step[i] = "target"`.

`SessionStream` — one session the client shows. `attempt[a].at` is how far an
attempt to connect has come:

| `at` | Code | Left by |
|---|---|---|
| `hydrate` | waits for the whole history (`session-stream-connection-prepare.ts:33-48`) | `HistoryFetched` |
| `refresh` | after a failed read of it (lines 80-95) | `Refreshed` |
| `target` | resolving the address (`session-stream-connection-open.ts:65-178`) | `TargetResolved`, `TargetFails` |
| `connecting` | request made, handle registered | `Opens`, `OpenTimesOut`, `Breaks` |
| `open` | events arrive and are queued for a flush | `Arrives`, `Flush`, `Breaks` |
| `closed` | handle closed; its gap repair may be under way | `GapFetched` |

`entry` is the manager's `ActiveHotStream`: its token, whether it is opening, its
timer, and `orphans`, the timers that `scheduleRetry` forgot without clearing.
`ReconcileHotSessions` is the whole of `reconcileHotSessions` for one session:
close, connect, reconnect for a new reason, self-heal, or nothing.

`EventFeed` — what the outbox is promised of the events: it sees every event of
the log, first events first, none before it was written. `SessionStream`
implements it, and `SessionIntents` takes it for granted (`Deliver`).

`MCSupervisor`, `MCRuntimeUpdate`, `MCSessionRegistry`, `MCSessionIntents` — the
instances. `SessionStream` and `SupervisorBridge` have numbers and model values only and need none.

Operators whose name ends in `Mutant` are wrong variants of the definition that
follows them; they are not part of any specification and serve to show that a
property notices the mistake.

## 3. What is checked

Passing runs:

| Run | Instance | Shows |
|---|---|---|
| `Supervisor` | 2 versions, both components upgraded in one drain, 2 faults, unlinks may fail | `IInv`, the invariant of the proofs; `TypeOK`; `Bootable`: a binary to boot from whatever happened; `ImplementsPromise`; `SwapRetainsAnother`: `.prev` never receives the version that is being installed, unless the active binary could not be read; `ActivatedIsGated`: an Activated result stands for an active version that passed its gate |
| `RuntimeLoop` | 2 versions, AnyHarness back and forth and a Worker upgrade, 1 fault, 2 pin changes | `RTTypeOK`; `ChecksStillHold`; `ImplementsSupervisor`: the real Worker does only what `Supervisor` assumes, so its properties carry over; `ServiceRecovers`, `Settles` |
| `RuntimeRollout` | 3 versions, AnyHarness, 1 fault, 2 releases | `EveryRequestDecided`: again and again no request in the mailbox is without a result; `RolloutConverges`: with good artifacts and releases that only move on, the last pin is what runs |
| `RegistryHandOver` | 2 callers that start, inject and reap, 3 generations, 1 fault, an established session | `SingleWriter`: a generation that owns the numbering is the one in the map; `EventsAccepted`: its numbers are above all in the log, none is refused; `TurnsRepaired`: it runs beside no turn another one left open |
| `RegistryCalls` | one caller starts and injects, one unloads, reaps, dismisses, closes and stops; 1 generation, 1 fault | `TypeOK`; `EveryCallReturns`; `ExitIsCarriedOut`: of an exit that waits for nothing, or for a turn with a deadline, in particular after the entry was removed or another exit took the place of the first |
| `IntentsDispatch` | 3 intents of any kind, 1 supersession, 1 fault, local workspace | `IntentsTypeOK`; `FinalStatesAreTrue`: failed means never accepted, cancelled never run, echoed run; `HandledInOrder`: the runtime acts in the order of the clicks, each once; `LastChoiceWins`: without faults, and if the session offers what it was launched with, the value chosen last is the runtime's; `EveryIntentLeaves` |
| `Stream` | 2 events, 3 attempts at once, 1 fault, 1 move of the user, 1 fetch | `StreamTypeOK`; `TranscriptIsWhole`: no hole, and the outbox knows all of it; `OneStreamOpen`; `ImplementsFeed`; `CatchesUp`: a session that stays hot and active is caught up with, unless it is deaf or was taken back (see below) |
| `Bridge` | 3 Worker slots, 1 fault, 2 in-place updates | `BridgeTypeOK`; `OneWorker`: past the lock exactly its holder; `OneSupervisor`: none is launched beside another; `ServedUnderSupervisor`: a Supervisor that stays up ends with a runtime that serves; `HeirIsWriter`, if `Delivered`; and, while `Undisturbed`, what the code promises of the hand-over: `DoneIsProven`, `ConfirmedIsOwned` and, if `Delivered`, `OnlyOwnerSwaps`, `HandedOver` |

Runs in which TLC finds what the code says of itself to be untrue:

| Run | Statement | What happens |
|---|---|---|
| `SupervisorLastGood` | after a rollback "last-good is serving" (`activate/mod.rs:309-311`) | v2 is swapped in, a crash precedes its gate, v3 supersedes v2: the swap of v3 retains the never-gated v2 over the last good v1, and the rollback of v3 serves v2 |
| `RegistryUnload` | `unload` waits "so a subsequent resume cannot race actor retirement" (`manager/unload.rs:28-31`) | a second unload finds the mailbox closed, removes the entry and returns; a start installs a second writer while the first one finalizes. `runtime_events.rs:41-46` waits in the same situation |
| `IntentsRemote` | the echo of an earlier request must not end a later click (`session-intent-reconciliation.ts:95-101`) | in a cloud or SSH workspace a selection is marked dispatching before its address is resolved; the echo of an earlier equal selection arrives meanwhile and ends it, it is never sent, and the runtime keeps the value chosen in between |
| `StreamDeaf` | the self-heal is there so that no session "stays streamless" until the user switches (`hot-session-ingest-manager.ts:98-103`) | a gap; the self-heal opens a stream under the old token while the tail is fetched; the end of the fetch schedules a retry, which takes a new token and then finds the session connected. The open stream belongs to a token that is gone: all its events, its close and its errors are ignored |

`RegistryHandOver` leaves out the commands that remove an entry on their own
account: unload (shown by `RegistryUnload`) and dismiss, close and stop, whose
`remove_session` takes whatever is in the map after a reply that may precede the
exit by the length of a turn (`lifecycle.rs:163-166, 315-318`). They are in `RegistryCalls`.
`IntentsDispatch` is local for the same reason: remotely `LastChoiceWins` fails as above;
everything else holds remotely too, and is proved for both (section 5).
`CatchesUp` names the two ways a client is known to stay behind, `Deaf` and
`TakenBack`, so that it says of everything else that there is no third.

Statements of the modules that TLC refutes and that have no run of their own,
because they are a consequence of the above, or minor:

* `StoreRecordsWhatRuns` (`RuntimeUpdate`, three pin changes): an Activated result that was not
  collected before its version was replaced is believed when the version is pinned
  again (`mailbox.rs:38` speaks of recording "what actually runs").
* `NumbersMoveOn` (`SessionRegistry`, not established): a first start that fails after its
  first events leaves them in the log; the next one is `Fresh`, numbers from 1,
  and the log refuses its events (`specs/anyharness/acp.md:188`).
* `ShownIsActual` (`SessionIntents`): a selection of the value the runtime already has is
  answered and never announced; it stays accepted, and the control shows it over later values.
* `EchoedStaysSettled` (`SessionIntents`): the success patch of an answered prompt
  (`session-intent-prompt-dispatch.ts:156-166`) rewrites a tombstone whose echo came first.
* `ClosedStreamsAreFlushed` (`SessionStream`): `reconcileHotSessions` replaces the targets before it
  closes streams, so the flush at the close finds itself no longer current and
  drops its batch, against `transcript.md:18-20`. The events come again with the next fetch.
* `TranscriptGrows` (`SessionStream`), as `specs/TESTING/core-release-validation.md:285` asks for
  replay "without missing or duplicate rows": the history read before a stream of a selected
  session is applied without a merge (`use-session-history-hydration.ts:300-304`); a stream opened
  while it was being fetched has delivered newer events, which vanish until the next event causes a gap.

* `SwapRetainsAnother` without the condition `~misread`: a second rename "would push the NEW
  binary into `.prev` and destroy the true last-good" (`activate/mod.rs:147-149`).
  The check that is to prevent it takes an active binary it cannot read for another
  version (236-239), and the requested version is swapped in over itself.

With inputs that an operator has equipped the legacy configuration with (`tests.rs:281-322`), the Worker that the
Supervisor spawns loads a configuration without a mailbox and swaps in place, as its
predecessor did: under a live Supervisor, although nothing was killed and no confirmation
was late. Its script may end the Supervisor's AnyHarness and start one that nobody supervises on the port,
so the hand-over need not come to rest. `HeirIsWriter`, `OnlyOwnerSwaps` and `HandedOver`
therefore speak of the sandboxes whose inputs the server delivered
(`Delivered`), and TLC refutes each of them without it. `OneWorker`, `OneSupervisor`, `ServedUnderSupervisor`,
`DoneIsProven` and `ConfirmedIsOwned` hold for both kinds.

The bridge's promises are made without the condition `Undisturbed` (nothing killed, no
failed write, no confirmation of a live Supervisor given up), and TLC refutes each of
them when it is taken out. The first four need no fault, only an AnyHarness
that takes longer to come up than the 15 seconds of the confirmation:

* `DoneIsProven`, "no bridge.done on unproven ownership" (`bridge/mod.rs:197`): the tick after a failed
  confirmation finds the Supervisor live and writes `bridge.done` without a look at AnyHarness.
* `OnlyOwnerSwaps`, "the process that owns the children is the only process that swaps their
  binaries" (`MANAGED_RUNTIME.md:211`): the legacy Worker then goes on to its in-place swap
  (`runtime.rs:151-163`) and kills the Supervisor's AnyHarness by its path.
* `HandedOver`: the gate expects the Supervisor's own Worker or one that was restarted
  (`bridge/mod.rs:161-164`). It may be the bridging Worker itself, which continues with the lock
  in hand, so that the Supervisor's Worker never gets it. `specs/worker.md:487-489` knows the
  signature of this in the log; nothing ends it but a re-exec.
* `UnconfirmedKeepsServing`, "the current runtime keeps serving" (`bridge/mod.rs:195`): the launch
  script has killed it before the Supervisor was started. This one holds in no case worth
  stating and has no condition.
* `ConfirmedIsOwned`, "ACTUAL evidence the Supervisor took over the runtime" (`bridge/mod.rs:202-204`), fails
  after one kill: the AnyHarness of an earlier Supervisor, killed, answers in place of the new
  one's, which cannot get the port. The owned configuration has no AnyHarness path, so the
  second launch script does not clear it.

Some hazards no property covers, and none of the above is evidence against them: the
confirmation that comes late, just described; a prompt that is withdrawn after it was taken up
(it is sent all the same); a selection that the runtime applies after its timeout, over a later
one; a transcript that shrinks; an AnyHarness left over by a killed Supervisor that
answers the probe.

Of the update loop further: a crash between a rollback and the write of its result
makes the restarted Supervisor swap the bad version in a second time. A request
whose pin was withdrawn is activated all the same, nobody reads its result, and
the reported version is then not what runs. A version whose request was refused,
or merely superseded, is not asked for again when it is pinned again: the result
file stays. And a drain that listed a request before the Worker collected it
may write a result after, which then suppresses the next request.

### Bounds

* `MaxFaults` counts crashes, child exits and failed system calls together. Two
  are enough for every pair (a failed rename, then a failed repair; a crash,
  then a crash during its recovery). `ImplementsPromise` holds with two when
  the removal of the journal may fail; with three it does not (the second
  rename, the restoring rename and the removal all fail: the next boot
  completes the swap of a request that was already refused). That is why
  the theorem assumes `~UnlinkFails`. `IInv` was also run with four faults, and
  `AnyharnessRequests`, which moves one component back and forth, in place of the
  upgrade of both.
* Two versions let a component move away and back (`RuntimeLoop`), which is what
  stale files are about; three are needed for one request to supersede another with a
  third version active.
* `MaxPins` = 2 is a change and its withdrawal or a second release.
* A request that is transiently not downloadable costs no fault: it may happen
  any number of times.
* Registry: three generations are one that retires, one that runs and one that may
  be installed too early; two callers are enough for a start to meet an
  injection or another start. `MaxSeq` bounds voluntary events only: terminal,
  synthetic and final events are always written. The liveness run has one
  generation, because its callers do all seven operations: a start that would need
  another one fails (`StartFails`). It starts from a session without a native id.
* Intents: three are an earlier one, a later one and one they are both compared with; a
  selection that supersedes another creates no intent and is counted by `MaxClicks`. One
  fault (a failed, refused, lost or timed-out request, a failed creation) leaves room for what
  the user does about it. The safety properties were also run with four intents
  (8.6 million states). `IntentsRemote` needs three selections and no fault.
* Stream: `MaxAttempts` bounds the attempts under way at once, not how often a stream is
  reopened: numbers are reused. It is a real bound: nothing in the code limits how many
  overlap. Three are one that is deaf, one that waits and one that opens. Two events are the
  least for a gap. One fault is an ended or lagging stream, a failed request or fetch; one
  move is the user or the session's activity changing once; one fetch is begun by the pane or by a
  refresh. The safety properties were also run with two events, two faults and
  two moves and with three events and two faults (9.3 and 9.4 million states).
* Bridge: three slots are the legacy Worker, one of the Supervisor and one of a second
  Supervisor. Two in-place updates are a swap and an exec, or two swaps. One fault is a kill or a
  failed write anywhere. The safety properties were also run with three faults and one update.
  How long AnyHarness takes to start is open: `GiveUp` may fall before or after it serves, and
  `late` remembers that it fell.

### Fairness

`SupervisorFairness`: the Supervisor takes its next step as long as it has one
that no fault is needed for (weak fairness; it is one sequential task).
`wait_or_tick` selects between the exits of the children and the poll tick; an
exit resolves the wait at once, so that exits cannot be overlooked for ever
(strong fairness of `AnyharnessExited` and `WorkerExited` together: which of two comes first is open). A download that is tried at every tick succeeds some day
(strong fairness of `FetchOk`); without it "every request is decided" is false
and should be. `WorkerFairness`: the Worker keeps ticking while it lives, and a
heartbeat, a store write and an emission that are tried again and again succeed
some day. Nothing is assumed of gates, pins, faults or lost heartbeats.

`SessionRegistry!FairSpec`: each actor has a thread and each caller a task that the
scheduler runs (weak fairness of `ActorStep` and `CallerStep`). A startup ends: it is
cancelled at its timeout (`spawn.rs:29-44`). A turn ends only if it has a deadline
(`Due`): an Unload, a failed drain or a failed domain operation sets the grace period of an unload,
a Stop its bound (`active.rs:237, 312`). A Dismiss sends the agent a cancellation and sets no
deadline, and a Close does not even send one (371-375): such a turn, like any
other, may last for ever, and so may the exit it holds up; `ExitIsCarriedOut` promises
nothing of it. What sets a deadline anew is assumed not to go on for ever. Nobody is
obliged to call, to emit or to begin a turn. The deadlines of the callers themselves count as faults, so no call owes
its return to them.

`SessionIntents!FairSpec`: effects, timers and callbacks run (`LookInVain`, `Dispatch`,
`PromptPrepared`, `TargetResolved`), a request is acted upon or fails, its answer is processed,
and events are delivered: weak fairness of each, as every one of them stays
possible until it happens. Nothing makes the user act, a turn end, or a
session be created. An intent behind a prompt of unknown fate waits until
the user retries or dismisses it (`Stuck`), and that is what the code says.

`SessionStream!FairSpec`: the effect that reconciles the hot sessions runs when it is due,
timers fire, requests and fetches are answered or fail, streams deliver, queues
are flushed. Fetches begun by the pane or a refresh need not happen. Weak fairness throughout.

`SupervisorBridge!FairSpec`: processes run and ticks end (weak fairness of `WorkerStep`, `ScriptStep`,
`GiveUp`, `SupervisorStep`, `ChildBinds`, `StrayBinds`); a Supervisor respawns its Worker
(weak fairness of `SpawnHeir` in some slot); the server repeats
`desired_topology` in every ack, so a Worker that keeps ticking is asked again
and again (strong fairness of `Asked`, as acks without it may come between).
No update, exec, kill or failure is obliged to happen.

## 4. Abstractions

* `requested_at` has one-second resolution and ties are broken by id; the model
  orders requests by when they were written.
* Request files are written by the protocol crate and valid; the malformed case
  that remains is the file that vanishes between listing and reading.
* Each pass of a drain over the requests is one step: listing, reading, ranking,
  superseding, picking. A request that is there can be read; of the Invalid results
  that a pass writes any may fail.
* The gate's probes are one step. `GateFails` is always possible, `GatePasses`
  only when the conditions of `CanPass` hold; a binary whose bytes do not match
  its label is a gate that fails.
* Renames and file writes are durable in the order they are made (the code
  syncs the files); a crash loses processes and memory only. A crash of the
  Supervisor alone, which leaves orphaned children, is in `SupervisorBridge` only.
* Either of the Worker's two removals may fail on its own, and the other goes ahead. Pins are always present: a sandbox without
  a pin for a component has nothing to converge to.
* The legacy in-place swap and the Worker's re-exec are in `SupervisorBridge` only.

Of the bridge:

* The operator-equipped configuration is at the path that both Workers load. Its
  content does not change while the sandbox is bridged.
* `bridge.started` is written and never read, and is left out. It and the two
  configurations are one step; a crash before it leaves what a failed write leaves.
* The legacy configuration knows the path of AnyHarness, as one with the in-place swap
  must; without it the launch script would not clear AnyHarness.
* Kills take effect at once: neither AnyHarness nor the Worker handles SIGTERM,
  and both scripts sleep a second after it. Searches by path find every such program.
* An in-place swap is its process operations: download, preflight and renames are
  left out, a failed rename is a gate that fails, and a failed stop is not modelled.
* If a Supervisor is killed while an older AnyHarness holds the port, the two
  AnyHarness without a parent count as one: the one without the port exits.
* A crash of the whole box, and the server that restarts Worker or Supervisor when a
  sandbox is resumed, are not modelled. So all may stop for good, and deadlock is not checked.

Of the registry:

* An event is its number, a kind and its turn; the several events that a step
  emits in one go (`begin_turn`, a terminal batch, the startup state) are one.
* A best-effort append is refused for a taken number only; other store errors are
  left to the terminal transaction, whose bounded retries are one step.
* `pending_startups` is not a variable: a caller that joins waits for the
  readiness of the generation whose handle it holds. A startup whose timeout and
  readiness coincide is cancelled in `starting`.
* A dismiss marks the record as it finds it then; the code decides by the copy
  read at its beginning.
* A start that finds the bound `MaxGenerations` exhausted fails. Loading a fork,
  turns initiated by the engine and the mobility hand-over that forgets a handle
  are not modelled.
* An agent that answers a prompt with an error is unloaded; which turns do so is open.
* A crash of the runtime takes the agents with it (`kill_on_drop`).

Of the intents:

* One session, one setting with a few values, one permission request at a time.
* An intent's number is its place in the store's list. Edits and deletions name the
  prompt; the code names the sequence number of its row, which is as stable. The
  runtime removes from its queue by place.
* Reordering and steering queued prompts are direct calls that no intent stands for.
  Placement and prefetch of attachments, clearing a session, and moving an outbox
  to another client session are not modelled. One creation is under way at a time.
* The answer to a creation may come without a live configuration: the selections it was launched with then
  stay queued. A value that the session's control does not offer makes the selection
  stale. A session that does not offer every value, or does not take the one it was
  launched with, counts as a fault; a missing live configuration does not.
* Events reconciled from a fetched history are another path of `Deliver`.
* An agent is free to end a turn, to ask a question and to answer in any order.

Of the stream:

* Only streams the hot session manager owns (`reconnectOwner: "external"`). The agents
  pane opens its own, and a stream without an external owner has a reconnect timer of
  its own (`session-stream-connection-reconnect.ts:51`); neither is modelled.
* Freshness marks and the lengths of back-offs are left out: a timer fires some day.
* An event is its number. A fetch returns the log up to any length it had between
  its beginning and its end; transit of an event is part of `Arrives`. A stream that lags
  skips an event (`api/sse/sessions.rs:251` drops the broadcast's error).
* `ReconcileHotSessions` may run at any time and must when it is due.
* Which sessions are hot is the environment's choice (`Wants`, `TurnsActive`, `TurnsIdle`). The
  materialization of a session under another id is not modelled.

## 5. What is proved

### The Supervisor

`SupervisorProofs`, for every set of versions, every set of requests and any
number of faults; the assumptions are those on the constants (`NoVersion` is no
version, `InitVersion` is one, `Requested` are keys).

| Theorem | Establishes |
|---|---|
| `Invariant` | `Spec => []IInv` |
| `TypeCorrect` | `Spec => []TypeOK` |
| `AlwaysBootable` | `Spec => []Bootable` |
| `AtomicActivation` | `~UnlinkFails` implies `Spec => ImplementsPromise` |
| `HistoryInvariant` (`SupervisorHistoryProofs`) | `HistorySpec => [](IInv /\ GatedOK /\ FreshOK)` |
| `ActivatedWasGated` (`SupervisorHistoryProofs`) | `HistorySpec => ActivatedIsGated` |
| `RetainsAnother` (`SupervisorHistoryProofs`) | `HistorySpec => SwapRetainsAnother` |

None of these properties is inductive. `IInv` (module `SupervisorInvariant`)
adds what the code relies on without saying so:

* `JobOK` — a current request exactly during an activation, without an outcome;
  already `TypeOK` needs it (`Stage` adds the current request to the staged artifacts);
* `Runnable` — active or `.prev` is there for each component. With the staged
  artifact left aside this is stronger than `Bootable`, and it is what every rename preserves;
* `SwapOK`, `SwappedInOK`, `VerdictOK` — where in the swap the journal names the
  current request, the artifact is staged, the active path is empty, or the requested
  version is active;
* `JournalOK` — the only part that needs the journal's removal: while the drain runs, no swap
  is interrupted, so overwriting the journal strands no component. It holds because a
  failed spawn, and nothing else, stands between an interrupted swap and the drain: with
  AnyHarness or the Worker absent the spawn fails and the recovery runs.

`ActivationStep`, `JournalStep` and `TypeStep` show that each action preserves its
parts, `PromiseStep` that each action maps to a step of `AtomicUpdate` or to a
stutter: `MovePrev` (or `WriteJournal`, when there is nothing to move) is `Install`,
`PutBack`, `RollBack`, `RestorePrev` and an `Unjournal` after a failed repair are `Revert`.
Only `RollBack` makes a request `TakenBack` (`TakenBackStep`), so that an outcome
RolledBack is the end of a rollback that was applied and not overtaken.

`ActivatedIsGated` needs one conjunct more, `GatedOK`: a verdict Activated that
waits to be recorded is that of a gated version. `OnlyTheGateActivates` goes through the
steps to show that nothing but `GatePasses` leads there; what is active then
follows from `VerdictOK`. `SwapRetainsAnother` needs another, `FreshOK`: from the check to the first rename
the requested version is not active, unless the active one could not be read.

### The convergence loop

`RuntimeUpdateProofs`, for every set of versions, every set of pins, any number of pin changes and faults:

| Theorem | Establishes |
|---|---|
| `RuntimeInvariantHolds` | `RTSpec => []RTInv` |
| `RuntimeTypeCorrect` | `RTSpec => []RTTypeOK` |
| `WorkerActsOnWhatHolds` | `RTSpec => []ChecksStillHold` |
| `LoopRefinesSupervisor` | `RTSpec => ImplementsSupervisor` |
| `LoopAlwaysBootable` | `RTSpec => []Bootable` |
| `LoopActivatesAtomically` | `~UnlinkFails` implies `RTSpec => ImplementsPromise` |
| `OnlyPinnedVersions` | `RTSpec => []Confined(Requested)` |

The fourth is why the Supervisor could be studied with a free Worker: every step of the
real one is allowed there (`WorkerIsAllowed`), hence all that is proved of `Supervisor` holds
of the composed system, as the next two spell out. It is not a matter of syntax. The Worker
looks (`result_exists`, `read_result`, its own version) and acts in different steps, with no lock between them
and a Supervisor that goes on. `RTInv` says why that is all right:

* `ChecksStillHold` — the Supervisor writes a result only where there is none, so an Activated one
  stays until it is collected (`ActivatedStays`); and when it replaces the Worker the check is forgotten;
* `PinsOK`, `DesiredOK` — a pin is the provisioned version or a requested one, also in the Worker's memory;
* `Confined(K)` — everything the Supervisor, its files and the mailbox speak of stems from the keys `K`
  (`ConfinedStep`: the Supervisor makes up nothing). It is used with two sets: with `Requested`, and
* `UntouchedOK` — with the keys of the other components, while the pin of one has never moved. Without
  it the Worker might ask for the provisioned version though nobody has pinned it
  (`PlansArePinned`); the stale pins a Worker may hold in memory make the statement delicate:
  it must hold while either the server or the Worker has the provisioned version for its pin.

`RTInv` was also checked by TLC on the instances of `RuntimeLoop` and `RuntimeRollout`.

### The session registry

`SessionRegistryProofs`, for any number of callers, generations, events and faults:

| Theorem | Establishes |
|---|---|
| `RegistryTypeCorrect` | `Spec => []TypeOK` |
| `OneWriter` | `OrderlyUse` implies `Spec => []SingleWriter` |
| `NumbersAccepted` | `OrderlyUse` implies `Spec => []EventsAccepted` |
| `OpenTurnsRepairedFirst` | `OrderlyUse` implies `Spec => []TurnsRepaired` |

The first holds whatever the callers do, also where two generations write and the log
refuses their events. `TInv` adds what the types rest on: `HasLast`, that the log has a last
number (else the next one is no number), and `Handles`, that a caller who addresses a handle
has one, and that whoever is about to install is alone and finds a generation unborn.

`OrderlyUse` says that the session has its native id (no start is `Fresh`) and that
callers only start, inject and reap. Both parts are needed: without the first
the scenario of `NumbersMoveOn` is a counterexample, without the second `RegistryUnload` is.

`SingleWriter` is not inductive: it says nothing of the caller that has found the
map empty and is about to install. The invariant `HInv` adds

* `Installing` — between repair and installation the map is empty and the installing
  caller alone; by `SingleWriter` nobody owns the numbering then;
* `CallersOrderly` — callers do only what they may, and no start is `Fresh`;
* `Shape` — the types the steps depend on;
* `LogInv` — the log has a last number (it is never an unbounded set), and every
  owner's next number is above it.

`ActorPreserves`, `StartPreserves`, `InjectPreserves`, `CommandPreserves` and
`EnvironmentPreserves` take the steps in turn; the installation is where `Installing`
gives a generation the number after the last.

`TurnsRepaired` says nothing of the time before an installation, nor of a generation that is
not in the map. `TurnsOwned` does: at most one turn is open; while a generation owns the numbering it is that generation's own,
the one it is in; and none is open while somebody is about to install or before the new
generation has begun one. It needs `SingleWriter`: with two writers a repair closes a turn that is still
run. `TInv` and `TurnsOwned` were also checked by TLC on the instance of `RegistryHandOver`.

### The session intents

`SessionIntentsProofs`, for any number of intents, values, supersessions and faults, local or remote:

| Theorem | Establishes |
|---|---|
| `IntentsTypeCorrect` | `Spec => []IntentsTypeOK` |
| `FinalStatesTrue` | `Spec => []FinalStatesAreTrue` |
| `RuntimeFollowsClicks` | `Spec => HandledInOrder` |
| `LastChoiceKept` | `~Remote` implies `Spec => []LastChoiceWins` |

Even the types are not inductive: a patch keeps the status of a prompt a prompt's only
because each callback knows the kind it dispatched. `IInv` adds

* `Births` — nothing was begun for an intent that is not there, or before there was a session;
* `InOrder` — what still waits comes after everything that was begun, and of what is under
  way the latest is in flight; this is what `Blocking` and the dispatcher's order amount to;
* `Requests` — a request is made once and handled once, and a prompt with a request on its way
  has a status that blocks what comes later;
* `Records` — the queue of the runtime and the events on their way speak of prompts the
  runtime took, and say what is true of them: the reason why an echo may be believed;
* `Finals` — the property, and that a cancelled prompt is out of the queue as well.

`IInv` was also checked by TLC on the instance of `IntentsDispatch`. The order is proved in
two layers: lemmas that say which patches keep it whoever makes them, then one
lemma per action.

`LastChoiceWins` speaks of a quiet state: what led there may be long ago, so a second
invariant, `ChoiceInv`, follows the newest selection from the click to the runtime:

* `Launch` — before there is a session every selection waits; of those it is launched with only
  the last may have been changed since, and then its generation shows it. This is why
  `session-creation-materialization.ts` may settle the others with the session;
* `Holding` — nothing but a turn holds a change back;
* `Sending` — without faults the client waits for the answer of each request it has sent. Here the
  hypothesis is used: locally no event comes between the mark and the request
  (`step[i]` is `target` only while the selection is still marked dispatching). Remotely
  `IntentsRemote` is a counterexample;
* `Kept` — the newest selection is the last choice, and the runtime is still to get it
  (`Untried`), or has it, or gets it when its turn ends (`Aim`), and nothing that is older comes later (`Arrived`).

The last two are claimed while nothing has failed, as the property is. That a value is never
confused with `NoValue` is the assumption `NoValueAssumption`. `ChoiceInv` was also checked by TLC
on the instance of `IntentsDispatch` and on one with four intents and three clicks.

### The session stream

`SessionStreamProofs`, for any number of events, attempts, faults, moves and fetches:

| Theorem | Establishes |
|---|---|
| `StreamTypeCorrect` | `Spec => []StreamTypeOK` |
| `TranscriptStaysWhole` | `Spec => []TranscriptIsWhole` |
| `OneStream` | `Spec => []OneStreamOpen` |
| `FeedIsKept` | `Spec => ImplementsFeed` |

`Whole` strengthens the property to what the refinement needs: the transcript and what the
outbox was told of are both beginnings of the log, the second at least as long.
`ReachFacts` shows that a flush applies an unbroken run of events, from the
well-foundedness of the natural numbers; `FlushGoesOn`, `TailGoesOn` and
`HistoryGoesOn` that each of the three sources keeps `Whole` and takes nothing from the
outbox. `Registered` is the other half: of the attempts only the registered one may
be streaming, and it was opened. `IInv` was also checked by TLC on the instance of `Stream`.

### The bridge

`SupervisorBridgeProofs`, for any number of Worker slots, faults and in-place updates:

| Theorem | Establishes |
|---|---|
| `BridgeTypeCorrect` | `Spec => []BridgeTypeOK` |
| `WorkersTakeTurns` | `Spec => []OneWorker` |
| `HeirsAreWriters` | `Spec => []HeirIsWriter` |
| `NoSecondSupervisor` | `Spec => OneSupervisor` |

`HeirIsWriter`, stated for the sandboxes with `Delivered` inputs, is not inductive: the child loads what is on disk when it is spawned.
`ConfigIsWritten` says that wherever a Supervisor runs, or a script is about to
launch one, the configuration on disk is not the plain legacy one; `EquippedStays` that an equipped
one neither comes nor goes, on disk or loaded; `HeirHasParent` that a child
has a Supervisor, so that a slot whose Supervisor is gone is not mistaken for one.
`OneWorker` needs the types only, and the case analysis of who may end whom.

`OneSupervisor` needs `LaunchIsAlone`: from the gate to the launch there is no
Supervisor, and nobody else is on the way to one. `NoSupervisor`, `Launch` and `Nohup` are the steps
that matter: the Worker that passed the gate is alone because it holds the lock (`OneWorker`), and
its script because its command line stops every later gate (`SupervisorLive`). `Calm` says what all other steps
have in common.

`HandOverProofs`, for the same constants, takes up what is promised while `Undisturbed`:

| Theorem | Establishes |
|---|---|
| `OnlyTheOwnerSwaps` | `Spec => []OnlyOwnerSwaps` |
| `DoneIsProved` | `Spec => DoneIsProven` |
| `ConfirmedRuntimeIsOwned` | `Spec => ConfirmedIsOwned` |

One invariant carries the three, `Undisturbed => HandOver`; a step never undoes a disturbance
(`WasUndisturbed`), so it is enough to follow the undisturbed steps. Before a Supervisor there is
one Worker process (`OneLegacy`); the one that launched waits for its script and then
finds the Supervisor (`Attended`); until `bridge.done` it does nothing but wait for its confirmation, and
the others wait for the lock (`OthersWait`), so that nobody swaps. Beside a Supervisor the others have loaded what is on disk
(`LoadedWritten`), and a Worker with the owned configuration is a
Supervisor's and neither bridges nor swaps (`OwnedOnly`, with `WrittenToLaunch`: the configuration is on disk
only on the way to a launch); this is where `OnlyOwnerSwaps` needs `Delivered`. The port is cleared before there is a Supervisor (`PortCleared`), so
what answers a confirmation is its AnyHarness, which goes on serving (`MarkServed`);
and until `bridge.done` is written the lock keeps the Supervisor's own Worker out (`DoneFirst`).
`Undisturbed => HandOver` was also checked by TLC on the instance of `Bridge`.

### Only model-checked

Every invariant and every action property of the passing runs is proved, and so are
the three refinements (`AtomicUpdate`, `Supervisor`, `EventFeed`). What remains with TLC is liveness (`ServiceRecovers`, `Settles`,
`EveryRequestDecided`, `RolloutConverges`, `EveryCallReturns`, `ExitIsCarriedOut`, `EveryIntentLeaves`,
`CatchesUp`, `ServedUnderSupervisor`, `HandedOver`): fairness and `ENABLED` are out of the prover's reach.

Some theorems have a hypothesis: `OrderlyUse`, `~Remote`, `~UnlinkFails`. Each is used; without it
TLC refutes the property (section 3).

## 6. Coverage, and what is not modelled

The repository has some 400 000 lines of TypeScript, most of them views, styles,
tests' hosts, generated clients (25 000 lines in two files) and tooling, and a core
in Rust and Python. The modules model the parts of the core and of the clients in which
state is shared and order matters; the share of the repository's lines that they
stand for is small, and would stay small if every protocol of it were modelled.

Not modelled, and why: rendering, layout, navigation, settings, the reducer that turns
events into transcript rows (a pure function of the events that `SessionStream`
delivers, with hundreds of cases and no interleaving); generated clients and data; CRUD
behind database transactions; thin wrappers around git, agents, files and providers.

## 7. Plan

1. `Supervisor`, `RuntimeUpdate` and their refinement; `ActivatedIsGated` as a theorem (done).
2. `SessionRegistry` and its first proofs (done, `TurnsRepaired` among them). Next: the
   writer properties for the disorderly callers with a repaired `UnloadUnavailable`.
3. `SessionIntents`, `SessionStream` and their proofs (done, `LastChoiceWins` for the local
   case among them). Next: the two repaired variants of the manager (a retry that keeps the
   token, a merge in every hydration) with `OpenStreamIsHeard` and `TranscriptGrows` proved of them.
4. `RuntimeUpdate` implements `Supervisor`, as a theorem, so that its theorems hold of the composed system (done).
5. `SupervisorBridge` and its proofs, also of what holds while `Undisturbed` (done). Next: a gate that
   exits when a Supervisor is live and the Worker is not its child, with `HandedOver` without
   `Undisturbed`; the server's relaunch on resume.
6. `SessionActor`, inside a generation, against an abstract `PromptQueue`: a queued prompt is
   run at most once and never lost, every durable turn is closed exactly once, every pending
   interaction is resolved, a Close is not lost to a later Dismiss. `SessionIntents` models its queue
   and config as far as a client observes them; the module would implement that.
7. `WorkspaceGate`: archive, restore and deletion against running sessions.
8. `WorkflowRuns`: claims and leases between server and runtime.

Theorems worth proving for these: at most once execution of prompts,
mutual exclusion of the workspace gate, uniqueness of a claim.
