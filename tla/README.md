# Verification of anemone_rs in TLA+

anemone_rs is a Windows overlay that translates what the user copies and what a
hooked game displays. This directory holds TLA+ models of its concurrent parts,
the TLC configurations that check them, and proofs checked by TLAPS. Source
paths below are relative to `src/` of the crate; `PROJECT.json` maps every
definition to its lines.

## 1. The system

One UI thread owns the overlay window, the dialogs and the `App`; everything slow
runs beside it and comes back as a window message (`PostMessageW`), whose handler
fetches the data from a shared store. A post can fail, so data and message are two
things everywhere. The parts, the state they keep and what makes them correct:

| Part | State | Operations, interaction | Hard behaviour | Correct when |
|---|---|---|---|---|
| **Translation dispatcher** (`translation/worker/`) | routes (target -> `RouteSlot`), `latest_id` and a watch channel per slot, bounded response store, job channel, HTTP permits | UI: `request`, `cancel`, `take_response`, `unregister`, `shutdown`; worker thread receives jobs; one task per job acquires a permit, runs the engine, routes | tasks of older requests, cancelled registrations and reused handles run on; post fails after the store; hanging engines hold permits | only the newest request of a target is answered, at most once, in order, to its present registration; every stored response has its message; no target holds up another |
| **Hook worker** (`hook/worker/`, `app/hook_text.rs`, `hook/pipe_client/server.rs`) | request channel, the active session and its stop flag, event queue with a notification flag, UI's session snapshot, merge timer | UI sends attach, detach, command; worker starts and stops session threads; they push events | stop with a 2 s limit, injecting threads that do not look at the flag, full pipes, lost posts, shutdown during attach | one session at a time; the snapshot agrees with it in the end; events are announced; nothing is left hooked |
| **ezTrans translation cache** (`app/translation_cache.rs`) | table in memory, SQLite file, writer's channel, two flags, put counter | UI: `get`, `put`, `clear`; writer thread: put, clear, prune with reload of the table | queued prunes against clears, puts during a prune, SQL errors, restart | what is cleared stays cleared; the table is what the file will hold; both stay bounded |
| **Translation UI flow** (`app/translation.rs`, `app/hook_text.rs`, `app/commands/`, `app/action.rs`) | pending request, debounced text, hook merge window and sentence queue, the reasons to pause the clipboard, action queue | messages of clipboard, timers, hook, dispatcher, dialogs and commands | any of them between request and answer; failing calls of Windows; a dialog reopened before its predecessor's end is handled | the translation shown fits the original shown; the clipboard is watched exactly when nothing pauses it; sentences are not replaced and not stuck |
| **Hook text merger** (`hook/text_bridge/`) | pending text per thread, heap of deadlines, over-limit set | submit, flush_expired, drain_all | stale heap entries; text over the limit; a tick handled late | each fragment is emitted once, in order |
| **ezTrans pool and actor** (`translation/eztrans_process/`, `translation/eztrans_actor.rs`) | helper processes, their queues, one respawn | batches round robin, bisection of failed batches | first error ends a call while other batches run; helper never answers | the result of line i is that of line i; every caller gets an answer |
| **File translation** (`file_trans/`) | job, cancel flag, worker handle, progress messages, output file | start, cancel, shutdown; lines translated eight at a time | cancel between last line and persist; panic of a line | an output file is complete or untouched; exactly one Finished |
| **Update flow** (`update/worker.rs`, `app/update.rs`) | worker channels, `update_operation_in_progress`, `pending_update` | automatic and manual check, apply | results while a message box is open; dead worker | every operation ends and re-enables the button |
| **Application life cycle** (`app/lifecycle.rs`, `app/window_proc.rs`, `app/config_save.rs`) | deferred messages, action queue, services | start, reentrant window procedure, shutdown in order | messages during a modal loop; WM_DESTROY drops deferred ones | the last configuration is saved; services end |
| **Overlay window, rendering** (`app/window_proc*.rs`, `paint.rs`, `d2d/composition.rs`) | size and resolution in Windows, in the model and in the swap chain; timers for retries; deferred messages | size, drag and DPI messages; presenting a frame; composition after a failure | messages deferred while a handler waits in a menu or a box; a device that fails | in the end the picture is drawn at the window's size |
| **Settings and their saving** (`dialogs/settings`, `app/action.rs`, `app/config_save.rs`) | draft and preview, hotkeys, configuration, queue of actions, save worker | edit, apply, close, commands from outside, exit | a preview against a change from outside; commands the draft is not told of; a colour dialog that borrows the state; lost posts; leaving during a save | what is registered agrees with what is set; the last settings are in the file |
| **Configuration file** (`config/app.rs`, `fs_util.rs`) | `config.toml`, files set aside, temporary files | start, read, quarantine, relocate, save | two processes, a crash between two steps, a file that cannot be opened or parsed | the file is never half a save; what was not read is set aside first |
| **Engine calls, prepared jobs** (`translation/worker/translate.rs`, the service modules, `translation/job/`) | attempts and keys of a call; jobs kept by a stamp and a fingerprint | request, retry, next key; look up, prepare | 429 and 5xx answers, partial bodies; a configuration edited under a kept job | every key is asked; an answer is taken for what it is; a job fits the configuration |
| **Hook management window** (`dialogs/hook_find/`) | connection, search and its generation, candidates, hooks, streams | connect, search, install, select, close | results of an earlier search; sessions that change while the window is closed or waits in a box of its own | candidates are of this search; choices stay with their game |
| **Magnetic mode** (`magnetic.rs`, `app/commands/magnetic.rs`) | target, offset, flags that hold back further messages | events of foreign windows, commands, drag | lost posts, a target that is minimised or closed | the overlay stays beside its target and comes back with it |
| **Backlog** (`app/backlog.rs`, `dialogs/backlog/`) | the store, the window's copy, the control, waiting texts, saves | append with eviction, clear, save | texts during a box of the window; eviction; positions in the control | window and store agree, in order and once |
| **Dialogs** (`dialogs/host.rs`, `dialogs/translate/`) | lent states, deferred messages, disabled parents; request and text of the translation window | messages to a dialog whose handler waits in a box; edit, route, answer | a message for a state that is borrowed; an answer for an earlier text | no state is freed under its handler while the application runs; what is shown fits what is asked |
| Engine stubs, DLL injection, command line, support code | | | input and output | not modelled (section 7) |

`PROJECT.json` lists every part (`components`) and every behaviour that is hard to
test at its line (`hazards`).

## 2. The modules

| Module | What it is |
|---|---|
| `LatestRequest` | Abstract: what a consumer of the dispatcher may rely on, without threads, channels or locks. |
| `TranslationDispatch` | The dispatcher in detail; implements `LatestRequest`. |
| `TranslationUi` | The overlay's use of the dispatcher; composes the UI's state with an instance of `LatestRequest`. |
| `TranslateDialog` | The translation window's use of the dispatcher. |
| `HookWorker` | Worker thread, session threads, event queue and the UI's side of it. |
| `HookText` | From printed characters to sentences: stamps, half characters, merger, timer, and the messages put aside during a menu or a box. |
| `HookFind` | The hook management window; the hook worker is reduced to the order of its requests. |
| `TranslationCache` | Table, writer thread, file, restart. |
| `EngineCalls`, `Languages` | One engine call with its keys and retries; the languages of each engine. |
| `TranslationSettings`, `PreparedJobs` | Edits of the translation settings; jobs prepared from them, their stamps, fingerprints and cache keys. |
| `EzTransPool` | Pool and registry of helper processes for file translation. |
| `FileTranslation`, `FileText` | Supervisor, job threads, progress window; and the pure parts: lines, windows, batches, answers, names. |
| `UpdateFlow`, `UpdateRules` | Checks, downloads, replacing the executable, restart; which release is offered and when one is looked for. |
| `SettingsFlow`, `ConfigFile` | Settings as a transaction, actions, the save worker, leaving; the file under several processes and crashes. |
| `OverlayWindow`, `MagneticMode`, `Backlog`, `DialogHost` | The frame of the overlay; following a foreign window; translated texts and their window; dialogs whose states are lent. |
| `Hooks` | `HookWorker` and `HookFind` beside each other, as `MCSafety` and the proofs take them. |
| `MC*` | Instances for TLC. |
| `TranslationDispatch_proofs`, `TranslationUi_proofs`, `HookWorker_proofs`, `TranslationCache_proofs`, `FileTranslation_proofs` | Theorems about one module for all values of its constants (section 5). |
| `MCSafety_proofs`, `MCServices_proofs`, `MCApp_proofs` | Theorems about the parts that run side by side, likewise. |

**How state and actions correspond to the code.** Functions keep their names where
the action is one function; where other threads can act inside one, it is several.

*TranslationDispatch.* A request is its id; a `RouteSlot` is named by the id of the
request that created it, which is what `Arc::ptr_eq` distinguishes. `request()` is
three actions (`BeginRequest` under the state lock, `PublishLatest` for the atomic
store and the watch channel, `SendJob` or `RefuseJob`), since worker and tasks run
between them. `Cancel` and `CloseWindow` unregister and so wait for a
`route_response` that holds the lock. A task is `StartEngine`, `FinishEngine` or
`GiveUp`, then `RouteResponse` (comparison and store) and `NotifyTarget` or
`FailNotify` with the lock held. The store keeps its cap and drops the oldest. The
job channel is the set of queued ids, received smallest first; one thread sends, so
the order of ids is the order of sends. An engine call returns or hangs; what
happens inside it is `EngineCalls`.

*TranslationUi.* Everything runs on the UI thread and is one action per message,
except where a handler passes a point at which the dispatcher's threads may act, or
consists of two operations with choices of their own. `ui` then names the rest of
the handler: `pump` after a completion, `drain` after a hook text without a timer,
`menu`/`closing` inside the modal menu, `resume` after a dialog failed to open,
`actions` between two actions of one batch, `magnetic` and `listener` inside
`sync_window_state`. The window procedure defers all other messages then. A text is
its number, a dialog window its session number. `Paused` has the reasons of
`clipboard_capture_is_paused`; `PauseSucceeds`, `PauseFails`, `Resume` are the
functions of `commands/clipboard.rs` with both outcomes of the Windows call.

*HookWorker.* `worker` is the place in `worker_thread`: a blocked write
(`"writing"`), the wait for a stopped thread (`"stopping"`), and so on. `thread[s]`
is the place in `run_session`; before the pipe exists it does not look at the stop
flag, as in `attach_and_handshake`. `queue`, `notified` and `posted` are the event
queue, its flag, and the messages in the window's queue. The UI drains batches and
handles one event per step. *HookText* takes the session thread's side of one text
apart (stamp, decode, queue) and has `TextMerger` as a map of pending texts beside
its heap of deadlines. Its `app` says whether a handler waits in a menu or a box with `App`
borrowed, and which of the tick and the message of the queue were put aside, in their order;
`ReplayTick` and `ReplayState` handle them afterwards, the tick with the time of the replay. *HookFind* keeps the
generation numbers that the window and the DLL compare. `dialog.lent` is the box that answers
an invalid code, during which events find no state; the install button is a guard of its own
(`offered`), since a result that is drained enables it whatever the window waits for.

*TranslationCache.* Channel, thread, file and the two flags as in the released
build (the acknowledgements of the test build are absent). Translations are numbered by
their puts so that an older and a newer one of a key can be told apart.

*EzTransPool.* Each job's thread and each helper's thread has its place; the
registry's lock, the gate behind which helpers load, and the round robin counter are
variables. A batch is the tuple of its lines; the answers come back through a
channel per call. *FileTranslation* keeps of a line only whether it is blank and
how its translation ended; a temporary file is the sequence of lines written, and
replaces the output in one step, as `persist` does. Getting the ezTrans pool is a wait of the
job's thread that may not end and does not look at the cancel flag (`GetPool`, `DropPool`).
*FileText* has the limit of a line in the reader alone, where the code has it, and a path as
its text beside the file it leads to: the first is the key of the names that are proposed, the
second of those that are checked.

*UpdateFlow.* `worker` is the place of the update thread, `disk` the three files
beside each other (executable, backup, staged download), and `ui` the message box
that waits. `apply` is one action per file operation, with its failure and its
rollback. *SettingsFlow* has a configuration as one field per way in which it is written, and
the colour dialog during which `with_state` leaves the draft alone (`picker`). *ConfigFile*
splits reading, setting aside and saving at each call of the file system; a crash
is possible between any two. A name set aside remembers the processes that found it free too,
since between `exists()` and the rename another may take it.

*OverlayWindow* writes a handler as a function from a state to the states it may
leave, since the same code is reached from several messages. *DialogHost* keeps the
stack of handlers that wait in boxes, and so which states are lent; a message of a new
resolution carries it, and one put aside is handled with what it carries. *Backlog* has the
control as what the window gave it (`shown`) and how many characters were cut from its front
beyond the entries that were meant (`lost`): the window counts a line end as two, the control
has one. That the control (RichEdit) has one is knowledge about Windows, not in the repository;
with `LineEnds = {0}` the model is the one in which both count alike.

## 3. The runs

Modules that share no state are checked side by side in one run: the variable
`part` names the one that runs, the others stay at an initial state.

| Run | Shows | Bounds and why they are enough |
|---|---|---|
| `dispatch` | `TypeOK`, `StoredForCurrentRegistration`, `WakeupForEveryResponse`, `NotifyOnlyRegistered`; refinement `ImplementsLatestRequest`; `HealthyTargetsLeave` | Two windows and 3 requests: one window superseded and registered again beside the other. `fair`: 2 permits, store of 2; the calls of one window hang and can hold both permits. `contended`: 1 permit, store of 1, one request of a local engine, so that permit and store are competed for |
| `services` | cache: `NothingClearedReturns`, `TableFollowsFile`, `FlagsComeDown`; hook: `HookSettles`; text: `SentencesComeOut`; engine calls: `EveryKeyAsked`, `CallsEnd`; pool: `PoolServesCalls`, `PoolsSettle`; dialogs: `DialogsHold`, `ClosingEnds` | Cache: 3 keys for 1 row, a prune every 2 puts of 3, a clock to 2 with a TTL of 1, one SQL error, one restart. Hook: a session whose end outlasts the wait, one lost post. Text: 2 pieces, two merge windows, one menu. Calls: 2 calls that share the key counter, 2 keys, 2 retries. Pool: 2 jobs of one line that share or replace a pool, or one job alone with batches of 2, 1 and 1 lines, over 2 helpers; 2 deaths (the one respawn and a second), one hang. Dialogs: 5 messages, two resolutions, one failure, the end of the application at any moment |
| `ui` | `CaptureFollows`, `TranslationFitsOriginal`, `SentenceNotReplaced`, `QueuedTextsMove` | `capture`: 3 commands (open, reopen, one more), 2 dialogs, 2 actions, one session, one failing call; 1 text, since texts do not matter here. `texts`: 3 texts for a queue of 1 (translated, queued, dropping it), 2 requests, so that a late answer meets a newer request |
| `app` | `UpdateIsSafe`, `OperationsEnd`, `FrameSettles`, `ConfigAgrees`, `LastConfigSaved`, `CancelledJobsEnd` | Update: 6 clicks (check, download and apply, twice), one lost post, one fault. Overlay: 3 sizes, 2 resolutions, 4 events for 3 deferred messages handled 2 at a time, one fault. Settings: 2 looks, 2 hotkeys, 4 edits, commands and colours picked among them, one change from outside, one lost post. Files: an ezTrans job behind a job of either engine, with one line, one fault |
| `safety` | hook worker `SessionsContained`, `EventsReachUi`; `SentencesWhole`; `CandidatesOfThisSearch`, `WindowFollowsSessions`; `DialogTranslates`; `FilesFinishWhole`; `SettingsFit`; `FileIsWhole`, `ReplacedOnlyWhenRead`; `MagnetHolds`; `BacklogComplete`; `RulesHold` | Hook: 2 sessions, 4 requests (replace, stop during attach), batch of 2, pipe of 1, one lost post. Text: 2 sources, 3 pieces, one menu. Window: 2 addresses, 3 sessions (the second the one a stale candidate meets, the third a connection behind it), 3 steps among 2 searches, 2 installs, a text, a closing and a box. Files: 2 and 1 lines, one of them blank; an ezTrans job behind a job of either engine. File: application and command, 3 starts, one fault. Magnet: 2 windows, 3 events, one fault. Backlog: 2 entries of 3 bytes with no or two line ends, for 5 texts: the second eviction is the first that may eat an entry the store holds. Translation window: 2 texts, a slow and a fast route, 5 steps. Rules: all inputs up to 4 bytes or lines, a line limit of 3, names that are links |
| `hook_worker_slow_stop`, `hook_text_replay`, `ui_hooked_clipboard`, `settings_exit`, `hook_search`, `cache_key`, `config_unreadable` | findings 1 to 7 (section 6) | the smallest in which the violation appears |

Bounds that are not in the code (requests, texts, sessions, commands, restarts, clock
values, lost posts, failures) are constants named `Max...` that guard the action they
bound. The code's own limits (`MAX_RESPONSE_STORAGE`, permits, batch sizes, capacities,
row limit, puts per prune) are constants too, made small so that they are reached. No
run uses symmetry.

Deadlock is checked in `dispatch` and `hook_worker_slow_stop`. In
the others some part rests once its user has nothing more to do. Every property of a
passing run has a mutant of the model, listed in `PROJECT.json`, that violates it.

## 4. Fairness

- *Dispatcher*: the UI thread finishes the call it is in and need not begin another;
  worker and tasks run when they can. A waiting task gets a permit by strong fairness,
  since the semaphore serves in order. An engine call for a healthy target
  returns (HTTP time-outs); one for a target in `Hung` need not.
- *Hook worker*: the UI handles messages and ticks, the worker goes on when it can, a game
  that is not frozen reads its pipe. Session threads are not assumed to progress.
- *Hook text*: time passes and the session thread, the messages and the timer are served; a
  menu or a box is answered, and what was put aside meanwhile is replayed.
- *Cache*: the writer thread runs. The user need do nothing.
- *UI*: time passes (`Overtakes`), a handler ends, the user closes a menu, and the
  merge timer is served. The latter is strong fairness: ticks that meet a menu or a
  handler are deferred by the window procedure and handled afterwards.
- *Engine calls*: each call goes on; an answer comes or the time-out does.
- *Pool*, *file translation*: some thread that can take a step takes one. A helper that
  hangs and an engine that does not answer need not; the calls that must end
  are those that are cancelled or whose helpers answer. Getting a pool waits for the lock of
  the registry, for the helpers that start and for those that are dropped; it is not assumed to
  end, and `CancelledJobsEnd` excepts a job that waits there.
- *Update*, *settings*, *overlay*, *dialogs*: the message loop and the worker run, and
  the user answers a box that is open.

## 5. Proofs

| Module | Theorems | Inductive invariant |
|---|---|---|
| `TranslationDispatch_proofs` | `TypeCorrect`, `PermitsNeverLost`, `ResponsesOfCurrentRegistration`, `NotifiesOnlyRegistered`, `EveryResponseWakes`, `DeliversLatestRequests` | `DispatchInv` = `TypeInv`, `JobInv`, `SlotInv`, `StoreInv`; `CompletionInv` adds `NotifyInv`, `WakeInv` |
| `TranslationUi_proofs` | `TypeCorrect`, `TranslationsFit`, `CaptureIsInLine`, `SentencesStay` | `TypeOK`, `Fits`, `NoneDelayed`, `InLine`, `EndsAreOld` |
| `HookWorker_proofs` | `TypeCorrect`, `EventsAreAnnounced`, `SessionsAreContained`, `EventsReachTheUi` | `TypeOK`, `Held`, `InTime`, `Announced`, `BatchHandled`, `Settling` |
| `TranslationCache_proofs` | `TypeCorrect`, `ClearedIsGone`, `TableAgrees` | `TypeOK`, `Queue`, `Newer`, `Matches`, `Bounded` |
| `FileTranslation_proofs` | `OutputsAreWhole`, `ThreadsAreJoined`, `EndIsShown` | `Types`, `JobInv` (`TempInv`, `TaskInv`, `WrittenInv`), `OutputInv`, `NoThreadForgotten`; `ShownInv` (`Channel`, `DialogInv`) |
| `MCApp_proofs` | update: `TypeCorrect`, `UpdatesAreSafe`, `OneOperationAtATime`; settings: `SettingsFollowEachOther`, `SettingsAgreeInApp` | `IInv` = `Types`, `Underway`, `Offers`, `Replacing`; `SettingsInv` = `SettingsTypes`, `Announced`, `WindowInv`, `EffectsInv` |
| `MCServices_proofs` | `AsksEveryKey`, `DialogsAreHeld`, `ServesItsCalls` | `CallsInv`; `HostInv` (`HandlersInv`, `MessagesInv`, `EnabledInv`, `LayoutInv`); `PoolInv` (`PoolTyped`, `PoolLives`, `PoolLastingWork`, `PoolLastingAnswers`) |
| `MCSafety_proofs` | configuration file: `SavesAreAtomic`, `UnreadIsSetAside` | `FileInv` = `FileTypes`, `FileIsWhole`, `FileComplete`, `FileHasRead` |
| | translation window: `WaitsForWhatItShows` | `DialogInv` = `DialogTypes`, `DialogFits`, `AnswersHaveMessages`, `TranslationFitsWindow` |
| | hook management window: `ListsItsOwnSearch`, `WindowKeepsToItsGame` | `WindowInductive` (in `HookWorker_proofs`) |
| | magnetic mode: `KeepsBesideItsTarget` | what is on its way for each flag and for each move of the target |
| | files: `FinishesWhole` | that of `FileTranslation_proofs` |
| | backlog: `HoldsTheBacklog` | `LogInv` = `LogTextsOrdered`, `LogHoldsModel`, `SavesSettle` |
| | text merger: `SentencesComeWhole` | `TextInv` = `TextTypes`, the flow of each source, `TextClose`, `TextEnded` |
| | prepared jobs and languages: `SettingsStayFit` | `LookupInv` = `LookupJobsInv`, `JobFitsConfig`, `LookupProfilesInv`, `ProfilesKept` |

Each module states its conjuncts, proves that `Init` establishes them and that every
action of `Next` preserves them, one step per action and under it one per conjunct
that the action can disturb. Lemmas on frames say which actions leave a conjunct's
variables alone. In the `MC` modules a part runs alone, so a lemma `...Alone` first takes
the behaviours of all parts to behaviours of the one a theorem is about.

Assumptions are those the modules name, and TLC evaluates them in the runs:
`DispatchAssumption`, `HookAssumption`, `CacheAssumption`, `UiBounds`,
`ChunksAssumption`, `SettingsAssumption`, `BacklogAssumption` (bounds are natural numbers,
capacities at least 1), `TextAssumption` (windows are natural numbers, a text thread is not
called `"none"`), `NamedThreads` and `WindowsAssumption` (nor is a hook's thread, nor a
window; coordinates are integers), `FilesAssumption` (files have ends that ascend, a batch
at least one line), `PreparedAssumption` (the default provider is one of those to choose
from), `PoolAssumption` (a pool has a helper, a batch a line). Theorems state three more
themselves: `Counted` and `Sums` (the numbers of lines of files that are not instances of
`MCSafety`) and `~JoinMayTimeOut`. A failing call is a step of the models; a property
excepts what follows from one only where its definition says so. The settings are proved
about with any looks, hotkeys, edits and changes from outside, but with one lost message,
as `MCApp` instantiates them: with two `ConfigAgrees` does not hold (section 6).

Why the invariants are as strong as they are:

- *Dispatcher.* `permits <= HttpPermits` is not inductive: giving a permit back stays in
  range only if someone held it. `TypeInv` adds `PermitsConserved` (free permits plus
  HTTP tasks inside an engine call equal the semaphore's size) and `PhaseInv`. A
  response is stored after a comparison of slots that an earlier step made
  meaningful; so `JobInv` says how jobs name their slots, `SlotInv` that a slot is in the
  map of one target only and is never reused, `StoreInv` that stored ids have been
  routed once, in the order of their places. `WakeInv` counts: a target has at
  least as many messages as stored responses, not counting the one whose task holds the
  lock and is about to post. `DeliversLatestRequests` proves the refinement: `Init` maps
  to the abstract `Init`, and each action to an abstract step or a stutter, with one
  lemma per action.
- *UI.* A translation fits when it comes because the pending request was issued for
  the original shown (`Fits`). The listener is in line only *between* handlers, so
  `InLine` excepts the rests of handlers that bring it there, and `EndsAreOld` says
  that the notice of a dialog's end carries an older session than the open dialog.
  `NoneDelayed`: no copied text is delayed into a session, unless a call failed.
- *Hook worker.* `Held` and `InTime` relate the worker's place to the session it holds:
  its thread ends before the worker forgets it. The flag `notified` is up only while a
  message is on its way or a batch is being drained (`Announced`). `Settling` says what
  the events that are still queued will leave the UI showing. `SessionsAreContained`
  and `EventsReachTheUi` suppose that no wait of `stop_and_join` runs out. The hypothesis is needed: run `hook_worker_slow_stop`
  violates the first without it. `EventsAreAnnounced` needs no such hypothesis.
- *Cache.* While both flags are down the table is what the file will hold: for each key
  the last put in the channel, or else the row (`Matches`). `Queue` says what the flags
  stand for and that the channel has at most one prune and one clear, behind the puts;
  `Newer` that nothing in the file, the channel or the table is older than the last clear.
- *Update.* The button offers what can be applied because each outcome and each box
  that waits is matched with the file staged for it (`Offers`, `Underway`);
  `Replacing` says, at each step of the exchange, which of the three files is a program.
  `OneOperationAtATime` is about the flag `update_operation_in_progress` and not about the
  button: a settings window that opens during a download shows its button enabled.
- *File translation.* A temporary file holds the lines up to the last written
  (`TempInv`, `WrittenInv`), and a batch those that follow (`TaskInv`). The progress of a
  job ascends along its channel and what waits behind it, and its last message tells the
  total (`Channel`), so that merging progress messages does not lose the end (`DialogInv`).
  A job that drops the ezTrans pool has its result already, and one that waits for a pool
  has written nothing.
- *Configuration file.* A save replaces the file only by a complete temporary file
  (`Complete`), and the process that saves has read, set aside, or been refused
  what it replaces (`HasRead`).
- *Translation window.* While the window waits, its request names its text and its
  selection, and the dispatcher holds it as the one wanted or has its answer queued
  (`DialogFits`).
- *Settings.* The configuration differs from what the window shows, the hotkeys and the
  magnetism from those in force, only by actions that are still queued, or by a command that
  the window was not told of (`behind`); `Settles` says of a
  field that the last such action in the queue sets it to what is asked, and `Announced`
  that a queue without a message is the one lost message. `undone` marks that a preview took
  back such a command: then the look is no longer the one asked for last.
- *Hook management window.* With one connection, one search and one answer at a time on
  their way, an answer that comes is the one waited for (`WindowAlone`). This needs a user
  who lets a connection be made and a search end before closing the window or asking again
  (`~FindActsWhileBusy`); run `hook_search` shows what happens otherwise. An exchange asks
  for the new hook before it removes the old one (`WindowExchanged`); this, the choices and
  the streams hold however the user acts. `WindowInTurn` says of
  the events in their order which session the window is in as each is handled, and
  `WindowBelongs` of the hooks asked for that the game they are meant for is the worker's; what was asked for behind a connection under way, or
  after an event met a box of the window (`history.missed`), has no game it is meant for.
- *Magnetic mode.* Each flag that holds back messages has one message on its way that takes
  it down, and each change of the target's place or visibility has an event on its way that
  the overlay has still to follow.
- *Backlog.* The window's copy with the texts that wait for it, pushed one after the other,
  is what the application holds: of two stores of which one ends the other, it still does
  when both are pushed to, since a push keeps the longest end that fits. The control was given
  the copy (`shown`), exactly until a text is evicted and with one entry more in front after
  that, and nothing was cut into it as long as there is no entry more.
- *Text merger.* What a text thread printed is what was given out, then what is collected,
  then what is on its way, in this order (`TextFlow`). While a sentence is collected each
  piece was received within the window of the one before (`TextClose`), and after one that
  its timer ended no further piece was received within the window (`TextEnded`): the
  deadline had passed when the queue of events was empty, and pieces are stamped when
  they are read. A tick that was put aside is handled with pieces queued; a sentence that it
  ends is marked (`"replayed"`) and excepted.
- *Prepared jobs.* A job that is kept fits the configuration whose stamp it has, or has a
  dictionary that lay at the same address, and what was chosen for another provider lies
  among the profiles.
- *Engine calls.* The keys an attempt has asked are those from its first one on, modulo their
  number; when the offset has reached the number, these are all.
- *Dialogs.* States are lent to the handlers on the stack, each once; a message that was
  put aside is for a dialog that is lent (`HandlersInv`, `MessagesInv`); each message
  of a resolution that is queued or put aside carries the monitor's, and without one the
  monitor's is applied, unless two of them crossed (`LayoutInv`).
- *Pool.* The pieces of a batch that are queued, in work, or answered cover it without
  overlap, also when a failed piece is halved, and each carries its own lines; a helper
  that is asked belongs to a pool that a job holds, or whose close waits for the gate.

What is only model-checked, and why:

- all liveness (`HealthyTargetsLeave`, `FlagsComeDown`, `HookSettles`, `SentencesComeOut`,
  `CallsEnd`, `PoolsSettle`, `ClosingEnds`, `QueuedTextsMove`, `OperationsEnd`,
  `FrameSettles`, `LastConfigSaved`, `CancelledJobsEnd`), and `ENABLED`: not treated by the
  prover here. Of `OverlayWindow` and of the save worker nothing else is claimed;
- `RulesHold`: files, answers, releases and dates are run through the functions of `FileText`,
  `EngineCalls` and `UpdateRules` for all inputs within the bounds. These are tables and
  folds; the induction theorems of the library and what it knows of folds take an operator
  as a parameter, which the provers cannot instantiate.

Where a proof does need induction over data (sequences of texts, of pieces, of sizes), the
model has a recursive function in place of a fold, and the proof shows of the *set* of the
lengths for which a lemma holds that it is all of `Nat` (`SetInduction`, from the
existence of a least number).

## 6. Findings

Each is a run that is expected to find a violation of a statement of the source;
`PROJECT.json` quotes the statements.

1. *Two sessions at once* (`hook_worker_slow_stop`): `stop_and_join` gives up after 2 s and
   the next session starts although the old thread may still inject;
   `hook/worker/mod.rs:5-6` says at most one is alive.
2. *Replayed tick* (`hook_text_replay`): a tick of the merge timer that was put aside during a
   menu or a box is handled before the events that were put aside after it, with the time of
   the replay, and ends a sentence although its next piece, received within the window, is
   queued; `hook/text_bridge/merger.rs:35-36` says that a queue held up changes nothing.
3. *Clipboard during a hook* (`ui_hooked_clipboard`): when the listener cannot be removed,
   the debounced text survives the pause and is translated;
   `app/hook_text.rs:111-113` says only game text is.
4. *Preview saved* (`settings_exit`): leaving with the settings window open saves a preview
   that was never applied; `dialogs/settings/mod.rs:181` says it is taken back.
5. *Earlier results* (`hook_search`): a hook window closed during a search and opened again
   takes the results of the first search for its own;
   `dialogs/hook_find/search.rs:16-17` says the wait prevents this.
6. *Cache key* (`cache_key`): two custom APIs share a key;
   `translation/job/mod.rs:124-125` says the engine's name is enough.
7. *Unreadable file* (`config_unreadable`): a file that could not be read or set aside is
   replaced by the defaults when the application saves; `config/app.rs:381` and `374` say
   it is kept.

Observed while modelling; either no statement of the source is contradicted, or the
case is left out of a property, which says so at its definition:

- *Overlay.* A drag that returns to its first size leaves a wrong client size
  (`DragMayReturn`); a new resolution at the same size while a handler runs is not
  painted (`DpiMayKeepSize`). What is deferred when `WM_DESTROY` comes is lost.
- *Capture.* Opening a menu or dialog during a hook session cancels the sentence
  in flight; its place-holder stays. The notice that the settings window closed carries no
  session, so a window opened again meanwhile loses its pause.
- *Cache.* A cache whose file could not be opened still answers `get` with what was put;
  `app/translation_cache.rs:242` says it is always `None`.
- *Hook.* The timer that repairs lost posts starts with the first Attached event, so the
  post of that event is not repaired. Texts between `stop_hook_session` and
  Detached are accepted. Candidates collected while the window was closed are dropped
  when it opens.
- *Actions.* An action whose message is lost waits for the next one.
- *Files.* A cancelled ezTrans job may report an error of the backend. If the message that
  ends the progress window cannot be posted, the window stays. A file whose longest line passes
  the check stops with an error midway, when its reader meets the limit that the check does not
  have. Proposed names are compared as text and checked as files, so what is proposed for inputs
  named through links may be refused; two outputs that do not exist yet may be one file, reached
  through a link.
- *EzTrans in file jobs.* While a job gets its pool its cancel flag is not looked at: the
  registry waits for helpers under its lock, and joins the threads of a pool it replaces. When
  the application ends, dropping the registry joins them too, also one that hangs.
- *Pool.* A respawned helper does not pass the gate of the first start.
- *Update.* An update may be applied while a file is translated
  (`app/update.rs:181-182`). A staged download stays behind after a failed exchange. A
  check asked of a dead worker leaves the button disabled. A window opened during a download shows
  the button enabled; clicking it is refused by the flag. While a handler of the window waits,
  a new offer changes the button's label and not the state behind it.
- *Configuration.* Two applications may run and the last writer wins. Two that set a file
  aside within one second may take the same name, and one of the two is lost. A legacy DeepL key
  comes into force again when the last listed key is removed.
- *Engines.* An error body that cannot be read turns a 429 into an error that is not
  retried. Some services may return an empty text as a translation. Several DeepL keys
  end with the last key's error.
- *Magnetic mode.* A click on the tray icon shows or hides the overlay without telling the
  manager; hidden by it, the overlay does not come back with its target. `ComesBack`
  excepts what follows until the manager hears of it again (`overlay.untold`).
- *Settings.* With two lost messages a window may open over actions of its predecessor that
  still wait; discarding its draft then shows an older look (`ConfigAgrees`). Commands that
  change the text size, the background, the border or the click-through do not tell an open
  window: its next preview, its commit or its close undoes them. The magnetic mode does tell it,
  but not while its colour dialog is open.
- *Hook management window.* When a game is connected anew without a disconnection in between,
  the old session's Detached event enables the button that connects, so that a second
  connection can be asked for while the first is under way; it takes a third session and
  counts as acting while busy (`ActsWhileBusy`). A result that is drained enables the button that
  installs, whatever the window waits for: a candidate of the old game can be installed behind
  a connection and reach the new one. Texts and the end of a session that come while the box
  for an invalid code is open find the window's state lent: the texts go to the view kept for
  the next window, which closing this one overwrites, and the view is not cleared. The code
  avoids this for the context menu (`dialogs/hook_find/mod.rs:292-294`, `streams.rs:95-98`).
- *Backlog.* After an eviction the control keeps one entry too many, and each later eviction cuts
  a line end as two characters where the control has one, eating in time into entries that the
  store holds, until the control is filled anew. Texts between the
  click on clear and its action are lost. A lost message of a save leaves it running.
- *Translation window.* After an edit or a change of route gave a request up, the field
  keeps saying that it translates. A job that cannot be made leaves the earlier
  request, whose answer then covers the error.
- *Dialogs.* The end of the main window frees the states of dialogs whose handlers wait in a box
  (`StateOutlivesHandlers` is about the application while it runs). Of two changes of resolution
  during a box the first, put aside and posted again, may be handled last and leaves the
  layout at the older one (`crossed`).

## 7. Not modelled

Whole parts: the engine stubs (no state), DLL injection and the bytes of the pipe, the
command line (a sequential front end; `ConfigFile` has it as a process), support code.
What other modules see of them is a choice: an injection succeeds or fails, a post is
lost.

Of modelled parts: the ezTrans actor for single texts; a file's preview and the guess of
encodings other than UTF-8; HTTP, hashes and host names; the start of the process and
the singletons of Windows; request bodies, prompts and usage figures; the clamps of
single numbers and the text format of the configuration; menus, tray icons, DPI tables
and the hotkeys' dialog; what is drawn and the caches of layouts; the layout of
controls, the font picker, and of the colour dialog all but what it borrows and picks.

`TranslationUi` leaves out the actions that touch none of its state, and the clipboard's
read retries (a retry is another `ClipboardChanged`). It joins all threads of a game into
one merge window, since only the selected one is translated; `HookText` has several.
Dialogs that are open use a copy of the configuration from their opening; the routes of
those copies are not modelled.

## 8. Plan

Every safety property of the passing runs but `RulesHold` has its theorem. What is
left: the translation window as a consumer of `LatestRequest`, as the overlay is; the
capacities of `OverlayWindow`; and settings under more than one lost message, stated for
the actions that are not lost.
