----------------------------- MODULE HookWorker -----------------------------
(***************************************************************************)
(* Game hooking (src/hook/worker, src/app/hook_text.rs): the UI thread     *)
(* sends requests, one worker thread receives them, one thread per session *)
(* injects the DLL and reads its pipe, and the events of both come back    *)
(* through a queue whose arrival is announced by window messages.          *)
(*                                                                         *)
(* A session is named by the order of its attach.  The texts, engine names *)
(* and hook addresses of the DLL are one kind of event, "Text": the UI     *)
(* only passes them on.                                                    *)
(***************************************************************************)
EXTENDS Naturals, Sequences, FiniteSets

CONSTANTS
    MaxSessions,     \* bound: session threads started in a behaviour
    MaxRequests,     \* bound: requests sent in a behaviour
    MaxTexts,        \* bound: notifications each game sends
    MaxLostPosts,    \* bound: PostMessageW calls that fail
    BatchSize,       \* HOOK_EVENT_BATCH_SIZE
    PipeCapacity,    \* commands the host pipe buffers before a write blocks
    Frozen,          \* sessions whose game may stop running (fairness only)
    JoinMayTimeOut   \* a stopped thread may need more than the 2 s of the wait

ASSUME HookAssumption ==
    /\ MaxSessions \in Nat /\ MaxRequests \in Nat /\ MaxTexts \in Nat
    /\ MaxLostPosts \in Nat
    /\ BatchSize \in Nat \ {0} /\ PipeCapacity \in Nat \ {0}
    /\ Frozen \subseteq 1..MaxSessions
    /\ JoinMayTimeOut \in BOOLEAN

VARIABLES
    requests,      \* the worker's channel
    asked,         \* requests sent so far
    worker,        \* what the worker thread is doing
    active,        \* the ActiveSession the worker holds, 0 if none
    spawned,       \* session threads started so far
    thread,        \* thread[s]: where run_session of s is
    stop,          \* stop[s]: SessionShared.stop
    pipe,          \* pipe[s]: commands the DLL of s has not read
    texts,         \* texts[s]: notifications the DLL of s has sent
    queue,         \* EventQueue.queue
    notified,      \* EventQueue.notification_pending
    posted,        \* WM_APP_HOOK_STATE messages in the window's queue
    lostPosts,     \* PostMessageW calls that failed
    ui,            \* what the UI thread is doing
    batch,         \* the drained events handle_hook_state has not handled yet
    hook_session,  \* AppModel.runtime.hook_session: the session shown, 0 if none
    merge_timer    \* hook_merge_timer_active

channelVars == <<requests, asked>>
sessionVars == <<spawned, thread, stop, pipe, texts>>
eventVars   == <<queue, notified, posted, lostPosts>>
uiVars      == <<ui, batch, hook_session, merge_timer>>

vars == <<channelVars, worker, active, sessionVars, eventVars, uiVars>>

-----------------------------------------------------------------------------
Session == 1..MaxSessions

HookRequest == {"Attach", "Detach", "Command"}

HookEvent == [kind : {"Attached", "AttachFailed", "Detached", "Text"},
              session : 0..MaxSessions]

(* run_session: "attaching" is everything before the pipe exists, which     *)
(* never looks at the stop flag; "connecting" is wait_connect; "attached"   *)
(* is after the handshake and before the Attached event.                    *)
ThreadState == {"none", "attaching", "connecting", "handshaking", "attached",
                "reading", "done"}

WorkerState == {"idle", "replacing", "spawning", "detaching", "writing",
                "stopping", "exited"}

TypeOK ==
    /\ requests \in Seq(HookRequest)
    /\ asked \in 0..MaxRequests
    /\ worker \in WorkerState
    /\ active \in 0..MaxSessions
    /\ spawned \in 0..MaxSessions
    /\ thread \in [Session -> ThreadState]
    /\ stop \in [Session -> BOOLEAN]
    /\ pipe \in [Session -> 0..PipeCapacity]
    /\ texts \in [Session -> 0..MaxTexts]
    /\ queue \in Seq(HookEvent)
    /\ notified \in BOOLEAN
    /\ posted \in Nat
    /\ lostPosts \in 0..MaxLostPosts
    /\ ui \in {"idle", "handling", "shutdown", "gone"}
    /\ batch \in Seq(HookEvent)
    /\ hook_session \in 0..MaxSessions
    /\ merge_timer \in BOOLEAN

Init ==
    /\ requests = <<>> /\ asked = 0
    /\ worker = "idle" /\ active = 0 /\ spawned = 0
    /\ thread = [s \in Session |-> "none"]
    /\ stop = [s \in Session |-> FALSE]
    /\ pipe = [s \in Session |-> 0]
    /\ texts = [s \in Session |-> 0]
    /\ queue = <<>> /\ notified = FALSE /\ posted = 0 /\ lostPosts = 0
    /\ ui = "idle" /\ batch = <<>> /\ hook_session = 0 /\ merge_timer = FALSE

-----------------------------------------------------------------------------
(* The event queue.  Each operation holds the queue's lock throughout.     *)

(* The flag is set and PostMessageW called; when the message queue is full *)
(* the call fails and the flag is taken back.                              *)
Post ==
    \/ notified' = TRUE /\ posted' = posted + 1 /\ UNCHANGED lostPosts
    \/ /\ lostPosts < MaxLostPosts
       /\ lostPosts' = lostPosts + 1
       /\ notified' = FALSE
       /\ UNCHANGED posted

(* push_event: the window is woken unless a notification is under way, and *)
(* a failed post leaves no notification recorded.                          *)
PushEvent(kind, s) ==
    /\ queue' = Append(queue, [kind |-> kind, session |-> s])
    /\ IF notified THEN UNCHANGED <<notified, posted, lostPosts>>
       ELSE Post

(* notify_pending_events: what is left is announced again. *)
NotifyPendingEvents ==
    /\ UNCHANGED queue
    /\ IF queue = <<>> THEN notified' = FALSE /\ UNCHANGED <<posted, lostPosts>>
       ELSE Post

(* drain_events_batch: the flag is cleared only when nothing is left. *)
DrainEvents ==
    IF BatchSize >= Len(queue)
    THEN queue' = <<>> /\ batch' = queue /\ notified' = FALSE
    ELSE /\ queue' = SubSeq(queue, BatchSize + 1, Len(queue))
         /\ batch' = SubSeq(queue, 1, BatchSize)
         /\ UNCHANGED notified

-----------------------------------------------------------------------------
(* The UI thread: requests                                                 *)

(* HookWorker::request: the worker receives until shutdown() closes the    *)
(* channel, which is the last thing the UI thread does.                    *)
Send(request) ==
    /\ asked < MaxRequests
    /\ asked' = asked + 1
    /\ requests' = Append(requests, request)

(* The hooking window: connect, disconnect, install or search hooks.  It    *)
(* stays usable while a message box of handle_hook_state is open.           *)
AskFromDialog(request) ==
    /\ ui \in {"idle", "handling"}
    /\ Send(request)
    /\ UNCHANGED <<worker, active, sessionVars, eventVars, uiVars>>

(* stop_hook_session (overlay menu): the snapshot is taken down at once,   *)
(* before the worker has done anything.                                    *)
StopHookSession ==
    /\ ui = "idle"
    /\ hook_session # 0
    /\ Send("Detach")
    /\ hook_session' = 0
    /\ merge_timer' = FALSE
    /\ UNCHANGED <<worker, active, sessionVars, eventVars, ui, batch>>

(* HookWorker::shutdown, after the message loop: the channel is closed and *)
(* the worker waited for.                                                  *)
Shutdown ==
    /\ ui = "idle"
    /\ ui' = "shutdown"
    /\ UNCHANGED <<channelVars, worker, active, sessionVars, eventVars, batch,
                   hook_session, merge_timer>>

ChannelClosed == ui \in {"shutdown", "gone"}

(* shutdown returns: the worker is joined, or left behind after 2 s. *)
ShutdownReturns ==
    /\ ui = "shutdown"
    /\ worker = "exited" \/ JoinMayTimeOut
    /\ ui' = "gone"
    /\ UNCHANGED <<channelVars, worker, active, sessionVars, eventVars, batch,
                   hook_session, merge_timer>>

-----------------------------------------------------------------------------
(* The UI thread: events                                                   *)

(* WM_APP_HOOK_STATE: handle_hook_state drains a batch. *)
BeginHandling ==
    /\ ui = "idle"
    /\ posted > 0
    /\ posted' = posted - 1
    /\ DrainEvents
    /\ ui' = "handling"
    /\ UNCHANGED <<channelVars, worker, active, sessionVars, lostPosts, hook_session,
                   merge_timer>>

(* Attached: the snapshot, the merge timer (SetTimer may fail) and, when a *)
(* profile of the game was saved, the request that installs its hook.      *)
HandleAttached(s) ==
    /\ hook_session' = s
    /\ merge_timer' \in {TRUE, merge_timer}
    /\ Send("Command") \/ UNCHANGED channelVars

(* AttachFailed and Detached: handle_hook_detached, whatever session the   *)
(* event is of.                                                            *)
HandleDetached ==
    /\ hook_session' = 0
    /\ merge_timer' = FALSE
    /\ UNCHANGED channelVars

HandleEvent ==
    /\ ui = "handling"
    /\ batch # <<>>
    /\ \/ Head(batch).kind = "Attached" /\ HandleAttached(Head(batch).session)
       \/ Head(batch).kind \in {"AttachFailed", "Detached"} /\ HandleDetached
       \/ Head(batch).kind = "Text" /\ UNCHANGED <<channelVars, hook_session, merge_timer>>
    /\ batch' = Tail(batch)
    /\ UNCHANGED <<worker, active, sessionVars, eventVars, ui>>

(* The end of handle_hook_state: what arrived meanwhile or did not fit in  *)
(* the batch is announced.                                                 *)
FinishHandling ==
    /\ ui = "handling"
    /\ batch = <<>>
    /\ IF queue # <<>> THEN NotifyPendingEvents ELSE UNCHANGED eventVars
    /\ ui' = "idle"
    /\ UNCHANGED <<channelVars, worker, active, sessionVars, batch, hook_session,
                   merge_timer>>

(* The merge timer's tick, which also repairs a lost notification.  Windows *)
(* generates WM_TIMER only when no posted message is waiting.               *)
MergeTimerTick ==
    /\ ui = "idle"
    /\ merge_timer
    /\ posted = 0
    /\ queue # <<>>
    /\ NotifyPendingEvents
    /\ UNCHANGED <<channelVars, worker, active, sessionVars, uiVars>>

-----------------------------------------------------------------------------
(* The worker thread                                                       *)

HasServer(s) == thread[s] \in {"connecting", "handshaking", "attached", "reading"}

Receive(request) ==
    /\ worker = "idle"
    /\ requests # <<>>
    /\ Head(requests) = request
    /\ requests' = Tail(requests)
    /\ UNCHANGED asked

(* stop_session: the flag, then the I/O pending on the pipe is cancelled   *)
(* and a connected DLL told to detach.  Both only make the thread's I/O    *)
(* fail, which FailConnection and LeaveLoop allow at any time: an I/O the  *)
(* thread starts just after the cancellation is not hit.                   *)
StopSession == stop' = [stop EXCEPT ![active] = TRUE]

(* Attach: an old session is stopped first. *)
ReceiveAttach ==
    /\ Receive("Attach")
    /\ IF active = 0 THEN worker' = "spawning" /\ UNCHANGED stop
       ELSE worker' = "replacing" /\ StopSession
    /\ UNCHANGED <<active, spawned, thread, pipe, texts, eventVars, uiVars>>

(* Detach without a session is ignored. *)
ReceiveDetach ==
    /\ Receive("Detach")
    /\ IF active = 0 THEN UNCHANGED <<worker, stop>>
       ELSE worker' = "detaching" /\ StopSession
    /\ UNCHANGED <<active, spawned, thread, pipe, texts, eventVars, uiVars>>

(* send_command: ignored without a server, otherwise written without a     *)
(* time limit.                                                             *)
ReceiveCommand ==
    /\ Receive("Command")
    /\ IF active # 0 /\ HasServer(active) THEN worker' = "writing"
       ELSE UNCHANGED worker
    /\ UNCHANGED <<active, sessionVars, eventVars, uiVars>>

(* The write ends when the pipe has room, *)
FinishWrite ==
    /\ worker = "writing"
    /\ pipe[active] < PipeCapacity
    /\ pipe' = [pipe EXCEPT ![active] = @ + 1]
    /\ worker' = "idle"
    /\ UNCHANGED <<channelVars, active, spawned, thread, stop, texts, eventVars, uiVars>>

(* or fails when the game is gone. *)
FailWrite ==
    /\ worker = "writing"
    /\ worker' = "idle"
    /\ UNCHANGED <<channelVars, active, sessionVars, eventVars, uiVars>>

(* The server slot's lock is held by a write of the worker. *)
SlotLocked(s) == worker = "writing" /\ active = s

(* Mutant: the thread of the session being stopped is not waited for. *)
JoinSkipped == worker \in {"replacing", "detaching", "stopping"}

(* Mutant: the wait for the thread has no time limit. *)
JoinForever ==
    /\ worker \in {"replacing", "detaching", "stopping"}
    /\ thread[active] = "done"

(* stop_and_join: the thread has finished, or 2 s have passed. *)
Joined ==
    /\ worker \in {"replacing", "detaching", "stopping"}
    /\ thread[active] = "done" \/ JoinMayTimeOut

(* The old session is reported as detached, and forgotten. *)
FinishStop ==
    /\ Joined
    /\ worker # "stopping"
    /\ PushEvent("Detached", active)
    /\ active' = 0
    /\ worker' = IF worker = "replacing" THEN "spawning" ELSE "idle"
    /\ UNCHANGED <<channelVars, sessionVars, uiVars>>

(* The session thread is started, or cannot be. *)
SpawnSession ==
    /\ worker = "spawning"
    /\ worker' = "idle"
    /\ \/ /\ spawned < MaxSessions
          /\ spawned' = spawned + 1
          /\ thread' = [thread EXCEPT ![spawned + 1] = "attaching"]
          /\ active' = spawned + 1
          /\ UNCHANGED eventVars
       \/ /\ PushEvent("AttachFailed", 0)
          /\ UNCHANGED <<spawned, thread, active>>
    /\ UNCHANGED <<channelVars, stop, pipe, texts, uiVars>>

(* The channel is closed and empty: the last session is stopped. *)
CloseWorker ==
    /\ worker = "idle"
    /\ ChannelClosed
    /\ requests = <<>>
    /\ IF active = 0 THEN worker' = "exited" /\ UNCHANGED stop
       ELSE worker' = "stopping" /\ StopSession
    /\ UNCHANGED <<channelVars, active, spawned, thread, pipe, texts, eventVars, uiVars>>

ExitWorker ==
    /\ Joined
    /\ worker = "stopping"
    /\ worker' = "exited"
    /\ active' = 0
    /\ UNCHANGED <<channelVars, sessionVars, eventVars, uiVars>>

-----------------------------------------------------------------------------
(* A session thread and the game it reads                                  *)

Advance(s, from, to) ==
    /\ thread[s] = from
    /\ thread' = [thread EXCEPT ![s] = to]
    /\ UNCHANGED <<channelVars, worker, active, spawned, stop, pipe, texts, eventVars,
                   uiVars>>

(* The DLL is injected and the pipe created: no look at the stop flag. *)
OpenPipe(s) == Advance(s, "attaching", "connecting")

Connect(s) == Advance(s, "connecting", "handshaking")

Handshake(s) == Advance(s, "handshaking", "attached")

(* SetupError::always: no such process, no DLL, injection or pipe failed. *)
FailInjection(s) ==
    /\ thread[s] = "attaching"
    /\ thread' = [thread EXCEPT ![s] = "done"]
    /\ PushEvent("AttachFailed", s)
    /\ UNCHANGED <<channelVars, worker, active, spawned, stop, pipe, texts, uiVars>>

(* SetupError::unless_stopped: the DLL did not connect in 15 s, hung up,    *)
(* failed the handshake, or the stop cancelled the I/O.                     *)
FailConnection(s) ==
    /\ thread[s] \in {"connecting", "handshaking"}
    /\ ~SlotLocked(s)
    /\ thread' = [thread EXCEPT ![s] = "done"]
    /\ IF stop[s] THEN UNCHANGED eventVars ELSE PushEvent("AttachFailed", s)
    /\ UNCHANGED <<channelVars, worker, active, spawned, stop, pipe, texts, uiVars>>

ReportAttached(s) ==
    /\ thread[s] = "attached"
    /\ thread' = [thread EXCEPT ![s] = "reading"]
    /\ PushEvent("Attached", s)
    /\ UNCHANGED <<channelVars, worker, active, spawned, stop, pipe, texts, uiVars>>

(* The notification loop reads one notification and reports it. *)
ReadNotification(s) ==
    /\ thread[s] = "reading"
    /\ texts[s] < MaxTexts
    /\ texts' = [texts EXCEPT ![s] = @ + 1]
    /\ PushEvent("Text", s)
    /\ UNCHANGED <<channelVars, worker, active, spawned, thread, stop, pipe, uiVars>>

(* Mutant: the end of the connection is never reported. *)
LeaveLoopSilently(s) ==
    /\ thread[s] = "reading"
    /\ ~SlotLocked(s)
    /\ thread' = [thread EXCEPT ![s] = "done"]
    /\ UNCHANGED <<channelVars, worker, active, spawned, stop, pipe, texts, eventVars,
                   uiVars>>

(* The loop ends: the pipe is broken or its I/O cancelled, or the flag is  *)
(* seen.  Only an end nobody asked for is reported from here.              *)
LeaveLoop(s) ==
    /\ thread[s] = "reading"
    /\ ~SlotLocked(s)
    /\ thread' = [thread EXCEPT ![s] = "done"]
    /\ IF stop[s] THEN UNCHANGED eventVars ELSE PushEvent("Detached", s)
    /\ UNCHANGED <<channelVars, worker, active, spawned, stop, pipe, texts, uiVars>>

(* The DLL takes a command off its pipe. *)
ReadCommand(s) ==
    /\ HasServer(s)
    /\ pipe[s] > 0
    /\ pipe' = [pipe EXCEPT ![s] = @ - 1]
    /\ UNCHANGED <<channelVars, worker, active, spawned, thread, stop, texts, eventVars,
                   uiVars>>

-----------------------------------------------------------------------------
UiThread ==
    \/ \E request \in HookRequest : AskFromDialog(request)
    \/ StopHookSession \/ Shutdown \/ ShutdownReturns
    \/ BeginHandling \/ HandleEvent \/ FinishHandling \/ MergeTimerTick

WorkerThread ==
    \/ ReceiveAttach \/ ReceiveDetach \/ ReceiveCommand
    \/ FinishWrite \/ FailWrite
    \/ FinishStop \/ SpawnSession \/ CloseWorker \/ ExitWorker

SessionThread(s) ==
    \/ OpenPipe(s) \/ Connect(s) \/ Handshake(s)
    \/ FailInjection(s) \/ FailConnection(s)
    \/ ReportAttached(s) \/ ReadNotification(s) \/ LeaveLoop(s)

(* The process has ended: nothing happens any more, and nothing had to. *)
Ended ==
    /\ ui = "gone"
    /\ worker = "exited"
    /\ \A s \in Session : thread[s] \in {"none", "done"}
    /\ UNCHANGED vars

Next ==
    \/ UiThread
    \/ WorkerThread
    \/ \E s \in Session : SessionThread(s) \/ ReadCommand(s)
    \/ Ended

Spec == Init /\ [][Next]_vars

(* The UI thread handles its messages and its timer; it need not ask for   *)
(* anything.  The worker goes on when it can.  A game that is not frozen    *)
(* reads its commands; no session thread is assumed to make progress.       *)
Fairness ==
    /\ WF_vars(BeginHandling) /\ WF_vars(HandleEvent) /\ WF_vars(FinishHandling)
    /\ WF_vars(MergeTimerTick)
    /\ WF_vars(FinishWrite) /\ WF_vars(FinishStop) /\ WF_vars(SpawnSession)
    /\ WF_vars(ExitWorker)
    /\ \A s \in Session \ Frozen : WF_vars(ReadCommand(s))

FairSpec == Spec /\ Fairness

-----------------------------------------------------------------------------
(* Properties                                                              *)

Alive(s) == thread[s] \notin {"none", "done"}

(* The single-game policy: a session thread is started only when the one   *)
(* before it has ended.                                                    *)
AtMostOneSession ==
    \A s, r \in Session : Alive(s) /\ Alive(r) => s = r

(* Nothing is under way between the UI, the worker and a session thread. *)
Quiet ==
    /\ requests = <<>> /\ worker = "idle"
    /\ queue = <<>> /\ ui = "idle"
    /\ \A s \in Session : Alive(s) => thread[s] = "reading"

(* Once all events are handled, the session the UI shows is the one that   *)
(* is hooked, and it shows none when none is - after any order of attach,  *)
(* replace, detach, failure and loss of the game.                          *)
SnapshotSettles ==
    Quiet => IF hook_session = 0 THEN \A s \in Session : ~Alive(s)
             ELSE hook_session = active /\ Alive(hook_session)

(* The notification flag never sticks: it is set only while a message is   *)
(* on its way or being handled, and events wait unannounced only after a   *)
(* failed post.                                                            *)
EventsAnnounced ==
    /\ notified => posted > 0 \/ ui = "handling"
    /\ queue # <<>> => notified \/ ui = "handling" \/ lostPosts > 0

(* When the application's shutdown returns, no session is left behind. *)
NoSessionOutlivesApp ==
    ui = "gone" => \A s \in Session : ~Alive(s)

(* Sessions do not overlap and do not outlive the application.             *)
SessionsContained == AtMostOneSession /\ NoSessionOutlivesApp

(* What sessions tell is announced to the UI, which ends up showing it.    *)
EventsReachUi == EventsAnnounced /\ SnapshotSettles

(* The worker always returns to its channel: whatever a session thread     *)
(* does, a stop is bounded.                                                *)
WorkerReturns == worker \notin {"idle", "exited"} ~> worker \in {"idle", "exited"}

(* Events reach the UI, except that one whose message was lost waits for   *)
(* the next event when no merge timer runs.                                *)
EventsHandled ==
    queue # <<>> ~> \/ queue = <<>> \/ ChannelClosed
                    \/ lostPosts > 0 /\ ~merge_timer

(* A lost message is repaired by the timer's tick, also the very first one *)
(* (the comment in handle_hook_merge_timer).                               *)
LostPostRepaired == queue # <<>> ~> queue = <<>> \/ ChannelClosed
=============================================================================
