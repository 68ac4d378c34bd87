------------------------- MODULE TranslationDispatch -------------------------
(***************************************************************************)
(* The process-wide translation dispatcher (src/translation/worker): the   *)
(* UI thread hands in requests for targets (windows), a worker thread      *)
(* turns each job into a task, tasks call the engine and route the         *)
(* response back.  Every step another thread can observe is an action.     *)
(*                                                                         *)
(* One UI thread makes all calls, so requests enter the channel in id      *)
(* order and the channel is the set of ids in phase "queued", received     *)
(* smallest first.  A RouteSlot (the Arc the map holds) is named by the    *)
(* id of the request that created it: a target registered again gets a     *)
(* slot with another name, which is what Arc::ptr_eq tells apart.          *)
(* Texts and results are left out: a response is the id it answers.        *)
(***************************************************************************)
EXTENDS Naturals, FiniteSets

CONSTANTS
    Target,         \* window handles, also reused by a later window
    None,           \* the target of an id not handed out yet
    MaxRequests,    \* bound: ids handed out in a behaviour (u64 in the code)
    MaxResponses,   \* MAX_RESPONSE_STORAGE
    HttpPermits,    \* permits of the HTTP semaphore
    LocalEngine,    \* ids whose job uses the blocking local engine: the engine
                    \* is a setting, which may change between two requests
    Hung            \* targets whose engine calls need not return (fairness only)

ASSUME DispatchAssumption ==
    /\ None \notin Target
    /\ MaxRequests \in Nat
    /\ MaxResponses \in Nat \ {0}
    /\ HttpPermits \in Nat \ {0}
    /\ LocalEngine \subseteq 1..MaxRequests
    /\ Hung \subseteq Target

VARIABLES
    next_id,    \* DispatchState.next_id
    job,        \* job[id]: what the DispatchJob of id carries
    phase,      \* phase[id]: where the request is
    routes,     \* routes[t]: the RouteSlot the map holds for t, 0 if none
    latest,     \* latest[s]: latest_id of slot s
    watch,      \* watch[s]: value of slot s's cancellation channel
    place,      \* place[id]: position of id's response in pending, 0 if absent
    pushes,     \* responses pushed so far: the last position used
    permits,    \* free permits of the HTTP semaphore
    notifying,  \* the id whose route_response holds the routes lock, 0 if none
    caller,     \* what the UI thread is doing inside request()
    sender,     \* the job channel's sending side
    worker,     \* the worker thread
    alive,      \* alive[t]: the window exists
    posted,     \* posted[t]: completion messages in the window's queue
    taken       \* taken[t]: the response t took last, 0 before the first

requestVars == <<next_id, job>>
slotVars    == <<routes, latest, watch>>
storeVars   == <<place, pushes>>
workerVars  == <<permits, notifying, sender, worker>>
windowVars  == <<alive, posted, taken>>

vars == <<requestVars, slotVars, storeVars, workerVars, windowVars, phase, caller>>

-----------------------------------------------------------------------------
Ids == 1..MaxRequests

Job == [target : Target \union {None}, slot : 0..MaxRequests]

NoJob == [target |-> None, slot |-> 0]

Open == {"calling", "queued", "waiting", "translating", "finished", "notifying"}

(* A request that left the dispatcher: answered, its notification failed,  *)
(* given up for a newer one, refused to the caller, or gone with the worker *)
Settled == {"answered", "unnotified", "superseded", "refused", "lost"}

Phase == {"unused"} \union Open \union Settled

TypeOK ==
    /\ next_id \in 1..(MaxRequests + 1)
    /\ job \in [Ids -> Job]
    /\ phase \in [Ids -> Phase]
    /\ routes \in [Target -> 0..MaxRequests]
    /\ latest \in [Ids -> 0..MaxRequests]
    /\ watch \in [Ids -> 0..MaxRequests]
    /\ place \in [Ids -> Nat]
    /\ pushes \in Nat
    /\ permits \in 0..HttpPermits
    /\ notifying \in 0..MaxRequests
    /\ caller \in {"idle", "publish", "send"}
    /\ sender \in {"open", "closed"}
    /\ worker \in {"starting", "running", "failed", "stopped"}
    /\ alive \in [Target -> BOOLEAN]
    /\ posted \in [Target -> Nat]
    /\ taken \in [Target -> 0..MaxRequests]

Init ==
    /\ next_id = 1
    /\ job = [id \in Ids |-> NoJob]
    /\ phase = [id \in Ids |-> "unused"]
    /\ routes = [t \in Target |-> 0]
    /\ latest = [s \in Ids |-> 0]
    /\ watch = [s \in Ids |-> 0]
    /\ place = [id \in Ids |-> 0]
    /\ pushes = 0
    /\ permits = HttpPermits
    /\ notifying = 0
    /\ caller = "idle"
    /\ sender = "open"
    /\ worker = "starting"
    /\ alive = [t \in Target |-> TRUE]
    /\ posted = [t \in Target |-> 0]
    /\ taken = [t \in Target |-> 0]

-----------------------------------------------------------------------------
(* The response store (DispatchState.pending)                              *)

Stored == {id \in Ids : place[id] # 0}

StoredFor(t) == {id \in Stored : job[id].target = t}

(* The first entry of a set of entries, in queue order. *)
IsFirst(id, S) == id \in S /\ \A other \in S : place[id] <= place[other]

(* DispatchState::drop_target *)
DropTarget(t) ==
    place' = [id \in Ids |-> IF job[id].target = t THEN 0 ELSE place[id]]

(* DispatchState::push_response: append, then drop the oldest over the cap. *)
PushResponse(id) ==
    LET appended == [place EXCEPT ![id] = pushes + 1]
        held == {r \in Ids : appended[r] # 0}
    IN  /\ pushes' = pushes + 1
        /\ IF Cardinality(held) <= MaxResponses
           THEN place' = appended
           ELSE \E oldest \in held :
                   /\ \A other \in held : appended[oldest] <= appended[other]
                   /\ place' = [appended EXCEPT ![oldest] = 0]

-----------------------------------------------------------------------------
(* The UI thread                                                           *)

(* request(), up to the store of latest_id: a fresh id, the target's slot  *)
(* (created when it has none), the slot's latest_id.  The routes lock is   *)
(* free: no route_response is between its two critical sections.           *)
BeginRequest(t) ==
    LET id   == next_id
        slot == IF routes[t] = 0 THEN id ELSE routes[t]
    IN  /\ caller = "idle"
        /\ alive[t]
        /\ notifying = 0
        /\ id <= MaxRequests
        /\ next_id' = id + 1
        /\ job' = [job EXCEPT ![id] = [target |-> t, slot |-> slot]]
        /\ routes' = [routes EXCEPT ![t] = slot]
        /\ latest' = [latest EXCEPT ![slot] = id]
        /\ phase' = [phase EXCEPT ![id] = "calling"]
        /\ caller' = "publish"
        /\ UNCHANGED <<watch, storeVars, workerVars, windowVars>>

Calling == next_id - 1

(* set_latest(), second half: the watch channel learns the new id, which   *)
(* wakes the tasks of older requests of the slot.                          *)
PublishLatest ==
    /\ caller = "publish"
    /\ watch' = [watch EXCEPT ![job[Calling].slot] = Calling]
    /\ caller' = "send"
    /\ UNCHANGED <<requestVars, phase, routes, latest, storeVars, workerVars,
                   windowVars>>

(* request(), the send: the job enters the channel. *)
SendJob ==
    /\ caller = "send"
    /\ sender = "open"
    /\ worker # "failed"
    /\ phase' = [phase EXCEPT ![Calling] = "queued"]
    /\ caller' = "idle"
    /\ UNCHANGED <<requestVars, slotVars, storeVars, workerVars, windowVars>>

(* request(), when the channel is closed on either side: the id is taken   *)
(* back from the slot and the caller gets WorkerUnavailable.               *)
RefuseJob ==
    LET slot == job[Calling].slot
    IN  /\ caller = "send"
        /\ sender = "closed" \/ worker = "failed"
        /\ phase' = [phase EXCEPT ![Calling] = "refused"]
        /\ latest' = [latest EXCEPT ![slot] = 0]
        /\ watch' = [watch EXCEPT ![slot] = 0]
        /\ caller' = "idle"
        /\ UNCHANGED <<requestVars, routes, storeVars, workerVars, windowVars>>

(* Mutant: unregister keeps the responses the target has not read. *)
UnregisterKeepsResponses(t) ==
    /\ notifying = 0
    /\ routes' = [routes EXCEPT ![t] = 0]
    /\ latest' = [s \in Ids |-> IF s = routes[t] THEN 0 ELSE latest[s]]
    /\ watch' = [s \in Ids |-> IF s = routes[t] THEN 0 ELSE watch[s]]
    /\ UNCHANGED place

(* Mutant: unregister does not wait for a route_response under way. *)
UnregisterUnlocked(t) ==
    /\ routes' = [routes EXCEPT ![t] = 0]
    /\ latest' = [s \in Ids |-> IF s = routes[t] THEN 0 ELSE latest[s]]
    /\ watch' = [s \in Ids |-> IF s = routes[t] THEN 0 ELSE watch[s]]
    /\ DropTarget(t)

(* DispatchShared::unregister: the slot leaves the map and is cancelled,   *)
(* and the responses not read yet go with it, all under the routes lock.   *)
Unregister(t) ==
    /\ notifying = 0
    /\ routes' = [routes EXCEPT ![t] = 0]
    /\ latest' = [s \in Ids |-> IF s = routes[t] THEN 0 ELSE latest[s]]
    /\ watch' = [s \in Ids |-> IF s = routes[t] THEN 0 ELSE watch[s]]
    /\ DropTarget(t)

(* cancel(): a cache hit or a text shown untranslated gives up the request *)
Cancel(t) ==
    /\ caller = "idle"
    /\ alive[t]
    /\ Unregister(t)
    /\ UNCHANGED <<requestVars, phase, pushes, workerVars, windowVars, caller>>

(* The window goes away: WM_DESTROY unregisters it, and the system discards *)
(* the messages still queued for it.                                        *)
CloseWindow(t) ==
    /\ caller = "idle"
    /\ alive[t]
    /\ Unregister(t)
    /\ alive' = [alive EXCEPT ![t] = FALSE]
    /\ posted' = [posted EXCEPT ![t] = 0]
    /\ UNCHANGED <<requestVars, phase, pushes, workerVars, taken, caller>>

(* A later window is given the handle of a destroyed one. *)
ReuseHandle(t) ==
    /\ caller = "idle"
    /\ ~alive[t]
    /\ alive' = [alive EXCEPT ![t] = TRUE]
    /\ UNCHANGED <<requestVars, phase, slotVars, storeVars, workerVars, posted,
                   taken, caller>>

(* WM_TRANSLATION_COMPLETE: take the target's oldest response, if any. *)
HandleComplete(t) ==
    /\ caller = "idle"
    /\ posted[t] > 0
    /\ posted' = [posted EXCEPT ![t] = @ - 1]
    /\ \/ /\ StoredFor(t) = {}
          /\ UNCHANGED <<place, taken>>
       \/ \E id \in StoredFor(t) :
             /\ IsFirst(id, StoredFor(t))
             /\ place' = [place EXCEPT ![id] = 0]
             /\ taken' = [taken EXCEPT ![t] = id]
    /\ UNCHANGED <<requestVars, phase, slotVars, pushes, workerVars, alive, caller>>

(* shutdown(): the sender is dropped.  The wait for the worker is bounded  *)
(* by two seconds, so the UI thread goes on whatever the worker does.      *)
Shutdown ==
    /\ caller = "idle"
    /\ sender = "open"
    /\ sender' = "closed"
    /\ UNCHANGED <<requestVars, phase, slotVars, storeVars, permits, notifying,
                   worker, windowVars, caller>>

-----------------------------------------------------------------------------
(* The worker thread                                                       *)

Queued == {id \in Ids : phase[id] = "queued"}

(* The tokio runtime is built, or the thread returns and drops the channel. *)
StartWorker ==
    /\ worker = "starting"
    /\ \/ /\ worker' = "running"
          /\ UNCHANGED phase
       \/ /\ worker' = "failed"
          /\ phase' = [id \in Ids |-> IF id \in Queued THEN "lost" ELSE phase[id]]
    /\ UNCHANGED <<requestVars, slotVars, storeVars, permits, notifying, sender,
                   windowVars, caller>>

(* The receive loop: a job that is no longer the newest of its slot is     *)
(* dropped, any other becomes a task.                                      *)
ReceiveJob ==
    /\ worker = "running"
    /\ \E id \in Queued :
          /\ \A other \in Queued : id <= other
          /\ phase' = [phase EXCEPT ![id] =
                         IF latest[job[id].slot] # id THEN "superseded" ELSE "waiting"]
    /\ UNCHANGED <<requestVars, slotVars, storeVars, workerVars, windowVars, caller>>

(* The channel is closed and empty: the runtime is shut down, and tasks    *)
(* are dropped at the await they stand at.                                 *)
StopWorker ==
    /\ worker = "running"
    /\ sender = "closed"
    /\ Queued = {}
    /\ worker' = "stopped"
    /\ phase' = [id \in Ids |-> IF phase[id] \in {"waiting", "translating"}
                                THEN "lost" ELSE phase[id]]
    /\ permits' = permits + Cardinality({id \in Ids \ LocalEngine :
                                             phase[id] = "translating"})
    /\ UNCHANGED <<requestVars, slotVars, storeVars, notifying, sender, windowVars,
                   caller>>

-----------------------------------------------------------------------------
(* The tasks                                                               *)

(* Mutant: a permit is given back whether or not one was acquired. *)
ReleaseAlways(id) == permits' = permits + 1

(* The permit an HTTP task holds while its engine call runs is given back. *)
Release(id) ==
    permits' = IF phase[id] = "translating" /\ id \notin LocalEngine
               THEN permits + 1 ELSE permits

(* run_job starts the engine: an HTTP engine needs a permit, the blocking  *)
(* local engine does not.                                                  *)
StartEngine(id) ==
    /\ phase[id] = "waiting"
    /\ \/ id \in LocalEngine /\ UNCHANGED permits
       \/ id \notin LocalEngine /\ permits > 0 /\ permits' = permits - 1
    /\ phase' = [phase EXCEPT ![id] = "translating"]
    /\ UNCHANGED <<requestVars, slotVars, storeVars, notifying, sender, worker,
                   windowVars, caller>>

(* translate_async returns, with a translation or an error: retries and key *)
(* fallback are inside.  The permit is released with the future.            *)
FinishEngine(id) ==
    /\ phase[id] = "translating"
    /\ phase' = [phase EXCEPT ![id] = "finished"]
    /\ Release(id)
    /\ UNCHANGED <<requestVars, slotVars, storeVars, notifying, sender, worker,
                   windowVars, caller>>

(* Mutant: the watch channel is looked at only before the engine starts. *)
GiveUpBeforeStart(id) ==
    /\ phase[id] = "waiting"
    /\ watch[job[id].slot] # id
    /\ phase' = [phase EXCEPT ![id] = "superseded"]
    /\ Release(id)
    /\ UNCHANGED <<requestVars, slotVars, storeVars, notifying, sender, worker,
                   windowVars, caller>>

(* select!: the watch channel no longer holds this id, the task returns    *)
(* and drops its future, wherever it stands.                               *)
GiveUp(id) ==
    /\ phase[id] \in {"waiting", "translating"}
    /\ watch[job[id].slot] # id
    /\ phase' = [phase EXCEPT ![id] = "superseded"]
    /\ Release(id)
    /\ UNCHANGED <<requestVars, slotVars, storeVars, notifying, sender, worker,
                   windowVars, caller>>

(* Mutant: the registration is compared, the newest id is not. *)
IsSameSlot(id) ==
    LET t == job[id].target
    IN  routes[t] # 0 /\ routes[t] = job[id].slot

(* The two tests of route_response, under the routes lock. *)
IsCurrent(id) ==
    LET t == job[id].target
    IN  /\ routes[t] # 0
        /\ routes[t] = job[id].slot
        /\ latest[job[id].slot] = id

(* route_response, up to the end of push_response: a response of another   *)
(* registration or of an older request is dropped.  The routes lock stays  *)
(* held until the notification is done.                                    *)
RouteResponse(id) ==
    /\ phase[id] = "finished"
    /\ notifying = 0
    /\ \/ /\ ~IsCurrent(id)
          /\ phase' = [phase EXCEPT ![id] = "superseded"]
          /\ UNCHANGED <<storeVars, notifying>>
       \/ /\ IsCurrent(id)
          /\ phase' = [phase EXCEPT ![id] = "notifying"]
          /\ PushResponse(id)
          /\ notifying' = id
    /\ UNCHANGED <<requestVars, slotVars, permits, sender, worker, windowVars, caller>>

(* PostMessageW succeeds. *)
NotifyTarget(id) ==
    LET t == job[id].target
    IN  /\ notifying = id
        /\ alive[t]
        /\ posted' = [posted EXCEPT ![t] = @ + 1]
        /\ phase' = [phase EXCEPT ![id] = "answered"]
        /\ notifying' = 0
        /\ UNCHANGED <<requestVars, slotVars, storeVars, permits, sender, worker,
                       alive, taken, caller>>

(* Mutant: the response of a failed notification stays stored. *)
FailNotifyKeepsResponse(id) ==
    /\ notifying = id
    /\ phase' = [phase EXCEPT ![id] = "unnotified"]
    /\ notifying' = 0
    /\ UNCHANGED <<requestVars, slotVars, storeVars, permits, sender, worker,
                   windowVars, caller>>

(* PostMessageW fails (full queue, no such window): the response is dropped *)
FailNotify(id) ==
    /\ notifying = id
    /\ place' = [place EXCEPT ![id] = 0]
    /\ phase' = [phase EXCEPT ![id] = "unnotified"]
    /\ notifying' = 0
    /\ UNCHANGED <<requestVars, slotVars, pushes, permits, sender, worker,
                   windowVars, caller>>

-----------------------------------------------------------------------------
UiThread ==
    \/ \E t \in Target : \/ BeginRequest(t) \/ Cancel(t) \/ CloseWindow(t)
                         \/ ReuseHandle(t) \/ HandleComplete(t)
    \/ PublishLatest \/ SendJob \/ RefuseJob \/ Shutdown

WorkerThread == StartWorker \/ ReceiveJob \/ StopWorker

Task(id) ==
    \/ StartEngine(id) \/ FinishEngine(id) \/ GiveUp(id)
    \/ RouteResponse(id) \/ NotifyTarget(id) \/ FailNotify(id)

Next == UiThread \/ WorkerThread \/ \E id \in Ids : Task(id)

Spec == Init /\ [][Next]_vars

(* What the threads' schedulers guarantee.  The UI thread finishes the call *)
(* it is in; it need not make another, nor read its messages.  A waiting    *)
(* task gets a permit in FIFO order, hence strong fairness.  An engine call *)
(* for a target in Hung need not return.                                    *)
Fairness ==
    /\ WF_vars(PublishLatest \/ SendJob \/ RefuseJob)
    /\ WF_vars(StartWorker) /\ WF_vars(ReceiveJob)
    /\ \A id \in Ids :
          /\ SF_vars(StartEngine(id))
          /\ WF_vars(FinishEngine(id) /\ job[id].target \notin Hung)
          /\ WF_vars(GiveUp(id))
          /\ WF_vars(RouteResponse(id))
          /\ WF_vars(NotifyTarget(id) \/ FailNotify(id))

FairSpec == Spec /\ Fairness

-----------------------------------------------------------------------------
(* Properties                                                              *)

(* A stored response belongs to the registration its target has now: no    *)
(* response outlives cancel() or the window, even when the handle or the   *)
(* target is registered again while old tasks still run.                   *)
StoredForCurrentRegistration ==
    \A id \in Stored : routes[job[id].target] = job[id].slot

(* Every stored response still has a completion message on its way, so the *)
(* consumer, which takes one response per message, never leaves one behind *)
(* - through evictions, failed notifications, cancels and handle reuse.    *)
WakeupForEveryResponse ==
    \A t \in Target :
        Cardinality(StoredFor(t)) <=
            posted[t] + (IF notifying # 0 /\ job[notifying].target = t THEN 1 ELSE 0)

(* Completion messages are posted only to a window that exists and is      *)
(* registered: the notifier's SAFETY comment rests on it.                  *)
NotifyOnlyRegistered ==
    [][\A t \in Target : posted'[t] > posted[t] => alive[t] /\ routes[t] # 0]_vars

(* A target whose engine calls hang does not hold up the others: every     *)
(* request of a healthy target leaves the dispatcher.                      *)
HealthyTargetsSettle ==
    \A id \in Ids :
        phase[id] = "queued" /\ job[id].target \notin Hung ~> phase[id] \in Settled

-----------------------------------------------------------------------------
(* The dispatcher implements latest-request delivery.  An id counts as     *)
(* answered from the moment its response is pushed.                        *)
WantedBy(t) == IF routes[t] = 0 THEN 0 ELSE latest[routes[t]]

Abstract == INSTANCE LatestRequest
    WITH issued   <- next_id - 1,
         wanted   <- [t \in Target |-> WantedBy(t)],
         answered <- {id \in Ids : phase[id] \in {"notifying", "answered", "unnotified"}},
         answers  <- [t \in Target |-> StoredFor(t)],
         read     <- taken

(* Only the newest request of a target is answered, at most once, and the  *)
(* consumer reads a target's responses in request order.                   *)
ImplementsLatestRequest == Abstract!Spec
=============================================================================
