-------------------------- MODULE HookWorker_proofs --------------------------
(***************************************************************************)
(* Proofs about the hook worker, for any number of sessions, requests,     *)
(* texts and lost messages: sessions do not overlap, events are announced, *)
(* and the UI ends up showing the session that is hooked.  A session       *)
(* thread that outlives the wait of stop_and_join breaks the first and the *)
(* last, so those suppose that the wait does not run out.  The last part is*)
(* the invariant of the hook management window, whose theorems are in      *)
(* MCSafety_proofs.                                                        *)
(***************************************************************************)
EXTENDS Hooks, SequenceTheorems, TLAPS

-----------------------------------------------------------------------------
(* The inductive invariant                                                 *)

Stopping == worker \in {"replacing", "detaching", "stopping"}

(* The worker and the session it holds.                                    *)
Held ==
    /\ active <= spawned
    /\ \A s \in Session : thread[s] # "none" \/ stop[s] => s <= spawned
    /\ Stopping \/ worker = "writing" => active # 0
    /\ worker \in {"spawning", "exited"} => active = 0
    /\ worker \in {"stopping", "exited"} => ChannelClosed
    /\ active # 0 => thread[active] # "none" /\ (stop[active] => Stopping)

(* A session thread ends before the worker forgets it, so the one held is  *)
(* the only one, and none is left when the worker has been waited for.     *)
InTime ==
    ~JoinMayTimeOut =>
        /\ \A s \in Session : Alive(s) => s = active
        /\ ui = "gone" => worker = "exited"

(* A notification is on its way, or what is left will be announced.        *)
Announced ==
    /\ notified => posted > 0 \/ (ui = "handling" /\ queue # << >>)
    /\ queue # << >> => notified \/ ui = "handling" \/ lostPosts > 0

Tells(e) == e.kind # "Text"
Told(e) == IF e.kind = "Attached" THEN e.session ELSE 0

(* Events w, handled by a UI that shows `from', leave it showing `to'.     *)
Leads(w, from, to) ==
    \/ from = to /\ \A i \in 1..Len(w) : ~Tells(w[i])
    \/ \E i \in 1..Len(w) :
          /\ Tells(w[i]) /\ Told(w[i]) = to
          /\ \A j \in 1..Len(w) : Tells(w[j]) => j <= i

(* What the UI will show when it has handled every event there is.         *)
WillShow(s) == Leads(batch \o queue, hook_session, s)

DetachAsked == \E i \in 1..Len(requests) : requests[i] = "Detach"

(* The UI will show the session held, if it reads; except that a session   *)
(* stopped from the menu is no longer shown and a request to stop it is on *)
(* its way, and a thread told to stop leaves the report to the worker.     *)
Settling ==
    ~JoinMayTimeOut =>
        /\ active = 0 /\ worker # "exited" => WillShow(0)
        /\ active # 0 /\ thread[active] \notin {"reading", "done"} => WillShow(0)
        /\ active # 0 /\ thread[active] = "reading"
              => WillShow(active) \/ DetachAsked \/ Stopping
        /\ active # 0 /\ thread[active] = "done" => WillShow(0) \/ Stopping

BatchHandled == ui # "handling" => batch = << >>

IInv == TypeOK /\ Held /\ InTime /\ Announced /\ BatchHandled /\ Settling

-----------------------------------------------------------------------------
(* Sequences of events                                                     *)

(* An event at the end decides what is shown; a text changes nothing.      *)
LEMMA LeadsAppend ==
  ASSUME NEW w \in Seq(HookEvent), NEW e \in HookEvent, NEW from, NEW to,
         Tells(e) \/ Leads(w, from, to)
  PROVE  Leads(Append(w, e), from, IF Tells(e) THEN Told(e) ELSE to)
<1> DEFINE a == Append(w, e)
<1>1. /\ Len(w) \in Nat /\ Len(a) = Len(w) + 1
      /\ \A i \in 1..Len(w) : a[i] = w[i]
      /\ a[Len(w) + 1] = e
  OBVIOUS
<1> HIDE DEF a
<1>2. CASE Tells(e)
  <2>1. Len(w) + 1 \in 1..Len(a) /\ \A j \in 1..Len(a) : j <= Len(w) + 1
    BY <1>1
  <2>2. Leads(a, from, Told(e))
    BY <1>1, <1>2, <2>1 DEF Leads
  <2> QED
    BY <1>2, <2>2 DEF a
<1>3. CASE ~Tells(e)
  <2>1. \A i \in 1..Len(a) : Tells(a[i]) => i \in 1..Len(w) /\ Tells(w[i])
    BY <1>1, <1>3
  <2>2. \A i \in 1..Len(w) : i \in 1..Len(a) /\ a[i] = w[i]
    BY <1>1
  <2>3. Leads(w, from, to)
    BY <1>3
  <2>4. Leads(a, from, to)
    BY <2>1, <2>2, <2>3 DEF Leads
  <2> QED
    BY <1>3, <2>4 DEF a
<1> QED
  BY <1>2, <1>3

(* What is left to handle leads on from what the first event shows.        *)
LEMMA LeadsTail ==
  ASSUME NEW w \in Seq(HookEvent), w # << >>, NEW from, NEW to, Leads(w, from, to)
  PROVE  Leads(Tail(w), IF Tells(Head(w)) THEN Told(Head(w)) ELSE from, to)
<1> DEFINE a == Tail(w)
           shown == IF Tells(Head(w)) THEN Told(Head(w)) ELSE from
<1>1. /\ Len(w) \in Nat /\ Len(w) >= 1 /\ Len(a) = Len(w) - 1 /\ Head(w) = w[1]
      /\ \A i \in 1..Len(a) : a[i] = w[i + 1]
  BY EmptySeq
<1> HIDE DEF a
<1>2. \A i \in 1..Len(a) : i + 1 \in 1..Len(w) /\ a[i] = w[i + 1]
  BY <1>1
<1>3. \A i \in 1..Len(w) : i # 1 => i - 1 \in 1..Len(a) /\ a[i - 1] = w[i]
  BY <1>1
<1>4. 1 \in 1..Len(w)
  BY <1>1
<1>5. CASE from = to /\ \A i \in 1..Len(w) : ~Tells(w[i])
  <2>1. ~Tells(Head(w)) /\ \A i \in 1..Len(a) : ~Tells(a[i])
    BY <1>1, <1>2, <1>4, <1>5
  <2> QED
    BY <1>5, <2>1 DEF Leads, a
<1>6. ASSUME NEW i \in 1..Len(w), Tells(w[i]), Told(w[i]) = to,
             \A j \in 1..Len(w) : Tells(w[j]) => j <= i
      PROVE  Leads(a, shown, to)
  <2>1. CASE i = 1
    <3>1. shown = to
      BY <1>1, <1>6, <2>1
    <3>2. \A j \in 1..Len(a) : ~Tells(a[j])
      <4> SUFFICES ASSUME NEW j \in 1..Len(a), Tells(a[j]) PROVE FALSE
        OBVIOUS
      <4>1. j + 1 \in 1..Len(w) /\ Tells(w[j + 1])
        BY <1>2
      <4>2. j + 1 <= 1
        BY <1>6, <2>1, <4>1
      <4> QED
        BY <1>1, <4>2
    <3> QED
      BY <3>1, <3>2 DEF Leads
  <2>2. CASE i # 1
    <3>1. i - 1 \in 1..Len(a) /\ Tells(a[i - 1]) /\ Told(a[i - 1]) = to
      BY <1>3, <1>6, <2>2
    <3>2. ASSUME NEW j \in 1..Len(a), Tells(a[j]) PROVE j <= i - 1
      <4>1. j + 1 \in 1..Len(w) /\ Tells(w[j + 1])
        BY <1>2, <3>2
      <4>2. j + 1 <= i
        BY <1>6, <4>1
      <4> QED
        BY <1>1, <4>2
    <3> QED
      BY <3>1, <3>2 DEF Leads
  <2> QED
    BY <2>1, <2>2
<1> QED
  BY <1>5, <1>6 DEF Leads, a

\* Without events the session shown stays.
LEMMA LeadsNowhere ==
  ASSUME NEW from, NEW to, Leads(<< >>, from, to)
  PROVE  from = to
BY DEF Leads

(* The batch is taken from the front of the queue: the order is kept.      *)
LEMMA DrainKeepsOrder ==
  ASSUME queue \in Seq(HookEvent), batch = << >>, DrainEvents, BatchSize \in Nat \ {0}
  PROVE  /\ batch' \in Seq(HookEvent) /\ queue' \in Seq(HookEvent)
         /\ batch' \o queue' = batch \o queue
<1>1. batch \o queue = queue /\ Len(queue) \in Nat /\ queue \o << >> = queue
  BY ConcatEmptySeq
<1>2. CASE BatchSize >= Len(queue)
  BY <1>1, <1>2, EmptySeq DEF DrainEvents
<1>3. CASE ~(BatchSize >= Len(queue))
  <2>1. /\ queue' = SubSeq(queue, BatchSize + 1, Len(queue))
        /\ batch' = SubSeq(queue, 1, BatchSize)
    BY <1>3 DEF DrainEvents
  <2>2. /\ 1 \in 1..(Len(queue) + 1) /\ BatchSize \in 0..Len(queue)
        /\ Len(queue) \in BatchSize..Len(queue)
    BY <1>1, <1>3
  <2>3. batch' \o queue' = SubSeq(queue, 1, Len(queue))
    <3>1. \A k \in (1 - 1)..Len(queue) : \A n \in k..Len(queue) :
             SubSeq(queue, 1, k) \o SubSeq(queue, k + 1, n) = SubSeq(queue, 1, n)
      BY <2>2, ConcatAdjacentSubSeq
    <3>2. BatchSize \in (1 - 1)..Len(queue)
      BY <2>2
    <3> QED
      BY <2>1, <2>2, <3>1, <3>2
  <2>4. SubSeq(queue, 1, Len(queue)) = queue
    BY SubSeqFull
  <2>5. \A i \in 1..Len(queue) : queue[i] \in HookEvent
    BY ElementOfSeq
  <2>6. /\ \A i \in 1..BatchSize : queue[i] \in HookEvent
        /\ \A i \in (BatchSize + 1)..Len(queue) : queue[i] \in HookEvent
    BY <1>1, <2>2, <2>5
  <2>7. batch' \in Seq(HookEvent) /\ queue' \in Seq(HookEvent)
    BY <1>1, <2>1, <2>6, SubSeqProperties
  <2> QED
    BY <1>1, <2>3, <2>4, <2>7
<1> QED
  BY <1>2, <1>3

-----------------------------------------------------------------------------
(* Types                                                                   *)

Kinds == {"Attached", "AttachFailed", "Detached", "Text"}

EventsOK ==
    /\ queue \in Seq(HookEvent) /\ notified \in BOOLEAN
    /\ posted \in Nat /\ lostPosts \in 0..MaxLostPosts

\* A post, lost or not, keeps the types of the announcement.
LEMMA PostType ==
  ASSUME TypeOK, Post
  PROVE  notified' \in BOOLEAN /\ posted' \in Nat /\ lostPosts' \in 0..MaxLostPosts
<1>1. notified' \in BOOLEAN
  BY DEF Post
<1>2. posted' \in Nat /\ lostPosts' \in 0..MaxLostPosts
  BY HookAssumption DEF Post, TypeOK
<1> QED
  BY <1>1, <1>2

\* A pushed event goes to the end of the queue.
LEMMA PushEventType ==
  ASSUME TypeOK, NEW kind \in Kinds, NEW s \in 0..MaxSessions, PushEvent(kind, s)
  PROVE  /\ [kind |-> kind, session |-> s] \in HookEvent
         /\ queue' = Append(queue, [kind |-> kind, session |-> s])
         /\ EventsOK'
<1> DEFINE e == [kind |-> kind, session |-> s]
<1>1. e \in HookEvent
  BY DEF HookEvent, Kinds
<1>2. queue' = Append(queue, e)
  BY DEF PushEvent
<1> HIDE DEF e
<1>3. queue' \in Seq(HookEvent)
  BY <1>1, <1>2 DEF TypeOK
<1>4. CASE notified
  BY <1>3, <1>4 DEF PushEvent, EventsOK, TypeOK
<1>5. CASE ~notified
  BY <1>3, <1>5, PostType DEF PushEvent, EventsOK
<1> QED
  BY <1>1, <1>2, <1>4, <1>5 DEF e

\* So does the notification for what the queue still holds.
LEMMA NotifyType == TypeOK /\ NotifyPendingEvents => EventsOK'
<1> SUFFICES ASSUME TypeOK, NotifyPendingEvents PROVE EventsOK'
  OBVIOUS
<1>1. CASE queue = << >>
  BY <1>1 DEF NotifyPendingEvents, EventsOK, TypeOK
<1>2. CASE queue # << >>
  BY <1>2, PostType DEF NotifyPendingEvents, EventsOK, TypeOK
<1> QED
  BY <1>1, <1>2

\* A request goes to the end of the channel.
LEMMA SendType ==
  ASSUME TypeOK, NEW request \in HookRequest, Send(request)
  PROVE  requests' \in Seq(HookRequest) /\ asked' \in 0..MaxRequests
         /\ requests' = Append(requests, request)
BY HookAssumption DEF Send, TypeOK

\* The idle worker takes the first request.
LEMMA ReceiveType ==
  ASSUME TypeOK, NEW request, Receive(request)
  PROVE  requests' \in Seq(HookRequest) /\ asked' \in 0..MaxRequests
         /\ worker = "idle" /\ requests # << >>
         /\ Head(requests) = request /\ requests' = Tail(requests)
BY DEF Receive, TypeOK

\* Every action keeps the types.
LEMMA StepTypeOK == TypeOK /\ Held /\ BatchHandled /\ [Next]_vars => TypeOK'
<1> SUFFICES ASSUME TypeOK, Held, BatchHandled, [Next]_vars PROVE TypeOK'
  OBVIOUS
<1> USE DEF channelVars, sessionVars, eventVars, uiVars
<1>0. /\ \A request \in HookRequest : request \in {"Attach", "Detach", "Command"}
      /\ "Attach" \in HookRequest /\ "Detach" \in HookRequest /\ "Command" \in HookRequest
      /\ Session = 1..MaxSessions /\ MaxSessions \in Nat
  BY HookAssumption DEF HookRequest, Session
<1>k. /\ 0 \in 0..MaxSessions
      /\ "AttachFailed" \in Kinds /\ "Detached" \in Kinds /\ "Text" \in Kinds
      /\ "Attached" \in Kinds
  BY <1>0 DEF Kinds
<1>1. CASE \E request \in HookRequest : AskFromDialog(request)
  BY <1>1, SendType DEF AskFromDialog, TypeOK
<1>2. CASE StopHookSession
  <2>1. requests' \in Seq(HookRequest) /\ asked' \in 0..MaxRequests
    BY <1>0, <1>2, SendType DEF StopHookSession
  <2>2. merge_timer' \in BOOLEAN
    BY <1>2 DEF StopHookSession
  <2>3. /\ hook_session' \in 0..MaxSessions
        /\ UNCHANGED <<worker, active, sessionVars, eventVars, ui, batch>>
    BY <1>k, <1>2 DEF StopHookSession
  <2> QED
    BY <2>1, <2>2, <2>3 DEF TypeOK
<1>3. CASE Shutdown
  BY <1>3 DEF Shutdown, TypeOK
<1>4. CASE ShutdownReturns
  BY <1>4 DEF ShutdownReturns, TypeOK
<1>5. CASE BeginHandling
  <2>1. batch' \in Seq(HookEvent) /\ queue' \in Seq(HookEvent)
    BY <1>5, DrainKeepsOrder, HookAssumption DEF BeginHandling, TypeOK, BatchHandled
  <2>2. notified' \in BOOLEAN
    BY <1>5 DEF BeginHandling, DrainEvents, TypeOK
  <2>3. posted' \in Nat
    BY <1>5 DEF BeginHandling, TypeOK
  <2> QED
    BY <1>5, <2>1, <2>2, <2>3 DEF BeginHandling, TypeOK
<1>6. CASE HandleEvent
  <2>1. batch' \in Seq(HookEvent) /\ Head(batch) \in HookEvent
    BY <1>6 DEF HandleEvent, TypeOK
  <2>2. Head(batch).session \in 0..MaxSessions
    BY <2>1 DEF HookEvent
  <2>3. requests' \in Seq(HookRequest) /\ asked' \in 0..MaxRequests
    <3>1. CASE HandleAttached(Head(batch).session)
      BY <1>0, <3>1, SendType DEF HandleAttached, TypeOK
    <3>2. CASE UNCHANGED channelVars
      BY <3>2 DEF TypeOK
    <3> QED
      BY <1>6, <3>1, <3>2 DEF HandleEvent, HandleDetached
  <2>4. merge_timer' \in BOOLEAN
    BY <1>6 DEF HandleEvent, HandleAttached, HandleDetached, TypeOK
  <2>5. hook_session' \in 0..MaxSessions
    <3>1. hook_session' \in {Head(batch).session, 0, hook_session}
      BY <1>6 DEF HandleEvent, HandleAttached, HandleDetached
    <3> QED
      BY <1>0, <2>2, <3>1 DEF TypeOK
  <2> QED
    BY <1>6, <2>1, <2>3, <2>4, <2>5 DEF HandleEvent, TypeOK
<1>7. CASE FinishHandling
  <2>1. EventsOK'
    BY <1>7, NotifyType DEF FinishHandling, EventsOK, TypeOK
  <2> QED
    BY <1>7, <2>1 DEF FinishHandling, TypeOK, EventsOK
<1>8. CASE MergeTimerTick
  BY <1>8, NotifyType DEF MergeTimerTick, TypeOK, EventsOK
<1>9. CASE ReceiveAttach
  <2>1. stop' \in [Session -> BOOLEAN]
    BY <1>9 DEF ReceiveAttach, StopSession, TypeOK
  <2> QED
    BY <1>9, <2>1, ReceiveType DEF ReceiveAttach, TypeOK, WorkerState
<1>10. CASE ReceiveDetach
  <2>1. stop' \in [Session -> BOOLEAN]
    BY <1>10 DEF ReceiveDetach, StopSession, TypeOK
  <2> QED
    BY <1>10, <2>1, ReceiveType DEF ReceiveDetach, TypeOK, WorkerState
<1>11. CASE ReceiveCommand
  BY <1>11, ReceiveType DEF ReceiveCommand, TypeOK, WorkerState
<1>12. CASE FinishWrite
  <2>1. active \in Session
    BY <1>0, <1>12 DEF FinishWrite, Held, TypeOK
  <2>2. pipe' \in [Session -> 0..PipeCapacity]
    BY <1>12, <2>1, HookAssumption DEF FinishWrite, TypeOK
  <2> QED
    BY <1>12, <2>2 DEF FinishWrite, TypeOK, WorkerState
<1>13. CASE FailWrite
  BY <1>13 DEF FailWrite, TypeOK, WorkerState
<1>14. CASE FinishStop
  <2>1. EventsOK'
    BY <1>14, PushEventType DEF FinishStop, TypeOK, Kinds
  <2> QED
    BY <1>0, <1>14, <2>1 DEF FinishStop, TypeOK, WorkerState, EventsOK
<1>15. CASE SpawnSession
  <2>1. EventsOK'
    <3>1. CASE PushEvent("AttachFailed", 0)
      BY <1>0, <1>k, <3>1, PushEventType
    <3>2. CASE UNCHANGED eventVars
      BY <3>2 DEF TypeOK, EventsOK
    <3> QED
      BY <1>15, <3>1, <3>2 DEF SpawnSession
  <2>2. spawned' \in 0..MaxSessions /\ active' \in 0..MaxSessions
    <3>1. active \in 0..MaxSessions /\ spawned \in 0..MaxSessions
      BY DEF TypeOK
    <3>2. CASE UNCHANGED <<spawned, active>>
      BY <3>1, <3>2
    <3>3. CASE spawned < MaxSessions /\ spawned' = spawned + 1 /\ active' = spawned + 1
      BY <1>0, <3>1, <3>3
    <3> QED
      BY <1>15, <3>2, <3>3 DEF SpawnSession
  <2>3. thread' \in [Session -> ThreadState]
    BY <1>15 DEF SpawnSession, TypeOK, ThreadState
  <2> QED
    BY <1>15, <2>1, <2>2, <2>3 DEF SpawnSession, TypeOK, WorkerState, EventsOK
<1>16. CASE CloseWorker
  <2>1. stop' \in [Session -> BOOLEAN]
    BY <1>16 DEF CloseWorker, StopSession, TypeOK
  <2> QED
    BY <1>16, <2>1 DEF CloseWorker, TypeOK, WorkerState
<1>17. CASE ExitWorker
  BY <1>0, <1>17 DEF ExitWorker, TypeOK, WorkerState
<1>18. ASSUME NEW s \in Session, OpenPipe(s) \/ Connect(s) \/ Handshake(s) PROVE TypeOK'
  <2>1. thread' \in [Session -> ThreadState]
    BY <1>18 DEF OpenPipe, Connect, Handshake, Advance, TypeOK, ThreadState
  <2> QED
    BY <1>18, <2>1 DEF OpenPipe, Connect, Handshake, Advance, TypeOK
<1>19. ASSUME NEW s \in Session, FailInjection(s) \/ FailConnection(s)
                                  \/ ReportAttached(s) \/ LeaveLoop(s)
       PROVE  TypeOK'
  <2>1. thread' \in [Session -> ThreadState]
    BY <1>19 DEF FailInjection, FailConnection, ReportAttached, LeaveLoop, TypeOK, ThreadState
  <2>2. \/ UNCHANGED eventVars
        \/ \E kind \in Kinds : PushEvent(kind, s)
    BY <1>19 DEF FailInjection, FailConnection, ReportAttached, LeaveLoop, Kinds
  <2>3. EventsOK'
    <3>1. CASE UNCHANGED eventVars
      BY <3>1 DEF TypeOK, EventsOK
    <3>2. CASE \E kind \in Kinds : PushEvent(kind, s)
      <4>1. s \in 0..MaxSessions
        BY <1>0
      <4> QED
        BY <3>2, <4>1, PushEventType
    <3> QED
      BY <2>2, <3>1, <3>2
  <2> QED
    BY <1>19, <2>1, <2>3
    DEF FailInjection, FailConnection, ReportAttached, LeaveLoop, TypeOK, EventsOK
<1>20. ASSUME NEW s \in Session, ReadNotification(s) PROVE TypeOK'
  <2>1. EventsOK'
    <3>1. s \in 0..MaxSessions /\ PushEvent("Text", s)
      BY <1>0, <1>20 DEF ReadNotification
    <3> QED
      BY <1>k, <3>1, PushEventType
  <2>2. texts' \in [Session -> 0..MaxTexts]
    BY <1>20, HookAssumption DEF ReadNotification, TypeOK
  <2> QED
    BY <1>20, <2>1, <2>2 DEF ReadNotification, TypeOK, EventsOK
<1>21. ASSUME NEW s \in Session, ReadCommand(s) PROVE TypeOK'
  <2>1. pipe' \in [Session -> 0..PipeCapacity]
    BY <1>21, HookAssumption DEF ReadCommand, TypeOK
  <2> QED
    BY <1>21, <2>1 DEF ReadCommand, TypeOK
<1>22. CASE UNCHANGED vars
  BY <1>22 DEF vars, TypeOK
<1> QED
  BY <1>1, <1>2, <1>3, <1>4, <1>5, <1>6, <1>7, <1>8, <1>9, <1>10, <1>11, <1>12, <1>13,
     <1>14, <1>15, <1>16, <1>17, <1>18, <1>19, <1>20, <1>21, <1>22
  DEF Next, UiThread, WorkerThread, SessionThread, Ended

-----------------------------------------------------------------------------
(* The session held                                                        *)

\* Every action keeps the worker in step with the session it holds.
LEMMA StepHeld == TypeOK /\ Held /\ [Next]_vars => Held'
<1> SUFFICES ASSUME TypeOK, Held, [Next]_vars PROVE Held'
  OBVIOUS
<1> USE DEF channelVars, sessionVars, eventVars, uiVars
<1>0. /\ Session = 1..MaxSessions /\ MaxSessions \in Nat
      /\ active \in 0..MaxSessions /\ spawned \in 0..MaxSessions
      /\ thread \in [Session -> ThreadState] /\ stop \in [Session -> BOOLEAN]
  BY HookAssumption DEF Session, TypeOK
<1>1. ASSUME UNCHANGED <<worker, active, spawned, thread, stop>>, ChannelClosed => ChannelClosed'
      PROVE  Held'
  BY <1>1 DEF Held, Stopping
<1>2. ASSUME UiThread PROVE Held'
  <2>1. UNCHANGED <<worker, active, spawned, thread, stop>>
    BY <1>2 DEF UiThread, AskFromDialog, StopHookSession, Shutdown, ShutdownReturns,
                BeginHandling, HandleEvent, FinishHandling, MergeTimerTick
  <2>2. ChannelClosed => ChannelClosed'
    BY <1>2 DEF UiThread, AskFromDialog, StopHookSession, Shutdown, ShutdownReturns,
                BeginHandling, HandleEvent, FinishHandling, MergeTimerTick, ChannelClosed
  <2> QED
    BY <1>1, <2>1, <2>2
(* The worker stops the session it holds, if any.                          *)
<1>3. ASSUME worker = "idle", UNCHANGED <<active, spawned, thread, ui>>,
             \/ active = 0 /\ UNCHANGED stop /\ worker' \in {"idle", "spawning", "exited"}
             \/ active # 0 /\ StopSession /\ worker' \in {"replacing", "detaching", "stopping"},
             worker' \in {"exited", "stopping"} => ChannelClosed
      PROVE  Held'
  <2>1. ChannelClosed' = ChannelClosed
    BY <1>3 DEF ChannelClosed
  <2>2. \A s \in Session : stop'[s] => stop[s] \/ s = active
    BY <1>0, <1>3 DEF StopSession
  <2>3. CASE active = 0
    BY <1>0, <1>3, <2>1, <2>2, <2>3 DEF Held, Stopping
  <2>4. CASE active # 0
    BY <1>0, <1>3, <2>1, <2>2, <2>4 DEF Held, Stopping
  <2> QED
    BY <2>3, <2>4
<1>4. CASE ReceiveAttach
  BY <1>3, <1>4 DEF ReceiveAttach, Receive
<1>5. CASE ReceiveDetach
  BY <1>3, <1>5 DEF ReceiveDetach, Receive
<1>6. CASE ReceiveCommand
  <2>1. worker = "idle" /\ worker' \in {"idle", "writing"} /\ (worker' = "writing" => active # 0)
        /\ UNCHANGED <<active, spawned, thread, stop, ui>>
    BY <1>6 DEF ReceiveCommand, Receive
  <2> QED
    BY <2>1 DEF Held, Stopping, ChannelClosed
<1>7. CASE FinishWrite \/ FailWrite
  BY <1>7 DEF FinishWrite, FailWrite, Held, Stopping, ChannelClosed
<1>8. CASE FinishStop
  BY <1>0, <1>8 DEF FinishStop, Joined, Held, Stopping, ChannelClosed
<1>9. CASE SpawnSession
  <2>1. active = 0 /\ worker = "spawning" /\ worker' = "idle" /\ UNCHANGED <<stop, ui>>
    BY <1>9 DEF SpawnSession, Held
  <2>2. CASE /\ spawned < MaxSessions /\ spawned' = spawned + 1
             /\ thread' = [thread EXCEPT ![spawned + 1] = "attaching"]
             /\ active' = spawned + 1
    <3>1. spawned + 1 \in Session /\ ~stop[spawned + 1]
      BY <1>0, <2>2 DEF Held
    <3>2. thread'[spawned + 1] = "attaching"
          /\ \A s \in Session : s # spawned + 1 => thread'[s] = thread[s]
      BY <1>0, <2>2, <3>1
    <3>3. \A s \in Session : thread'[s] # "none" \/ stop'[s] => s <= spawned'
      BY <1>0, <2>1, <2>2, <3>1, <3>2 DEF Held
    <3> QED
      BY <1>0, <2>1, <2>2, <3>1, <3>2, <3>3 DEF Held, Stopping, ChannelClosed
  <2>3. CASE UNCHANGED <<spawned, thread, active>>
    BY <2>1, <2>3 DEF Held, Stopping, ChannelClosed
  <2> QED
    BY <1>9, <2>2, <2>3 DEF SpawnSession
<1>10. CASE CloseWorker
  BY <1>3, <1>10 DEF CloseWorker
<1>11. CASE ExitWorker
  BY <1>0, <1>11 DEF ExitWorker, Joined, Held, Stopping, ChannelClosed
<1>12. ASSUME NEW s \in Session, SessionThread(s) PROVE Held'
  <2>1. /\ thread[s] # "none"
        /\ \/ UNCHANGED thread
           \/ \E to \in ThreadState \ {"none"} : thread' = [thread EXCEPT ![s] = to]
    BY <1>12 DEF SessionThread, OpenPipe, Connect, Handshake, Advance, FailInjection,
                 FailConnection, ReportAttached, ReadNotification, LeaveLoop, ThreadState
  <2>2. \A r \in Session : thread'[r] # "none" <=> thread[r] # "none"
    BY <1>0, <2>1
  <2>3. UNCHANGED <<worker, active, spawned, stop, ui>>
    BY <1>12 DEF SessionThread, OpenPipe, Connect, Handshake, Advance, FailInjection,
                 FailConnection, ReportAttached, ReadNotification, LeaveLoop
  <2> QED
    BY <1>0, <2>2, <2>3 DEF Held, Stopping, ChannelClosed
<1>13. ASSUME NEW s \in Session, ReadCommand(s) PROVE Held'
  BY <1>1, <1>13 DEF ReadCommand, ChannelClosed
<1>14. CASE UNCHANGED vars
  BY <1>1, <1>14 DEF vars, ChannelClosed
<1> QED
  BY <1>2, <1>4, <1>5, <1>6, <1>7, <1>8, <1>9, <1>10, <1>11, <1>12, <1>13, <1>14
  DEF Next, WorkerThread, Ended

-----------------------------------------------------------------------------
(* A session ends before the next is started                               *)

\* As long as joins end in time, every action keeps the session held the only one alive.
LEMMA StepInTime == TypeOK /\ Held /\ InTime /\ [Next]_vars => InTime'
<1> SUFFICES ASSUME TypeOK, Held, InTime, [Next]_vars, ~JoinMayTimeOut
             PROVE  /\ \A s \in Session : Alive(s)' => s = active'
                    /\ ui' = "gone" => worker' = "exited"
  BY DEF InTime
<1> USE DEF channelVars, sessionVars, eventVars, uiVars
<1>0. /\ Session = 1..MaxSessions /\ MaxSessions \in Nat
      /\ active \in 0..MaxSessions /\ spawned \in 0..MaxSessions
      /\ thread \in [Session -> ThreadState]
      /\ \A s \in Session : Alive(s) => s = active
      /\ ui = "gone" => worker = "exited"
  BY HookAssumption DEF Session, TypeOK, InTime
<1>1. ASSUME UNCHANGED <<active, thread>>
      PROVE  \A s \in Session : Alive(s)' => s = active'
  BY <1>0, <1>1 DEF Alive
<1>2. CASE UiThread
  <2>1. UNCHANGED <<worker, active, thread>>
    BY <1>2 DEF UiThread, AskFromDialog, StopHookSession, Shutdown, ShutdownReturns,
                BeginHandling, HandleEvent, FinishHandling, MergeTimerTick
  <2>2. ui' = "gone" => ui = "gone" \/ worker = "exited"
    BY <1>2 DEF UiThread, AskFromDialog, StopHookSession, Shutdown, ShutdownReturns,
                BeginHandling, HandleEvent, FinishHandling, MergeTimerTick
  <2> QED
    BY <1>0, <1>1, <2>1, <2>2
<1>3. CASE ReceiveAttach \/ ReceiveDetach \/ ReceiveCommand \/ FinishWrite \/ FailWrite
           \/ CloseWorker
  <2>1. UNCHANGED <<active, thread, ui>> /\ worker # "exited"
    BY <1>3 DEF ReceiveAttach, ReceiveDetach, ReceiveCommand, Receive, FinishWrite,
                FailWrite, CloseWorker
  <2> QED
    BY <1>0, <1>1, <2>1
<1>4. CASE FinishStop \/ ExitWorker
  <2>1. /\ UNCHANGED <<thread, ui>> /\ thread[active] = "done" /\ active # 0
        /\ worker # "exited"
    BY <1>4 DEF FinishStop, ExitWorker, Joined, Held, Stopping
  <2>2. \A s \in Session : ~Alive(s)
    BY <1>0, <2>1 DEF Alive
  <2> QED
    BY <1>0, <2>1, <2>2 DEF Alive
<1>5. CASE SpawnSession
  <2>1. active = 0 /\ worker = "spawning" /\ UNCHANGED ui
    BY <1>5 DEF SpawnSession, Held
  <2>2. \A s \in Session : ~Alive(s)
    BY <1>0, <2>1
  <2>3. CASE UNCHANGED <<active, thread>>
    BY <1>0, <1>1, <2>1, <2>3
  <2>4. CASE /\ spawned < MaxSessions
             /\ thread' = [thread EXCEPT ![spawned + 1] = "attaching"]
             /\ active' = spawned + 1
    BY <1>0, <2>1, <2>2, <2>4 DEF Alive
  <2> QED
    BY <1>5, <2>3, <2>4 DEF SpawnSession
<1>6. ASSUME NEW s \in Session, SessionThread(s)
      PROVE  /\ \A r \in Session : Alive(r)' => r = active'
             /\ ui' = "gone" => worker' = "exited"
  <2>1. UNCHANGED <<worker, active, ui>>
    BY <1>6 DEF SessionThread, OpenPipe, Connect, Handshake, Advance, FailInjection,
                FailConnection, ReportAttached, ReadNotification, LeaveLoop
  <2>2. /\ Alive(s)
        /\ UNCHANGED thread \/ \E to \in ThreadState : thread' = [thread EXCEPT ![s] = to]
    BY <1>6 DEF SessionThread, OpenPipe, Connect, Handshake, Advance, FailInjection,
                FailConnection, ReportAttached, ReadNotification, LeaveLoop, ThreadState, Alive
  <2>3. \A r \in Session : r # s => thread'[r] = thread[r]
    BY <1>0, <2>2
  <2> QED
    BY <1>0, <2>1, <2>2, <2>3 DEF Alive
<1>7. ASSUME NEW s \in Session, ReadCommand(s)
      PROVE  UNCHANGED <<worker, active, thread, ui>>
  BY <1>7 DEF ReadCommand
<1>8. CASE UNCHANGED vars
  BY <1>0, <1>1, <1>8 DEF vars
<1> QED
  BY <1>0, <1>1, <1>2, <1>3, <1>4, <1>5, <1>6, <1>7, <1>8 DEF Next, WorkerThread, Ended

-----------------------------------------------------------------------------
(* Announcements                                                           *)

(* After a post the flag stands for a message, or a post has failed.       *)
LEMMA PostAnnounces ==
  ASSUME TypeOK, Post
  PROVE  /\ notified' => posted' > 0
         /\ notified' \/ lostPosts' > 0
<1>1. posted \in Nat /\ lostPosts \in Nat
  BY HookAssumption DEF TypeOK
<1>2. CASE notified' = TRUE /\ posted' = posted + 1
  BY <1>1, <1>2
<1>3. CASE lostPosts' = lostPosts + 1 /\ notified' = FALSE
  BY <1>1, <1>3
<1> QED
  BY <1>2, <1>3 DEF Post

\* What is pushed is announced, or its post has been lost.
LEMMA PushAnnounces ==
  ASSUME TypeOK, Announced, NEW kind \in Kinds, NEW s \in 0..MaxSessions,
         PushEvent(kind, s), UNCHANGED ui
  PROVE  Announced'
<1>1. queue' # << >>
  <2>1. [kind |-> kind, session |-> s] \in HookEvent
        /\ queue' = Append(queue, [kind |-> kind, session |-> s])
    BY PushEventType
  <2>2. queue \in Seq(HookEvent)
    BY DEF TypeOK
  <2> QED
    BY <2>1, <2>2, AppendProperties
<1>2. CASE notified
  BY <1>1, <1>2 DEF PushEvent, Announced
<1>3. CASE ~notified
  <2>1. Post
    BY <1>3 DEF PushEvent
  <2> QED
    BY <2>1, PostAnnounces DEF Announced
<1> QED
  BY <1>2, <1>3

\* What is left of a batch is announced again.
LEMMA NotifyAnnounces ==
  ASSUME TypeOK, NotifyPendingEvents
  PROVE  Announced'
<1>1. CASE queue = << >>
  BY <1>1 DEF NotifyPendingEvents, Announced
<1>2. CASE queue # << >>
  BY <1>2, PostAnnounces DEF NotifyPendingEvents, Announced
<1> QED
  BY <1>1, <1>2

\* Every action keeps the events announced.
LEMMA StepAnnounced == TypeOK /\ Held /\ Announced /\ [Next]_vars => Announced'
<1> SUFFICES ASSUME TypeOK, Held, Announced, [Next]_vars PROVE Announced'
  OBVIOUS
<1> USE DEF channelVars, sessionVars, eventVars, uiVars
<1>k. /\ Session = 1..MaxSessions /\ MaxSessions \in Nat
      /\ 0 \in 0..MaxSessions /\ active \in 0..MaxSessions
      /\ "AttachFailed" \in Kinds /\ "Detached" \in Kinds /\ "Text" \in Kinds
      /\ "Attached" \in Kinds
  BY HookAssumption DEF Kinds, Session, TypeOK
<1>1. ASSUME UNCHANGED eventVars, ui = "handling" => ui' = "handling" PROVE Announced'
  BY <1>1 DEF Announced
<1>2. CASE \E request \in HookRequest : AskFromDialog(request)
  BY <1>1, <1>2 DEF AskFromDialog
<1>3. CASE StopHookSession \/ Shutdown \/ ShutdownReturns \/ HandleEvent
  BY <1>1, <1>3 DEF StopHookSession, Shutdown, ShutdownReturns, HandleEvent
<1>4. CASE BeginHandling
  <2>1. ui' = "handling"
    BY <1>4 DEF BeginHandling
  <2>2. notified' => ~(BatchSize >= Len(queue))
                     /\ queue' = SubSeq(queue, BatchSize + 1, Len(queue))
    BY <1>4 DEF BeginHandling, DrainEvents
  <2>3. notified' => queue' # << >>
    <3> SUFFICES ASSUME notified' PROVE queue' # << >>
      OBVIOUS
    <3>1. BatchSize \in Nat /\ Len(queue) \in Nat /\ BatchSize + 1 <= Len(queue)
      BY <2>2, HookAssumption DEF TypeOK
    <3>2. \A i \in (BatchSize + 1)..Len(queue) : queue[i] \in HookEvent
      BY <3>1 DEF TypeOK
    <3>3. Len(queue') = Len(queue) - (BatchSize + 1) + 1
      BY <2>2, <3>1, <3>2, SubSeqProperties
    <3>4. Len(queue') # 0
      BY <3>1, <3>3
    <3> QED
      BY <3>4, EmptySeq
  <2> QED
    BY <2>1, <2>3 DEF Announced
<1>5. CASE FinishHandling
  <2>1. CASE queue # << >>
    BY <1>5, <2>1, NotifyAnnounces DEF FinishHandling
  <2>2. CASE queue = << >>
    BY <1>5, <2>2 DEF FinishHandling, Announced
  <2> QED
    BY <2>1, <2>2
<1>6. CASE MergeTimerTick
  BY <1>6, NotifyAnnounces DEF MergeTimerTick
<1>7. CASE ReceiveAttach \/ ReceiveDetach \/ ReceiveCommand \/ FinishWrite \/ FailWrite
           \/ CloseWorker \/ ExitWorker
  BY <1>1, <1>7 DEF ReceiveAttach, ReceiveDetach, ReceiveCommand, FinishWrite, FailWrite,
                    CloseWorker, ExitWorker
<1>8. CASE FinishStop
  BY <1>8, <1>k, PushAnnounces DEF FinishStop
<1>9. CASE SpawnSession
  <2>1. UNCHANGED ui /\ (PushEvent("AttachFailed", 0) \/ UNCHANGED eventVars)
    BY <1>9 DEF SpawnSession
  <2>2. PushEvent("AttachFailed", 0) => Announced'
    BY <1>k, <2>1, PushAnnounces
  <2> QED
    BY <1>1, <2>1, <2>2
<1>10. ASSUME NEW s \in Session, SessionThread(s) PROVE Announced'
  <2>1. UNCHANGED ui /\ (UNCHANGED eventVars \/ \E kind \in Kinds : PushEvent(kind, s))
    BY <1>k, <1>10 DEF SessionThread, OpenPipe, Connect, Handshake, Advance, FailInjection,
                 FailConnection, ReportAttached, ReadNotification, LeaveLoop
  <2>2. s \in 0..MaxSessions
    BY <1>k
  <2>3. ASSUME NEW kind \in Kinds, PushEvent(kind, s) PROVE Announced'
    BY <2>1, <2>2, <2>3, PushAnnounces
  <2> QED
    BY <1>1, <2>1, <2>3
<1>11. ASSUME NEW s \in Session, ReadCommand(s) PROVE Announced'
  BY <1>1, <1>11 DEF ReadCommand
<1>12. CASE UNCHANGED vars
  BY <1>1, <1>12 DEF vars
<1> QED
  BY <1>2, <1>3, <1>4, <1>5, <1>6, <1>7, <1>8, <1>9, <1>10, <1>11, <1>12
  DEF Next, UiThread, WorkerThread, Ended

-----------------------------------------------------------------------------
(* What the UI will show                                                   *)

\* A batch is there only while it is handled.
LEMMA StepBatchHandled == TypeOK /\ BatchHandled /\ [Next]_vars => BatchHandled'
<1> SUFFICES ASSUME TypeOK, BatchHandled, [Next]_vars PROVE BatchHandled'
  OBVIOUS
<1> USE DEF uiVars
<1>1. CASE UiThread
  <2>1. \/ UNCHANGED <<ui, batch>>
        \/ batch = << >> /\ UNCHANGED batch
        \/ ui = "handling" /\ UNCHANGED ui
        \/ ui' = "handling"
    BY <1>1 DEF UiThread, AskFromDialog, StopHookSession, Shutdown, ShutdownReturns,
                BeginHandling, HandleEvent, FinishHandling, MergeTimerTick, BatchHandled
  <2> QED
    BY <2>1 DEF BatchHandled
<1>2. ASSUME WorkerThread \/ \E s \in Session : SessionThread(s) \/ ReadCommand(s)
      PROVE  UNCHANGED <<ui, batch>>
  BY <1>2 DEF WorkerThread, ReceiveAttach, ReceiveDetach, ReceiveCommand, FinishWrite,
      FailWrite, FinishStop, SpawnSession, CloseWorker, ExitWorker, SessionThread, OpenPipe,
      Connect, Handshake, Advance, FailInjection, FailConnection, ReportAttached,
      ReadNotification, LeaveLoop, ReadCommand
<1>3. UNCHANGED vars => UNCHANGED <<ui, batch>>
  BY DEF vars
<1> QED
  BY <1>1, <1>2, <1>3 DEF Next, Ended, BatchHandled

\* What a pushed event makes the UI show in the end.
LEMMA PushShows ==
  ASSUME TypeOK, NEW kind \in Kinds, NEW s \in 0..MaxSessions, PushEvent(kind, s),
         UNCHANGED <<batch, hook_session>>
  PROVE  /\ kind = "Text" => \A to : WillShow(to) => WillShow(to)'
         /\ kind \in {"AttachFailed", "Detached"} => WillShow(0)'
         /\ kind = "Attached" => WillShow(s)'
<1> DEFINE e == [kind |-> kind, session |-> s]
           w == batch \o queue
<1>1. e \in HookEvent /\ queue' = Append(queue, e) /\ e.kind = kind /\ e.session = s
  BY PushEventType
<1> HIDE DEF e
<1>2. batch \in Seq(HookEvent) /\ queue \in Seq(HookEvent) /\ w \in Seq(HookEvent)
  BY ConcatProperties DEF TypeOK
<1>3. batch' \o queue' = Append(w, e)
  <2>1. <<e>> \in Seq(HookEvent)
    BY <1>1
  <2>2. queue' = queue \o <<e>> /\ Append(w, e) = w \o <<e>>
    BY <1>1, <1>2, AppendIsConcat
  <2>3. batch \o (queue \o <<e>>) = w \o <<e>>
    BY <1>2, <2>1, ConcatAssociative
  <2> QED
    BY <2>2, <2>3
<1> HIDE DEF w
<1>4. ASSUME NEW to, Tells(e) \/ Leads(w, hook_session, to)
      PROVE  Leads(batch' \o queue', hook_session', IF Tells(e) THEN Told(e) ELSE to)
  BY <1>1, <1>2, <1>3, <1>4, LeadsAppend
<1>5. CASE kind = "Text"
  <2>1. ~Tells(e)
    BY <1>1, <1>5 DEF Tells
  <2> QED
    BY <1>4, <1>5, <2>1 DEF WillShow, w
<1>6. CASE kind # "Text"
  <2>1. Tells(e) /\ (kind = "Attached" => Told(e) = s) /\ (kind # "Attached" => Told(e) = 0)
    BY <1>1, <1>6 DEF Tells, Told
  <2>2. Leads(batch' \o queue', hook_session', Told(e))
    BY <1>4, <2>1
  <2> QED
    BY <1>6, <2>1, <2>2 DEF WillShow
<1> QED
  BY <1>5, <1>6

\* Handling an event does not change what will be shown in the end.
LEMMA HandleShows ==
  ASSUME TypeOK, HandleEvent
  PROVE  \A to : WillShow(to) => WillShow(to)'
<1> DEFINE w == batch \o queue
<1>1. /\ batch \in Seq(HookEvent) /\ batch # << >> /\ queue \in Seq(HookEvent)
      /\ batch' = Tail(batch) /\ queue' = queue
      /\ Head(batch) \in HookEvent
  BY DEF HandleEvent, TypeOK, eventVars
<1>2. /\ w \in Seq(HookEvent) /\ w # << >>
      /\ Tail(w) = batch' \o queue' /\ Head(w) = Head(batch)
  <2>1. Len(batch) \in Nat /\ Len(batch) >= 1 /\ Len(queue) \in Nat
    BY <1>1, EmptySeq
  <2>2. w \in Seq(HookEvent) /\ Len(w) = Len(batch) + Len(queue)
        /\ \A i \in 1..Len(batch) + Len(queue) :
              w[i] = IF i <= Len(batch) THEN batch[i] ELSE queue[i - Len(batch)]
    BY <1>1, ConcatProperties
  <2> HIDE DEF w
  <2>3. w # << >> /\ Head(w) = w[1] /\ w[1] = batch[1] /\ Head(batch) = batch[1]
    BY <1>1, <2>1, <2>2
  <2>4. /\ Tail(w) \in Seq(HookEvent) /\ Len(Tail(w)) = Len(w) - 1
        /\ \A i \in 1..Len(Tail(w)) : Tail(w)[i] = w[i + 1]
    BY <2>2, <2>3, HeadTailProperties
  <2>5. /\ Tail(batch) \in Seq(HookEvent) /\ Len(Tail(batch)) = Len(batch) - 1
        /\ \A i \in 1..Len(Tail(batch)) : Tail(batch)[i] = batch[i + 1]
    BY <1>1, HeadTailProperties
  <2> DEFINE rest == Tail(batch) \o queue
  <2>6. /\ rest \in Seq(HookEvent) /\ Len(rest) = Len(Tail(batch)) + Len(queue)
        /\ \A i \in 1..Len(Tail(batch)) + Len(queue) :
              rest[i] = IF i <= Len(Tail(batch)) THEN Tail(batch)[i]
                        ELSE queue[i - Len(Tail(batch))]
    BY <1>1, <2>5, ConcatProperties
  <2> HIDE DEF rest
  <2>7. Len(Tail(w)) = Len(rest)
    BY <2>1, <2>2, <2>4, <2>5, <2>6
  <2>8. ASSUME NEW i \in 1..Len(Tail(w)) PROVE Tail(w)[i] = rest[i]
    <3>1. Tail(w)[i] = w[i + 1] /\ i + 1 \in 1..Len(batch) + Len(queue) /\ i \in Nat
      BY <2>1, <2>2, <2>4
    <3>2. i \in 1..Len(Tail(batch)) + Len(queue)
      BY <2>6, <2>7
    <3>3. CASE i + 1 <= Len(batch)
      <4>1. i \in 1..Len(Tail(batch)) /\ i <= Len(Tail(batch))
        BY <2>1, <2>5, <3>1, <3>3
      <4>2. w[i + 1] = batch[i + 1] /\ rest[i] = batch[i + 1]
        BY <2>2, <2>5, <2>6, <3>1, <3>2, <3>3, <4>1
      <4> QED
        BY <3>1, <4>2
    <3>4. CASE ~(i + 1 <= Len(batch))
      <4>1. ~(i <= Len(Tail(batch))) /\ (i + 1) - Len(batch) = i - Len(Tail(batch))
        BY <2>1, <2>5, <3>1, <3>4
      <4>2. w[i + 1] = queue[(i + 1) - Len(batch)] /\ rest[i] = queue[i - Len(Tail(batch))]
        BY <2>2, <2>6, <3>1, <3>2, <3>4, <4>1
      <4> QED
        BY <3>1, <4>1, <4>2
    <3> QED
      BY <3>3, <3>4
  <2>9. Tail(w) = rest
    BY <2>4, <2>6, <2>7, <2>8, SeqEqual
  <2> QED
    BY <1>1, <2>2, <2>3, <2>9 DEF rest
<1> HIDE DEF w
<1>3. hook_session' = IF Tells(Head(batch)) THEN Told(Head(batch)) ELSE hook_session
  <2>1. Head(batch).kind \in Kinds
    BY <1>1 DEF HookEvent, Kinds
  <2> QED
    BY <2>1 DEF HandleEvent, HandleAttached, HandleDetached, Tells, Told, Kinds
<1>4. ASSUME NEW to, Leads(w, hook_session, to)
      PROVE  Leads(batch' \o queue', hook_session', to)
  BY <1>2, <1>3, <1>4, LeadsTail
<1> QED
  BY <1>4 DEF WillShow, w

(* The request to detach is not taken from the channel by another.         *)
LEMMA DetachStays ==
  ASSUME TypeOK, NEW request, Receive(request), request # "Detach", DetachAsked
  PROVE  DetachAsked'
<1>1. /\ requests \in Seq(HookRequest) /\ requests # << >> /\ Head(requests) # "Detach"
      /\ requests' = Tail(requests)
  BY DEF Receive, TypeOK
<1>2. PICK i \in 1..Len(requests) : requests[i] = "Detach"
  BY DEF DetachAsked
<1>3. Len(requests) \in Nat /\ Head(requests) = requests[1]
      /\ Len(Tail(requests)) = Len(requests) - 1
      /\ \A j \in 1..Len(Tail(requests)) : Tail(requests)[j] = requests[j + 1]
  BY <1>1
<1>4. i # 1
  BY <1>1, <1>2, <1>3
<1>5. i - 1 \in 1..Len(Tail(requests)) /\ (i - 1) + 1 = i
  BY <1>3, <1>4
<1>6. Tail(requests)[i - 1] = "Detach"
  BY <1>2, <1>3, <1>5
<1> QED
  BY <1>1, <1>5, <1>6 DEF DetachAsked

\* A detach that was asked for stays in the channel when more is asked.
LEMMA SendKeepsDetach ==
  ASSUME TypeOK, NEW request \in HookRequest, Send(request)
  PROVE  DetachAsked \/ request = "Detach" => DetachAsked'
<1>1. /\ Len(requests) \in Nat /\ Len(requests') = Len(requests) + 1
      /\ \A i \in 1..Len(requests) : requests'[i] = requests[i]
      /\ requests'[Len(requests) + 1] = request
  BY DEF Send, TypeOK
<1>2. Len(requests) + 1 \in 1..Len(requests')
      /\ \A i \in 1..Len(requests) : i \in 1..Len(requests')
  BY <1>1
<1> QED
  BY <1>1, <1>2 DEF DetachAsked

(* stop_hook_session takes the session down before the events are handled. *)
LEMMA StopShows ==
  ASSUME hook_session' = 0, UNCHANGED <<batch, queue>>, WillShow(0)
  PROVE  WillShow(0)'
<1> DEFINE w == batch \o queue
<1>1. Leads(w, hook_session, 0) /\ batch' \o queue' = w
  BY DEF WillShow
<1> HIDE DEF w
<1>2. Leads(w, 0, 0)
  BY <1>1 DEF Leads
<1> QED
  BY <1>1, <1>2 DEF WillShow

Settled ==
    /\ active = 0 /\ worker # "exited" => WillShow(0)
    /\ active # 0 /\ thread[active] \notin {"reading", "done"} => WillShow(0)
    /\ active # 0 /\ thread[active] = "reading"
          => WillShow(active) \/ DetachAsked \/ Stopping
    /\ active # 0 /\ thread[active] = "done" => WillShow(0) \/ Stopping

\* Every action keeps the UI on its way to the session that is hooked.
LEMMA StepSettling ==
  TypeOK /\ Held /\ InTime /\ BatchHandled /\ Settling /\ [Next]_vars => Settling'
<1> SUFFICES ASSUME TypeOK, Held, InTime, BatchHandled, Settled, [Next]_vars,
                    ~JoinMayTimeOut
             PROVE  Settled'
  BY DEF Settling, Settled
<1> USE DEF channelVars, sessionVars, eventVars, uiVars
<1>0. /\ Session = 1..MaxSessions /\ MaxSessions \in Nat
      /\ active \in 0..MaxSessions /\ spawned \in 0..MaxSessions
      /\ thread \in [Session -> ThreadState]
      /\ \A s \in Session : Alive(s) => s = active
  BY HookAssumption DEF Session, TypeOK, InTime
<1>k. /\ 0 \in 0..MaxSessions
      /\ "AttachFailed" \in Kinds /\ "Detached" \in Kinds /\ "Text" \in Kinds
      /\ "Attached" \in Kinds
      /\ "Attach" \in HookRequest /\ "Detach" \in HookRequest /\ "Command" \in HookRequest
  BY <1>0 DEF Kinds, HookRequest
(* What is shown, and the request to detach, are left as they were.        *)
<1>1. ASSUME UNCHANGED <<active, thread>>, \A to : WillShow(to) => WillShow(to)',
             DetachAsked => DetachAsked' \/ Stopping' \/ active = 0,
             Stopping => Stopping', worker = "exited" => worker' = "exited"
      PROVE  Settled'
  BY <1>1 DEF Settled
<1>2. ASSUME UNCHANGED <<batch, queue, hook_session>>
      PROVE  \A to : WillShow(to) => WillShow(to)'
  BY <1>2 DEF WillShow
<1>3. UNCHANGED worker => (Stopping => Stopping')
  BY DEF Stopping
<1>4. UNCHANGED requests => (DetachAsked => DetachAsked')
  BY DEF DetachAsked
<1>5. CASE \E request \in HookRequest : AskFromDialog(request)
  <2>1. PICK request \in HookRequest : AskFromDialog(request)
    BY <1>5
  <2>2. UNCHANGED <<worker, active, thread, batch, queue, hook_session>> /\ Send(request)
    BY <2>1 DEF AskFromDialog
  <2>3. DetachAsked => DetachAsked'
    BY <2>2, SendKeepsDetach
  <2> QED
    BY <1>1, <1>2, <1>3, <2>2, <2>3
<1>6. CASE StopHookSession
  <2>1. /\ UNCHANGED <<worker, active, thread, batch, queue>> /\ Send("Detach")
        /\ hook_session' = 0
    BY <1>6 DEF StopHookSession
  <2>2. DetachAsked'
    BY <1>k, <2>1, SendKeepsDetach
  <2>3. WillShow(0) => WillShow(0)'
    BY <2>1, StopShows
  <2> QED
    BY <1>3, <2>1, <2>2, <2>3 DEF Settled
<1>7. CASE Shutdown \/ ShutdownReturns
  <2>1. UNCHANGED <<requests, worker, active, thread, batch, queue, hook_session>>
    BY <1>7 DEF Shutdown, ShutdownReturns
  <2> QED
    BY <1>1, <1>2, <1>3, <1>4, <2>1
<1>8. CASE BeginHandling
  <2>1. UNCHANGED <<requests, worker, active, thread, hook_session>> /\ batch = << >>
    BY <1>8 DEF BeginHandling, BatchHandled
  <2>2. batch' \o queue' = batch \o queue
    BY <1>8, <2>1, DrainKeepsOrder, HookAssumption DEF BeginHandling, TypeOK
  <2>3. \A to : WillShow(to) => WillShow(to)'
    BY <2>1, <2>2 DEF WillShow
  <2> QED
    BY <1>1, <1>3, <1>4, <2>1, <2>3
<1>9. CASE HandleEvent
  <2>1. UNCHANGED <<worker, active, thread>>
    BY <1>9 DEF HandleEvent
  <2>2. Send("Command") \/ UNCHANGED requests
    BY <1>9 DEF HandleEvent, HandleAttached, HandleDetached
  <2>3. DetachAsked => DetachAsked'
    BY <1>k, <1>4, <2>2, SendKeepsDetach
  <2> QED
    BY <1>1, <1>3, <1>9, <2>1, <2>3, HandleShows
<1>10. CASE FinishHandling \/ MergeTimerTick
  <2>1. UNCHANGED <<requests, worker, active, thread, batch, queue, hook_session>>
    BY <1>10 DEF FinishHandling, MergeTimerTick, NotifyPendingEvents
  <2> QED
    BY <1>1, <1>2, <1>3, <1>4, <2>1
<1>11. CASE ReceiveAttach
  <2>1. /\ UNCHANGED <<active, thread, batch, queue, hook_session>> /\ worker = "idle"
        /\ Receive("Attach")
    BY <1>11 DEF ReceiveAttach, Receive
  <2>2. DetachAsked => DetachAsked'
    BY <2>1, DetachStays
  <2>3. ~Stopping
    BY <2>1 DEF Stopping
  <2> QED
    BY <1>1, <1>2, <2>1, <2>2, <2>3
<1>12. CASE ReceiveDetach
  <2>1. UNCHANGED <<active, thread, batch, queue, hook_session>> /\ worker = "idle"
    BY <1>12 DEF ReceiveDetach, Receive
  <2>2. active # 0 => Stopping'
    BY <1>12 DEF ReceiveDetach, Stopping
  <2>3. ~Stopping
    BY <2>1 DEF Stopping
  <2> QED
    BY <1>1, <1>2, <2>1, <2>2, <2>3
<1>13. CASE ReceiveCommand
  <2>1. /\ UNCHANGED <<active, thread, batch, queue, hook_session>> /\ worker = "idle"
        /\ Receive("Command")
    BY <1>13 DEF ReceiveCommand, Receive
  <2>2. DetachAsked => DetachAsked'
    BY <2>1, DetachStays
  <2>3. ~Stopping
    BY <2>1 DEF Stopping
  <2> QED
    BY <1>1, <1>2, <2>1, <2>2, <2>3
<1>14. CASE FinishWrite \/ FailWrite
  <2>1. /\ UNCHANGED <<requests, active, thread, batch, queue, hook_session>>
        /\ worker = "writing"
    BY <1>14 DEF FinishWrite, FailWrite
  <2>2. ~Stopping
    BY <2>1 DEF Stopping
  <2> QED
    BY <1>1, <1>2, <1>4, <2>1, <2>2
<1>15. CASE FinishStop
  <2>1. PushEvent("Detached", active) /\ UNCHANGED <<batch, hook_session>> /\ active' = 0
    BY <1>15 DEF FinishStop
  <2>2. WillShow(0)'
    BY <1>0, <1>k, <2>1, PushShows
  <2> QED
    BY <2>1, <2>2 DEF Settled
<1>16. CASE SpawnSession
  <2>1. active = 0 /\ WillShow(0) /\ UNCHANGED <<batch, hook_session>>
    BY <1>16 DEF SpawnSession, Held, Settled
  <2>2. CASE PushEvent("AttachFailed", 0) /\ UNCHANGED active
    <3>1. WillShow(0)'
      BY <1>k, <2>1, <2>2, PushShows
    <3> QED
      BY <2>1, <2>2, <3>1 DEF Settled
  <2>3. CASE /\ spawned < MaxSessions
             /\ thread' = [thread EXCEPT ![spawned + 1] = "attaching"]
             /\ active' = spawned + 1
             /\ UNCHANGED queue
    <3>1. thread'[active'] = "attaching" /\ active' # 0
      BY <1>0, <2>3
    <3>2. WillShow(0)'
      BY <1>2, <2>1, <2>3
    <3> QED
      BY <3>1, <3>2 DEF Settled
  <2> QED
    BY <1>16, <2>2, <2>3 DEF SpawnSession
<1>17. CASE CloseWorker
  <2>1. /\ UNCHANGED <<requests, active, thread, batch, queue, hook_session>>
        /\ worker = "idle" /\ (active = 0 => worker' = "exited") /\ (active # 0 => Stopping')
    BY <1>17 DEF CloseWorker, Stopping
  <2>2. ~Stopping
    BY <2>1 DEF Stopping
  <2> QED
    BY <1>1, <1>2, <1>4, <2>1, <2>2
<1>18. CASE ExitWorker
  BY <1>18 DEF ExitWorker, Settled
<1>19. ASSUME NEW s \in Session, SessionThread(s) PROVE Settled'
  <2>0. /\ UNCHANGED <<requests, worker, active, batch, hook_session>>
        /\ s = active /\ active # 0 /\ s \in 0..MaxSessions /\ Alive(s)
    <3>1. UNCHANGED <<requests, worker, active, batch, hook_session>>
      BY <1>19 DEF SessionThread, OpenPipe, Connect, Handshake, Advance, FailInjection,
                   FailConnection, ReportAttached, ReadNotification, LeaveLoop
    <3>2. Alive(s)
      BY <1>19 DEF SessionThread, OpenPipe, Connect, Handshake, Advance, FailInjection,
                   FailConnection, ReportAttached, ReadNotification, LeaveLoop, Alive
    <3> QED
      BY <1>0, <3>1, <3>2
  <2>1. CASE OpenPipe(s) \/ Connect(s) \/ Handshake(s)
    <3>1. /\ thread[s] \notin {"reading", "done"} /\ thread'[s] \notin {"reading", "done"}
          /\ UNCHANGED queue
      BY <1>0, <2>1 DEF OpenPipe, Connect, Handshake, Advance
    <3>2. WillShow(0)'
      BY <1>2, <2>0, <3>1 DEF Settled
    <3> QED
      BY <2>0, <3>1, <3>2 DEF Settled
  <2>2. CASE FailInjection(s) \/ FailConnection(s)
    <3>1. /\ thread[s] \notin {"reading", "done"} /\ thread'[s] = "done"
          /\ PushEvent("AttachFailed", s) \/ UNCHANGED queue
      BY <1>0, <2>2 DEF FailInjection, FailConnection
    <3>2. WillShow(0)
      BY <2>0, <3>1 DEF Settled
    <3>3. WillShow(0)'
      BY <1>2, <1>k, <2>0, <3>1, <3>2, PushShows
    <3> QED
      BY <2>0, <3>1, <3>3 DEF Settled
  <2>3. CASE ReportAttached(s)
    <3>1. thread'[s] = "reading" /\ PushEvent("Attached", s)
      BY <1>0, <2>3 DEF ReportAttached
    <3>2. WillShow(s)'
      BY <1>k, <2>0, <3>1, PushShows
    <3> QED
      BY <2>0, <3>1, <3>2 DEF Settled, WillShow
  <2>4. CASE ReadNotification(s)
    <3>1. UNCHANGED thread /\ PushEvent("Text", s)
      BY <2>4 DEF ReadNotification
    <3>2. \A to : WillShow(to) => WillShow(to)'
      BY <1>k, <2>0, <3>1, PushShows
    <3> QED
      BY <1>1, <1>3, <1>4, <2>0, <3>1, <3>2
  <2>5. CASE LeaveLoop(s)
    <3>1. thread'[s] = "done" /\ (stop[s] \/ PushEvent("Detached", s))
      BY <1>0, <2>5 DEF LeaveLoop
    <3>2. stop[s] => Stopping'
      BY <1>3, <2>0 DEF Held
    <3>3. PushEvent("Detached", s) => WillShow(0)'
      BY <1>k, <2>0, PushShows
    <3> QED
      BY <2>0, <3>1, <3>2, <3>3 DEF Settled
  <2> QED
    BY <1>19, <2>1, <2>2, <2>3, <2>4, <2>5 DEF SessionThread
<1>20. ASSUME NEW s \in Session, ReadCommand(s) PROVE Settled'
  <2>1. UNCHANGED <<requests, worker, active, thread, batch, queue, hook_session>>
    BY <1>20 DEF ReadCommand
  <2> QED
    BY <1>1, <1>2, <1>3, <1>4, <2>1
<1>21. CASE UNCHANGED vars
  BY <1>1, <1>2, <1>3, <1>4, <1>21 DEF vars
<1> QED
  BY <1>5, <1>6, <1>7, <1>8, <1>9, <1>10, <1>11, <1>12, <1>13, <1>14, <1>15, <1>16, <1>17,
     <1>18, <1>19, <1>20, <1>21
  DEF Next, UiThread, WorkerThread, Ended

-----------------------------------------------------------------------------
(* The theorems                                                            *)

\* The invariant holds at first,
LEMMA InitIInv == Init => IInv
<1> SUFFICES ASSUME Init PROVE IInv
  OBVIOUS
<1> USE HookAssumption
<1>1. TypeOK
  <2>1. requests \in Seq(HookRequest) /\ queue \in Seq(HookEvent) /\ batch \in Seq(HookEvent)
    BY EmptySeq DEF Init
  <2>2. /\ thread \in [Session -> ThreadState] /\ pipe \in [Session -> 0..PipeCapacity]
        /\ texts \in [Session -> 0..MaxTexts]
    BY DEF Init, ThreadState
  <2>3. stop \in [Session -> BOOLEAN] /\ notified \in BOOLEAN /\ merge_timer \in BOOLEAN
    BY DEF Init
  <2> QED
    BY <2>1, <2>2, <2>3 DEF Init, TypeOK, WorkerState
<1>2. Held
  BY DEF Init, Held, Stopping
<1>3. InTime
  BY DEF Init, InTime, Alive
<1>4. Announced /\ BatchHandled
  BY DEF Init, Announced, BatchHandled
<1>5. Settling
  <2>1. Leads(<< >>, 0, 0)
    BY DEF Leads
  <2>2. << >> \o << >> = << >>
    BY ConcatEmptySeq, EmptySeq
  <2> QED
    BY <2>1, <2>2 DEF Init, Settling, WillShow
<1> QED
  BY <1>1, <1>2, <1>3, <1>4, <1>5 DEF IInv

\* every action keeps it,
LEMMA StepIInv == IInv /\ [Next]_vars => IInv'
BY StepTypeOK, StepHeld, StepInTime, StepAnnounced, StepBatchHandled, StepSettling DEF IInv

\* and so it always holds.
LEMMA Invariant == Spec => []IInv
BY InitIInv, StepIInv, PTL DEF Spec

(* The state of the worker, its sessions and the queue keeps its type.     *)
THEOREM TypeCorrect == Spec => []TypeOK
<1>1. IInv => TypeOK
  BY DEF IInv
<1> QED
  BY <1>1, Invariant, PTL

(* push_event, drain_events_batch and notify_pending_events: the flag is   *)
(* never left set without a message, and events wait unannounced only      *)
(* after a failed post - however late a session thread ends.               *)
THEOREM EventsAreAnnounced == Spec => []EventsAnnounced
<1>1. IInv => EventsAnnounced
  BY DEF IInv, Announced, EventsAnnounced
<1> QED
  BY <1>1, Invariant, PTL

(* stop_and_join: as long as the wait for a thread does not run out, there *)
(* is one session thread at a time, and none when shutdown returns.        *)
THEOREM SessionsAreContained ==
  ASSUME ~JoinMayTimeOut
  PROVE  Spec => []SessionsContained
<1>1. IInv => SessionsContained
  <2> SUFFICES ASSUME IInv PROVE SessionsContained
    OBVIOUS
  <2>1. \A s \in Session : Alive(s) => s = active
    BY DEF IInv, InTime
  <2>2. AtMostOneSession
    BY <2>1 DEF AtMostOneSession
  <2>3. ui = "gone" => active = 0
    BY DEF IInv, InTime, Held
  <2>4. NoSessionOutlivesApp
    BY <2>1, <2>3 DEF NoSessionOutlivesApp, Session
  <2> QED
    BY <2>2, <2>4 DEF SessionsContained
<1> QED
  BY <1>1, Invariant, PTL

(* handle_hook_state: events are announced, and when all are handled the   *)
(* session shown is the one that is hooked.                                *)
THEOREM EventsReachTheUi ==
  ASSUME ~JoinMayTimeOut
  PROVE  Spec => []EventsReachUi
<1>1. IInv => SnapshotSettles
  <2> SUFFICES ASSUME IInv, Quiet
               PROVE  IF hook_session = 0 THEN \A s \in Session : ~Alive(s)
                      ELSE hook_session = active /\ Alive(hook_session)
    BY DEF SnapshotSettles
  <2>1. /\ Session = 1..MaxSessions /\ MaxSessions \in Nat /\ active \in 0..MaxSessions
        /\ thread \in [Session -> ThreadState]
        /\ \A s \in Session : Alive(s) => s = active
        /\ \A s \in Session : Alive(s) => thread[s] = "reading"
    BY HookAssumption DEF IInv, InTime, TypeOK, Session, Quiet
  <2>2. batch = << >> /\ queue = << >> /\ worker = "idle" /\ ~DetachAsked /\ ~Stopping
    BY DEF IInv, BatchHandled, Quiet, DetachAsked, Stopping
  <2>3. << >> \o << >> = << >>
    BY ConcatEmptySeq, EmptySeq
  <2>4. \A to : WillShow(to) => hook_session = to
    BY <2>2, <2>3, LeadsNowhere DEF WillShow
  <2>5. CASE active = 0
    <3>1. hook_session = 0
      BY <2>2, <2>4, <2>5 DEF IInv, Settling
    <3>2. \A s \in Session : ~Alive(s)
      BY <2>1, <2>5
    <3> QED
      BY <3>1, <3>2
  <2>6. CASE active # 0 /\ thread[active] = "reading"
    <3>1. hook_session = active
      BY <2>2, <2>4, <2>6 DEF IInv, Settling
    <3>2. Alive(active)
      BY <2>6 DEF Alive
    <3> QED
      BY <2>6, <3>1, <3>2
  <2>7. CASE active # 0 /\ thread[active] # "reading"
    <3>1. active \in Session /\ ~Alive(active)
      BY <2>1, <2>7
    <3>2. thread[active] = "done"
      BY <2>7, <3>1 DEF IInv, Held, Alive
    <3>3. hook_session = 0
      BY <2>2, <2>4, <2>7, <3>2 DEF IInv, Settling
    <3>4. \A s \in Session : ~Alive(s)
      BY <2>1, <3>1
    <3> QED
      BY <3>3, <3>4
  <2> QED
    BY <2>5, <2>6, <2>7
<1>2. IInv => EventsReachUi
  BY <1>1 DEF IInv, Announced, EventsAnnounced, EventsReachUi
<1> QED
  BY <1>2, Invariant, PTL

-----------------------------------------------------------------------------
(* The hook management window: what its requests and events carry, the     *)
(* exchange of hooks, the order of events, and the one connection and the  *)
(* one search there are while the user waits for answers.                  *)

WindowIds == Nat \ {0}
WindowCandidates == [address : FindAddress, generation : Nat, search : WindowIds]
WindowView ==
    [streams : Seq(FindThread), candidates : SUBSET WindowCandidates, installed : FindAddress \cup {0},
     manual : {0, FindSavedHook}]
WindowOpenDialogs ==
    [open : {TRUE}, streams : Seq(FindThread), candidates : SUBSET WindowCandidates,
     installed : FindAddress \cup {0}, manual : {0, FindSavedHook}, generation : Nat, inFlight : Nat,
     search : Nat, label : Nat, waiting : BOOLEAN, offered : BOOLEAN, lent : BOOLEAN]
WindowRequests ==
    [kind : {"Attach", "Detach"}]
    \cup [kind : {"NewHook", "RemoveHook"}, address : FindAddress \cup {FindSavedHook}, meant : Nat]
    \cup [kind : {"FindHook"}, search : WindowIds, generation : Nat]
WindowEvents ==
    [kind : {"Attached"}, session : WindowIds] \cup [kind : {"AttachFailed", "Detached"}, session : {0}]
    \cup [kind : {"Text"}, thread : FindThread, session : WindowIds]
    \cup [kind : {"FoundHook"}, generation : Nat, search : WindowIds, address : FindAddress, session : WindowIds]
WindowSessions ==
    [id : Nat, generation : Nat, hooks : SUBSET (FindAddress \cup {FindSavedHook}), count : Nat]
WindowSearches == [id : WindowIds, session : WindowIds]
WindowCounters == [searches : Nat, installs : Nat, texts : Nat, closes : Nat, boxes : Nat]
WindowHistories ==
    [observed : Seq(FindThread), missed : BOOLEAN, strayed : BOOLEAN, mixed : BOOLEAN,
     hooked : BOOLEAN]
WindowChoices == [thread : FindThread \cup {HFind!None}, session : Nat]

WindowTypes ==
    /\ asks \in Seq(WindowRequests) /\ found \in Seq(WindowEvents)
    /\ game \in WindowSessions
    /\ searches \subseteq WindowSearches
    /\ hookSession \in Nat
    /\ dialog \in WindowOpenDialogs \cup {HFind!Closed}
    /\ listed \in WindowView /\ pending \subseteq WindowCandidates
    /\ selected \in WindowChoices
    /\ auto \in FindThread \cup {HFind!None}
    /\ counts \in WindowCounters
    /\ history \in WindowHistories

\* What the requests and events of each kind carry.
LEMMA WindowCarried ==
    /\ \A r \in WindowRequests :
         /\ r.kind \in {"Attach", "Detach", "NewHook", "RemoveHook", "FindHook"}
         /\ r.kind \in {"NewHook", "RemoveHook"} =>
              r.address \in FindAddress \cup {FindSavedHook} /\ r.meant \in Nat
         /\ r.kind = "FindHook" => r.search \in WindowIds /\ r.generation \in Nat
    /\ \A e \in WindowEvents :
         /\ e.kind \in {"Attached", "AttachFailed", "Detached", "Text", "FoundHook"}
         /\ e.session \in Nat
         /\ e.kind \in {"Attached", "Text", "FoundHook"} => e.session \in WindowIds
         /\ e.kind \in {"AttachFailed", "Detached"} => e.session = 0
         /\ e.kind = "Text" => e.thread \in FindThread
         /\ e.kind = "FoundHook" => e.generation \in Nat /\ e.search \in WindowIds /\ e.address \in FindAddress
BY DEF WindowRequests, WindowEvents, WindowIds

LEMMA WindowMade ==
    /\ [kind |-> "Attach"] \in WindowRequests /\ [kind |-> "Detach"] \in WindowRequests
    /\ \A a \in FindAddress \cup {FindSavedHook}, m \in Nat :
         /\ [kind |-> "NewHook", address |-> a, meant |-> m] \in WindowRequests
         /\ [kind |-> "RemoveHook", address |-> a, meant |-> m] \in WindowRequests
    /\ \A s \in WindowIds, g \in Nat :
         [kind |-> "FindHook", search |-> s, generation |-> g] \in WindowRequests
    /\ \A s \in WindowIds : [kind |-> "Attached", session |-> s] \in WindowEvents
    /\ HFind!Ended \in WindowEvents /\ [kind |-> "AttachFailed", session |-> 0] \in WindowEvents
    /\ \A s \in WindowIds, t \in FindThread : [kind |-> "Text", thread |-> t, session |-> s] \in WindowEvents
    /\ \A g \in Nat, i \in WindowIds, a \in FindAddress, s \in WindowIds :
         [kind |-> "FoundHook", generation |-> g, search |-> i, address |-> a, session |-> s] \in WindowEvents
<1>1. [kind |-> "Attach"] \in WindowRequests /\ [kind |-> "Detach"] \in WindowRequests
  BY DEF WindowRequests
<1>2. \A a \in FindAddress \cup {FindSavedHook}, m \in Nat :
         /\ [kind |-> "NewHook", address |-> a, meant |-> m] \in WindowRequests
         /\ [kind |-> "RemoveHook", address |-> a, meant |-> m] \in WindowRequests
  BY DEF WindowRequests
<1>3. \A s \in WindowIds, g \in Nat :
         [kind |-> "FindHook", search |-> s, generation |-> g] \in WindowRequests
  BY DEF WindowRequests
<1>4. \A s \in WindowIds : [kind |-> "Attached", session |-> s] \in WindowEvents
  BY DEF WindowEvents
<1>5. HFind!Ended \in WindowEvents /\ [kind |-> "AttachFailed", session |-> 0] \in WindowEvents
  BY DEF WindowEvents, HFind!Ended
<1>6. \A s \in WindowIds, t \in FindThread : [kind |-> "Text", thread |-> t, session |-> s] \in WindowEvents
  BY DEF WindowEvents
<1>7. \A g \in Nat, i \in WindowIds, a \in FindAddress, s \in WindowIds :
         [kind |-> "FoundHook", generation |-> g, search |-> i, address |-> a, session |-> s] \in WindowEvents
  BY DEF WindowEvents, WindowIds
<1> QED
  BY <1>1, <1>2, <1>3, <1>4, <1>5, <1>6, <1>7

\* What an append and a taken head leave of a queue.
LEMMA WindowQueues ==
    ASSUME NEW S, NEW s \in Seq(S)
    PROVE  /\ \A t \in Seq(S) :
                /\ s \o t \in Seq(S) /\ Len(s \o t) = Len(s) + Len(t)
                /\ \A i \in 1..Len(s) : (s \o t)[i] = s[i]
                /\ \A i \in 1..Len(t) : (s \o t)[Len(s) + i] = t[i]
           /\ \A x \in S :
                /\ Append(s, x) \in Seq(S) /\ Len(Append(s, x)) = Len(s) + 1
                /\ \A i \in 1..Len(s) : Append(s, x)[i] = s[i]
                /\ Append(s, x)[Len(s) + 1] = x
           /\ s # << >> =>
                /\ Head(s) = s[1] /\ Head(s) \in S /\ Tail(s) \in Seq(S) /\ Len(s) \in WindowIds
                /\ Len(Tail(s)) = Len(s) - 1
                /\ \A i \in 1..(Len(s) - 1) : Tail(s)[i] = s[i + 1]
BY DEF WindowIds

LEMMA WindowTypesInit == HFind!Init => WindowTypes
<1> SUFFICES ASSUME HFind!Init PROVE WindowTypes
  OBVIOUS
<1>1. game \in WindowSessions /\ searches \subseteq WindowSearches
  BY DEF HFind!Init, WindowSessions
<1>2. listed \in WindowView /\ dialog \in WindowOpenDialogs \cup {HFind!Closed} /\ pending \subseteq WindowCandidates
  BY DEF HFind!Init, HFind!EmptyView, WindowView
<1>3. selected \in WindowChoices /\ auto \in FindThread \cup {HFind!None}
  BY DEF HFind!Init, HFind!NoChoice, WindowChoices
<1>4. counts \in WindowCounters /\ history \in WindowHistories
  BY DEF HFind!Init, WindowCounters, WindowHistories
<1> QED
  BY <1>1, <1>2, <1>3, <1>4 DEF HFind!Init, WindowTypes

LEMMA WindowOpenTyped ==
    ASSUME WindowTypes
    PROVE  /\ dialog.open => dialog \in WindowOpenDialogs
           /\ ~dialog.open => dialog = HFind!Closed
           /\ \A k \in WindowView : HFind!Opened(k) \in WindowOpenDialogs
           /\ \A d \in WindowOpenDialogs :
                /\ HFind!ViewKept(d) \in WindowView /\ d.open
                /\ HFind!Cleared(d) \in WindowOpenDialogs /\ HFind!Waiting(d) \in WindowOpenDialogs
           /\ HFind!EmptyView \in WindowView /\ HFind!NoChoice \in WindowChoices
<1>1. dialog.open => dialog \in WindowOpenDialogs
  BY DEF WindowTypes, HFind!Closed
<1>2. ~dialog.open => dialog = HFind!Closed
  BY DEF WindowTypes, WindowOpenDialogs
<1>3. \A k \in WindowView : HFind!Opened(k) \in WindowOpenDialogs
  BY DEF WindowView, HFind!Opened, WindowOpenDialogs, WindowTypes
<1>4. \A d \in WindowOpenDialogs : HFind!ViewKept(d) \in WindowView
  BY DEF WindowView, HFind!ViewKept, WindowOpenDialogs
<1>5. \A d \in WindowOpenDialogs :
          /\ HFind!Cleared(d) \in WindowOpenDialogs /\ d.open
          /\ HFind!Waiting(d) \in WindowOpenDialogs
  <2> SUFFICES ASSUME NEW d \in WindowOpenDialogs
               PROVE  /\ HFind!Cleared(d) \in WindowOpenDialogs /\ d.open
                      /\ HFind!Waiting(d) \in WindowOpenDialogs
    OBVIOUS
  <2>1. << >> \in Seq(FindThread) /\ {} \in SUBSET WindowCandidates
    OBVIOUS
  <2>2. HFind!Cleared(d) \in WindowOpenDialogs /\ d.open
    BY <2>1 DEF HFind!Cleared, WindowOpenDialogs
  <2>3. HFind!Waiting(d) \in WindowOpenDialogs
    BY DEF HFind!Waiting, WindowOpenDialogs
  <2> QED
    BY <2>2, <2>3
<1>6. HFind!EmptyView \in WindowView /\ HFind!NoChoice \in WindowChoices
  BY DEF HFind!EmptyView, HFind!NoChoice, WindowChoices, WindowView
<1> QED
  BY <1>1, <1>2, <1>3, <1>4, <1>5, <1>6

\* The counts of the worker's session and of the user's steps go up.
LEMMA WindowNumbers ==
    ASSUME WindowTypes
    PROVE  /\ game.id \in Nat /\ game.count \in Nat /\ game.generation \in Nat
           /\ game.hooks \subseteq FindAddress \cup {FindSavedHook}
           /\ game.id # 0 => game.id \in WindowIds
           /\ \A id \in Nat, n \in Nat : [game EXCEPT !.id = id, !.count = n] \in WindowSessions
           /\ \A id \in Nat : [game EXCEPT !.id = id] \in WindowSessions
           /\ \A g \in Nat : [game EXCEPT !.generation = g] \in WindowSessions
           /\ \A n \in Nat, id \in Nat :
                [id |-> id, generation |-> 0, hooks |-> {}, count |-> n] \in WindowSessions
           /\ \A s \in searches : s.id \in WindowIds /\ s.session \in WindowIds
           /\ counts.searches \in Nat
           /\ [counts EXCEPT !.texts = @ + 1] \in WindowCounters
           /\ [counts EXCEPT !.closes = @ + 1] \in WindowCounters
           /\ [counts EXCEPT !.boxes = @ + 1] \in WindowCounters
           /\ [counts EXCEPT !.installs = @ + 1] \in WindowCounters
           /\ [counts EXCEPT !.searches = counts.searches + 1] \in WindowCounters
           /\ \A b \in BOOLEAN :
                [history EXCEPT !.observed = << >>, !.missed = b] \in WindowHistories
           /\ [history EXCEPT !.hooked = FALSE] \in WindowHistories
           /\ history.observed \in Seq(FindThread)
<1>1. game \in WindowSessions /\ searches \subseteq WindowSearches /\ counts \in WindowCounters /\ history \in WindowHistories
  BY DEF WindowTypes
<1>2. /\ game.id \in Nat /\ game.count \in Nat /\ game.generation \in Nat
      /\ game.hooks \subseteq FindAddress \cup {FindSavedHook}
      /\ game.id # 0 => game.id \in WindowIds
  BY <1>1 DEF WindowSessions, WindowIds
<1>3. /\ \A id \in Nat, n \in Nat : [game EXCEPT !.id = id, !.count = n] \in WindowSessions
      /\ \A id \in Nat : [game EXCEPT !.id = id] \in WindowSessions
      /\ \A g \in Nat : [game EXCEPT !.generation = g] \in WindowSessions
      /\ \A n \in Nat, id \in Nat :
           [id |-> id, generation |-> 0, hooks |-> {}, count |-> n] \in WindowSessions
  BY <1>1 DEF WindowSessions
<1>4. \A s \in searches : s.id \in WindowIds /\ s.session \in WindowIds
  BY <1>1 DEF WindowSearches
<1>5. /\ counts.searches \in Nat
      /\ [counts EXCEPT !.texts = @ + 1] \in WindowCounters
      /\ [counts EXCEPT !.closes = @ + 1] \in WindowCounters
      /\ [counts EXCEPT !.boxes = @ + 1] \in WindowCounters
      /\ [counts EXCEPT !.installs = @ + 1] \in WindowCounters
      /\ [counts EXCEPT !.searches = counts.searches + 1] \in WindowCounters
  BY <1>1 DEF WindowCounters
<1>6. /\ \A b \in BOOLEAN :
           [history EXCEPT !.observed = << >>, !.missed = b] \in WindowHistories
      /\ [history EXCEPT !.hooked = FALSE] \in WindowHistories
      /\ history.observed \in Seq(FindThread)
  <2>1. \A b \in BOOLEAN :
          [history EXCEPT !.observed = << >>, !.missed = b] \in WindowHistories
    <3>1. << >> \in Seq(FindThread)
      OBVIOUS
    <3> QED
      BY <1>1, <3>1 DEF WindowHistories
  <2>2. [history EXCEPT !.hooked = FALSE] \in WindowHistories
    BY <1>1 DEF WindowHistories
  <2> QED
    BY <1>1, <2>1, <2>2 DEF WindowHistories
<1> QED
  BY <1>2, <1>3, <1>4, <1>5, <1>6

\* A request that is meant for a session is meant for the one the window shows.
LEMMA WindowMeant ==
    ASSUME WindowTypes, dialog.open
    PROVE  /\ HFind!Meant \in Nat
           /\ HFind!Meant # 0 => /\ ~HFind!Connecting(found) /\ ~history.missed
                                 /\ HFind!Meant = dialog.label
BY WindowOpenTyped DEF HFind!Meant, WindowTypes, WindowOpenDialogs

LEMMA WindowTypesStep == WindowTypes /\ [HFind!Next]_HFind!vars => WindowTypes'
<1> SUFFICES ASSUME WindowTypes, [HFind!Next]_HFind!vars PROVE WindowTypes'
  OBVIOUS
<1>0. /\ asks \in Seq(WindowRequests) /\ found \in Seq(WindowEvents)
      /\ asks # << >> => Tail(asks) \in Seq(WindowRequests) /\ Head(asks) \in WindowRequests
      /\ found # << >> => Tail(found) \in Seq(WindowEvents) /\ Head(found) \in WindowEvents
  BY WindowQueues DEF WindowTypes
<1>1. CASE HFind!WorkerAttach
  <2>1. asks' \in Seq(WindowRequests)
    BY <1>0, <1>1 DEF HFind!WorkerAttach, HFind!Take
  <2> DEFINE id == game.count + 1
             old == IF game.id = 0 THEN << >> ELSE <<HFind!Ended>>
  <2>2. id \in WindowIds /\ old \in Seq(WindowEvents) /\ found \o old \in Seq(WindowEvents)
    <3>1. id \in WindowIds
      <4>1. game.count \in Nat
        BY WindowNumbers
      <4> QED
        BY <4>1 DEF WindowIds
    <3>2. << >> \in Seq(WindowEvents) /\ <<HFind!Ended>> \in Seq(WindowEvents)
      BY WindowMade
    <3> QED
      BY <1>0, <3>1, <3>2
  <2> HIDE DEF old
  <2>3. /\ <<[kind |-> "Attached", session |-> id]>> \in Seq(WindowEvents)
        /\ <<[kind |-> "AttachFailed", session |-> 0]>> \in Seq(WindowEvents)
    BY <2>2, WindowMade
  <2>4. /\ found \o old \o <<[kind |-> "Attached", session |-> id]>> \in Seq(WindowEvents)
        /\ found \o old \o <<[kind |-> "AttachFailed", session |-> 0]>> \in Seq(WindowEvents)
    BY <2>2, <2>3
  <2>5. found' \in Seq(WindowEvents)
    BY <1>1, <2>4 DEF HFind!WorkerAttach, old
  <2>6. game' \in WindowSessions
    <3>1. id \in Nat
      BY <2>2 DEF WindowIds
    <3> HIDE DEF id
    <3>2. /\ [id |-> id, generation |-> 0, hooks |-> {}, count |-> id] \in WindowSessions
          /\ [game EXCEPT !.id = 0, !.count = id] \in WindowSessions
      BY <3>1, WindowNumbers
    <3> QED
      BY <1>1, <3>2 DEF HFind!WorkerAttach, id
  <2> QED
    BY <1>1, <2>1, <2>5, <2>6, WindowNumbers DEF HFind!WorkerAttach, WindowTypes
<1>2. CASE HFind!WorkerDetach \/ HFind!GameExits
  <2>0. Append(found, HFind!Ended) \in Seq(WindowEvents)
    BY <1>0, WindowMade
  <2>1. found' \in Seq(WindowEvents)
    BY <1>0, <1>2, <2>0 DEF HFind!WorkerDetach, HFind!GameExits
  <2>2. asks' \in Seq(WindowRequests)
    BY <1>0, <1>2 DEF HFind!WorkerDetach, HFind!GameExits, HFind!Take
  <2> QED
    BY <1>2, <2>1, <2>2, WindowNumbers DEF HFind!WorkerDetach, HFind!GameExits, WindowTypes,
                        HFind!uiVars
<1>3. CASE HFind!WorkerHook
  <2>1. asks' \in Seq(WindowRequests) /\ Head(asks).address \in FindAddress \cup {FindSavedHook}
    BY <1>0, <1>3, WindowCarried DEF HFind!WorkerHook, HFind!Take
  <2>2. game' \in WindowSessions
    BY <1>3, <2>1 DEF HFind!WorkerHook, WindowTypes, WindowSessions
  <2>3. history' \in WindowHistories
    BY <1>3 DEF HFind!WorkerHook, WindowTypes, WindowHistories
  <2> QED
    BY <1>3, <2>1, <2>2, <2>3 DEF HFind!WorkerHook, WindowTypes
<1>4. CASE HFind!WorkerFindHook
  <2>1. /\ asks' \in Seq(WindowRequests)
        /\ Head(asks).generation \in Nat /\ Head(asks).search \in WindowIds
    BY <1>0, <1>4, WindowCarried DEF HFind!WorkerFindHook, HFind!Take
  <2>2. game' \in WindowSessions
    BY <1>4, <2>1, WindowNumbers DEF HFind!WorkerFindHook, WindowTypes
  <2>3. searches' \subseteq WindowSearches
    <3>1. game.id # 0 =>
            [id |-> Head(asks).search, session |-> game.id] \in WindowSearches
      BY <2>1, WindowNumbers DEF WindowSearches
    <3> QED
      BY <1>4, <3>1 DEF HFind!WorkerFindHook, WindowTypes
  <2> QED
    BY <1>4, <2>1, <2>2, <2>3 DEF HFind!WorkerFindHook, WindowTypes, HFind!uiVars
<1>5. ASSUME NEW s \in searches, NEW a \in FindAddress, HFind!GameFinds(s, a) PROVE WindowTypes'
  <2>1. [kind |-> "FoundHook", generation |-> game.generation, search |-> s.id, address |-> a,
         session |-> game.id] \in WindowEvents
    <3>1. game.id \in WindowIds /\ game.generation \in Nat /\ s.id \in WindowIds
      BY <1>5, WindowNumbers DEF HFind!GameFinds, WindowIds
    <3> QED
      BY <3>1, WindowMade
  <2>2. found' \in Seq(WindowEvents)
    BY <1>0, <1>5, <2>1, WindowQueues DEF HFind!GameFinds
  <2> QED
    BY <1>5, <2>2 DEF HFind!GameFinds, WindowTypes, HFind!uiVars
<1>6. ASSUME NEW s \in searches, HFind!SearchEnds(s) PROVE WindowTypes'
  BY <1>6 DEF HFind!SearchEnds, WindowTypes, HFind!uiVars
<1>7. ASSUME NEW t \in FindThread, HFind!GamePrints(t) PROVE WindowTypes'
  <2>1. [kind |-> "Text", thread |-> t, session |-> game.id] \in WindowEvents
    BY <1>7, WindowMade, WindowNumbers DEF HFind!GamePrints
  <2>2. found' \in Seq(WindowEvents)
    BY <1>0, <1>7, <2>1, WindowQueues DEF HFind!GamePrints
  <2> QED
    BY <1>7, <2>2, WindowNumbers DEF HFind!GamePrints, WindowTypes
<1>8. CASE HFind!HandleEvent
  <2> DEFINE e == Head(found)
  <2>0. /\ found' \in Seq(WindowEvents) /\ e \in WindowEvents
        /\ UNCHANGED <<game, searches, counts>>
    BY <1>0, <1>8 DEF HFind!HandleEvent
  <2> HIDE DEF e
  <2>1. ASSUME NEW later \in Nat, HFind!ResetSession(later)
        PROVE  /\ selected' \in WindowChoices /\ pending' \subseteq WindowCandidates /\ listed' \in WindowView
               /\ dialog' \in WindowOpenDialogs \cup {HFind!Closed} /\ hookSession' \in Nat
               /\ history' \in WindowHistories
    <3>1. dialog' \in WindowOpenDialogs \cup {HFind!Closed}
      <4>1. CASE HFind!Reachable
        <5>1. HFind!Cleared(dialog) \in WindowOpenDialogs
          BY <4>1, WindowOpenTyped DEF HFind!Reachable
        <5> QED
          BY <2>1, <4>1, <5>1 DEF HFind!ResetSession, WindowOpenDialogs
      <4>2. CASE ~HFind!Reachable
        BY <2>1, <4>2 DEF HFind!ResetSession, WindowTypes
      <4> QED
        BY <4>1, <4>2
    <3>2. HFind!Lent \in BOOLEAN
      BY WindowOpenTyped DEF HFind!Lent, WindowOpenDialogs, HFind!Closed
    <3>3. history' \in WindowHistories
      BY <2>1, <3>2, WindowNumbers DEF HFind!ResetSession
    <3> QED
      BY <2>1, <3>1, <3>3, WindowOpenTyped DEF HFind!ResetSession, HFind!ChoiceAfterSession
  <2>2. CASE HFind!HandleAttached(e)
    <3>1. e.session \in WindowIds
      BY <2>0, <2>2, WindowCarried DEF HFind!HandleAttached
    <3> DEFINE m == IF HFind!Connecting(Tail(found)) THEN 0 ELSE e.session
               hook == [kind |-> "NewHook", address |-> FindSavedHook, meant |-> m]
    <3>2. hook \in WindowRequests
      <4>1. m \in Nat
        BY <3>1 DEF WindowIds
      <4> QED
        BY <4>1, WindowMade
    <3>3. asks' \in Seq(WindowRequests)
      <4>1. asks' = asks \/ asks' = asks \o <<hook>>
        BY <2>2 DEF HFind!HandleAttached, HFind!Ask
      <4> HIDE DEF hook
      <4> QED
        BY <1>0, <3>2, <4>1
    <3>4. HFind!ResetSession(e.session) /\ e.session \in Nat /\ auto' \in FindThread \cup {HFind!None}
      BY <2>2, <3>1, WindowNumbers DEF HFind!HandleAttached, WindowIds
    <3>5. /\ selected' \in WindowChoices /\ pending' \subseteq WindowCandidates /\ listed' \in WindowView
          /\ dialog' \in WindowOpenDialogs \cup {HFind!Closed} /\ hookSession' \in Nat
          /\ history' \in WindowHistories
      BY <2>1, <3>4
    <3> QED
      BY <2>0, <3>3, <3>4, <3>5 DEF WindowTypes
  <2>3. CASE HFind!HandleDetached(e)
    BY <2>0, <2>1, <2>3, WindowNumbers DEF HFind!HandleDetached, WindowTypes
  <2>4. CASE HFind!HandleText(e)
    <3>1. e.thread \in FindThread /\ e.session \in Nat
      BY <2>0, <2>4, WindowCarried DEF HFind!HandleText
    <3>2. \A streams \in Seq(FindThread) : HFind!WithStream(streams, e.thread) \in Seq(FindThread)
      BY <3>1 DEF HFind!WithStream
    <3>3. dialog' \in WindowOpenDialogs \cup {HFind!Closed}
      BY <2>4, <3>2, WindowOpenTyped DEF HFind!HandleText, HFind!Reachable, WindowOpenDialogs,
                        WindowTypes
    <3>4. listed' \in WindowView
      BY <2>4, <3>2 DEF HFind!HandleText, WindowView, WindowTypes
    <3>5. selected' \in WindowChoices /\ auto' \in FindThread \cup {HFind!None}
      BY <2>4, <3>1 DEF HFind!HandleText, WindowChoices, WindowTypes
    <3>6. history' \in WindowHistories
      <4>1. HFind!Lent \in BOOLEAN
        BY WindowOpenTyped DEF HFind!Lent, WindowOpenDialogs, HFind!Closed
      <4> QED
        BY <2>4, <3>1, <3>2, <4>1 DEF HFind!HandleText, WindowTypes, WindowHistories
    <3> QED
      BY <2>0, <2>4, <3>3, <3>4, <3>5, <3>6 DEF HFind!HandleText, WindowTypes
  <2>5. CASE HFind!HandleFound(e)
    <3>1. [address |-> e.address, generation |-> e.generation, search |-> e.search] \in WindowCandidates
      BY <2>0, <2>5, WindowCarried DEF HFind!HandleFound, WindowCandidates
    <3> DEFINE results == HFind!Collected([address |-> e.address, generation |-> e.generation,
                                   search |-> e.search])
    <3>2. results \subseteq WindowCandidates
      BY <3>1 DEF HFind!Collected, WindowTypes
    <3>3. IF HFind!Reachable THEN HFind!Drained(dialog, results) /\ pending' = {}
          ELSE pending' = results /\ UNCHANGED dialog
      BY <2>5 DEF HFind!HandleFound
    <3> HIDE DEF results
    <3>4. dialog' \in WindowOpenDialogs \cup {HFind!Closed} /\ pending' \subseteq WindowCandidates
      <4>1. CASE HFind!Reachable
        <5>1. dialog \in WindowOpenDialogs
          BY <4>1, WindowOpenTyped DEF HFind!Reachable
        <5>2. PICK new \in SUBSET HFind!Fresh(dialog, results) :
                dialog' = [dialog EXCEPT !.candidates = dialog.candidates \cup new,
                              !.offered = dialog.waiting /\ dialog.label # 0
                                              /\ dialog.candidates \cup new # {}]
          BY <3>3, <4>1 DEF HFind!Drained
        <5>3. new \subseteq WindowCandidates /\ pending' = {}
          BY <3>2, <3>3, <4>1 DEF HFind!Fresh
        <5>4. dialog' \in WindowOpenDialogs
          BY <5>1, <5>2, <5>3 DEF WindowOpenDialogs
        <5> QED
          BY <5>3, <5>4
      <4> QED
        BY <3>2, <3>3, <4>1 DEF WindowTypes
    <3> QED
      BY <2>0, <2>5, <3>4 DEF HFind!HandleFound, WindowTypes
  <2> QED
    BY <1>8, <2>2, <2>3, <2>4, <2>5 DEF HFind!HandleEvent, e
<1>9. CASE HFind!Open
  <2>1. dialog' \in WindowOpenDialogs
    <3>1. HFind!Opened(listed) \in WindowOpenDialogs /\ pending \subseteq WindowCandidates
      BY WindowOpenTyped DEF WindowTypes
    <3> QED
      BY <1>9, <3>1 DEF HFind!Open, HFind!Drained, HFind!Fresh, WindowOpenDialogs
  <2> QED
    BY <1>9, <2>1, WindowOpenTyped DEF HFind!Open, WindowTypes
<1>10. CASE HFind!Close
  <2>1. dialog \in WindowOpenDialogs
    BY <1>10, WindowOpenTyped DEF HFind!Close, HFind!Reachable
  <2>2. HFind!ViewKept(dialog) \in WindowView
    BY <2>1 DEF HFind!ViewKept, WindowView, WindowOpenDialogs
  <2>3. /\ listed' \in WindowView /\ dialog' = HFind!Closed /\ counts' \in WindowCounters
        /\ UNCHANGED <<asks, game, searches, found, hookSession, pending, selected, auto, history>>
    BY <1>10, <2>2, WindowNumbers DEF HFind!Close
  <2> QED
    BY <2>3 DEF WindowTypes
<1>11. ASSUME HFind!Connect \/ HFind!Detach \/ HFind!StopSession PROVE WindowTypes'
  <2>1. <<[kind |-> "Attach"]>> \in Seq(WindowRequests) /\ <<[kind |-> "Detach"]>> \in Seq(WindowRequests)
    <3>1. [kind |-> "Attach"] \in WindowRequests /\ [kind |-> "Detach"] \in WindowRequests
      BY WindowMade
    <3> QED
      BY <3>1
  <2>2. asks' \in Seq(WindowRequests)
    <3>1. \/ asks' = asks \o <<[kind |-> "Attach"]>>
          \/ asks' = asks \o <<[kind |-> "Detach"]>>
      BY <1>11 DEF HFind!Connect, HFind!Detach, HFind!StopSession, HFind!Ask
    <3>2. /\ asks \o <<[kind |-> "Attach"]>> \in Seq(WindowRequests)
          /\ asks \o <<[kind |-> "Detach"]>> \in Seq(WindowRequests)
      <4> DEFINE a == <<[kind |-> "Attach"]>>
                 d == <<[kind |-> "Detach"]>>
      <4>1. a \in Seq(WindowRequests) /\ d \in Seq(WindowRequests)
        BY <2>1
      <4> HIDE DEF a, d
      <4>2. asks \o a \in Seq(WindowRequests) /\ asks \o d \in Seq(WindowRequests)
        BY <1>0, <4>1
      <4> QED
        BY <4>2 DEF a, d
    <3> QED
      BY <3>1, <3>2
  <2>3. dialog' \in WindowOpenDialogs \cup {HFind!Closed}
    BY <1>11, WindowOpenTyped DEF HFind!Connect, HFind!Detach, HFind!StopSession, HFind!Usable,
                        HFind!Managed, HFind!Reachable, WindowTypes
  <2> QED
    BY <1>11, <2>2, <2>3 DEF HFind!Connect, HFind!Detach, HFind!StopSession, WindowTypes
<1>12. CASE HFind!StartSearch
  <2>1. dialog \in WindowOpenDialogs
    BY <1>12, WindowOpenTyped DEF HFind!StartSearch, HFind!Managed, HFind!Usable, HFind!Reachable
  <2> DEFINE id == counts.searches + 1
             generation == dialog.generation + 1
  <2>2. id \in WindowIds /\ generation \in Nat
    <3>1. counts.searches \in Nat /\ dialog.generation \in Nat
      BY <2>1, WindowNumbers DEF WindowOpenDialogs
    <3> QED
      BY <3>1 DEF WindowIds
  <2>3. <<[kind |-> "FindHook", search |-> id, generation |-> generation]>> \in Seq(WindowRequests)
    BY <2>1, <2>2, WindowMade
  <2>4. asks' \in Seq(WindowRequests)
    BY <1>0, <1>12, <2>3 DEF HFind!StartSearch, HFind!Ask
  <2>5. dialog' \in WindowOpenDialogs
    BY <1>12, <2>1, <2>2 DEF HFind!StartSearch, WindowOpenDialogs, WindowIds
  <2> QED
    BY <1>12, <2>2, <2>4, <2>5, WindowNumbers DEF HFind!StartSearch, WindowTypes, WindowIds
<1>13. CASE HFind!SearchTimePasses
  BY <1>13, WindowOpenTyped DEF HFind!SearchTimePasses, WindowOpenDialogs, WindowTypes
<1>14. ASSUME NEW new \in FindAddress \cup {FindSavedHook}, NEW old \in FindAddress \cup {0, FindSavedHook},
              dialog.open
       PROVE  asks \o HFind!Replacement(new, old) \in Seq(WindowRequests)
  <2>0. HFind!Meant \in Nat
    BY <1>14, WindowMeant
  <2>1. <<[kind |-> "NewHook", address |-> new, meant |-> HFind!Meant]>> \in Seq(WindowRequests)
    <3>1. [kind |-> "NewHook", address |-> new, meant |-> HFind!Meant] \in WindowRequests
      BY <2>0, WindowMade
    <3> QED
      BY <3>1
  <2>2. ASSUME old \notin {0, new}
        PROVE  <<[kind |-> "RemoveHook", address |-> old, meant |-> HFind!Meant]>> \in Seq(WindowRequests)
    <3>1. [kind |-> "RemoveHook", address |-> old, meant |-> HFind!Meant] \in WindowRequests
      BY <2>0, <2>2, WindowMade
    <3> QED
      BY <3>1
  <2>3. << >> \in Seq(WindowRequests)
    OBVIOUS
  <2> DEFINE rest == IF old \in {0, new} THEN << >>
                     ELSE <<[kind |-> "RemoveHook", address |-> old, meant |-> HFind!Meant]>>
             first == <<[kind |-> "NewHook", address |-> new, meant |-> HFind!Meant]>>
  <2>4. rest \in Seq(WindowRequests) /\ first \in Seq(WindowRequests) /\ HFind!Replacement(new, old) = first \o rest
    BY <2>1, <2>2, <2>3 DEF HFind!Replacement
  <2> HIDE DEF rest, first
  <2> QED
    BY <1>0, <2>4
<1>15. CASE HFind!InstallCandidate
  <2>1. dialog \in WindowOpenDialogs /\ dialog.open
    BY <1>15, WindowOpenTyped DEF HFind!InstallCandidate, HFind!Managed, HFind!Usable,
                        HFind!Reachable
  <2>2. PICK c \in dialog.candidates :
            /\ HFind!Ask(HFind!Replacement(c.address, dialog.installed))
            /\ dialog' = [dialog EXCEPT !.installed = c.address]
    BY <1>15 DEF HFind!InstallCandidate
  <2>3. c.address \in FindAddress /\ dialog.installed \in FindAddress \cup {0}
    BY <2>1 DEF WindowOpenDialogs, WindowCandidates
  <2>4. asks' \in Seq(WindowRequests)
    BY <1>14, <2>1, <2>2, <2>3 DEF HFind!Ask
  <2>5. dialog' \in WindowOpenDialogs
    BY <2>1, <2>2, <2>3 DEF WindowOpenDialogs
  <2> QED
    BY <1>15, <2>4, <2>5, WindowNumbers DEF HFind!InstallCandidate, WindowTypes
<1>16. CASE HFind!InstallManual
  <2>1. dialog \in WindowOpenDialogs /\ dialog.open
    BY <1>16, WindowOpenTyped DEF HFind!InstallManual, HFind!Managed, HFind!Usable,
                        HFind!Reachable
  <2>3. dialog.manual \in {0, FindSavedHook}
    BY <2>1 DEF WindowOpenDialogs
  <2>4. asks' \in Seq(WindowRequests)
    BY <1>14, <1>16, <2>1, <2>3 DEF HFind!Ask, HFind!InstallManual
  <2>5. dialog' \in WindowOpenDialogs
    BY <1>16, <2>1, <2>3 DEF WindowOpenDialogs, HFind!InstallManual
  <2> QED
    BY <1>16, <2>4, <2>5, WindowNumbers DEF HFind!InstallManual, WindowTypes
<1>17. CASE HFind!SelectStream
  <2>1. dialog \in WindowOpenDialogs
    BY <1>17, WindowOpenTyped DEF HFind!SelectStream, HFind!Managed, HFind!Usable, HFind!Reachable
  <2>2. selected' \in WindowChoices
    BY <1>17, <2>1 DEF HFind!SelectStream, WindowChoices, WindowOpenDialogs, WindowTypes
  <2> QED
    BY <1>17, <2>2 DEF HFind!SelectStream, WindowTypes
<1>18. CASE HFind!OpenBox \/ HFind!EndBox
  <2>1. dialog \in WindowOpenDialogs
    BY <1>18, WindowOpenTyped DEF HFind!OpenBox, HFind!EndBox, HFind!Lent, HFind!Managed,
                        HFind!Usable, HFind!Reachable
  <2>2. dialog' \in WindowOpenDialogs
    BY <1>18, <2>1 DEF HFind!OpenBox, HFind!EndBox, WindowOpenDialogs
  <2> QED
    BY <1>18, <2>2, WindowNumbers DEF HFind!OpenBox, HFind!EndBox, WindowTypes
<1>19. CASE UNCHANGED HFind!vars
  BY <1>19 DEF HFind!vars, WindowTypes
<1> QED
  BY <1>1, <1>2, <1>3, <1>4, <1>5, <1>6, <1>7, <1>8, <1>9, <1>10, <1>11, <1>12, <1>13, <1>15,
     <1>16, <1>17, <1>18, <1>19 DEF HFind!Next, HFind!Backend, HFind!User

\* What the window lists, open or kept, is what the session has shown.
LEMMA WindowStreamsStep ==
    ASSUME WindowTypes, HFind!StreamsSurviveClosing, [HFind!Next]_HFind!vars
    PROVE  HFind!StreamsSurviveClosing'
<1> USE DEF HFind!StreamsSurviveClosing
<1> DEFINE Same == /\ dialog'.open = dialog.open
                   /\ dialog.open => dialog'.streams = dialog.streams
                   /\ listed'.streams = listed.streams /\ history'.observed = history.observed
                   /\ history'.missed = history.missed
<1>0. /\ dialog.open => dialog \in WindowOpenDialogs
      /\ ~dialog.open => dialog = HFind!Closed
      /\ history \in WindowHistories /\ listed \in WindowView
  BY WindowOpenTyped DEF WindowTypes
<1>1. CASE HFind!HandleEvent
  <2> DEFINE e == Head(found)
  <2>1. CASE HFind!HandleAttached(e) \/ HFind!HandleDetached(e)
    <3>1. PICK next : HFind!ResetSession(next)
      BY <2>1 DEF HFind!HandleAttached, HFind!HandleDetached
    <3>2. history'.observed = << >> /\ history'.missed = HFind!Lent
      BY <1>0, <3>1 DEF HFind!ResetSession, WindowHistories
    <3>3. CASE HFind!Reachable
      <4>1. HFind!Cleared(dialog) \in WindowOpenDialogs /\ HFind!Cleared(dialog).streams = << >>
        BY <1>0, <3>3, WindowOpenTyped DEF HFind!Cleared, WindowOpenDialogs, HFind!Reachable
      <4>2. dialog'.open /\ dialog'.streams = << >>
        BY <3>1, <3>3, <4>1 DEF HFind!ResetSession, WindowOpenDialogs
      <4> QED
        BY <3>2, <4>2
    <3>4. CASE ~dialog.open
      BY <3>1, <3>2, <3>4 DEF HFind!ResetSession, HFind!Reachable, HFind!EmptyView
    <3> QED
      BY <3>2, <3>3, <3>4 DEF HFind!Reachable, HFind!Lent
  <2>2. CASE HFind!HandleText(e)
    <3>1. /\ history'.observed = HFind!WithStream(history.observed, e.thread)
          /\ history'.missed = (history.missed \/ HFind!Lent)
      BY <1>0, <2>2 DEF HFind!HandleText, WindowHistories
    <3>2. CASE HFind!Reachable
      <4>1. dialog' = [dialog EXCEPT !.streams = HFind!WithStream(@, e.thread)] /\ dialog.open
        BY <2>2, <3>2 DEF HFind!HandleText, HFind!Reachable
      <4>2. dialog'.open /\ dialog'.streams = HFind!WithStream(dialog.streams, e.thread)
        BY <1>0, <4>1 DEF WindowOpenDialogs
      <4> QED
        BY <3>1, <4>1, <4>2
    <3>3. CASE ~dialog.open
      <4>1. dialog' = dialog /\ listed' = [listed EXCEPT !.streams = HFind!WithStream(@, e.thread)]
        BY <2>2, <3>3 DEF HFind!HandleText, HFind!Reachable
      <4>2. listed'.streams = HFind!WithStream(listed.streams, e.thread)
        BY <1>0, <4>1 DEF WindowView
      <4> QED
        BY <3>1, <3>3, <4>1, <4>2
    <3> QED
      BY <3>1, <3>2, <3>3 DEF HFind!Reachable, HFind!Lent
  <2>3. CASE HFind!HandleFound(e)
    <3>1. UNCHANGED <<listed, history>>
      BY <2>3 DEF HFind!HandleFound
    <3>2. CASE HFind!Reachable
      <4>1. PICK all, on : dialog' = [dialog EXCEPT !.candidates = all, !.offered = on]
        BY <2>3, <3>2 DEF HFind!HandleFound, HFind!Drained
      <4> QED
        BY <1>0, <3>1, <3>2, <4>1 DEF WindowOpenDialogs, HFind!Reachable
    <3>3. CASE ~HFind!Reachable
      BY <2>3, <3>1, <3>3 DEF HFind!HandleFound
    <3> QED
      BY <3>2, <3>3
  <2> QED
    BY <1>1, <2>1, <2>2, <2>3 DEF HFind!HandleEvent
<1>2. CASE HFind!Open
  <2>1. PICK all, on : dialog' = [HFind!Opened(listed) EXCEPT !.candidates = all, !.offered = on]
    BY <1>2 DEF HFind!Open, HFind!Drained
  <2>2. dialog'.open /\ dialog'.streams = listed.streams
    BY <2>1 DEF HFind!Opened
  <2> QED
    BY <1>2, <2>2 DEF HFind!Open
<1>3. CASE HFind!Close
  BY <1>3 DEF HFind!Close, HFind!Reachable, HFind!ViewKept, HFind!Closed
<1>4. CASE HFind!Backend
  <2>1. UNCHANGED <<dialog, listed>>
    BY <1>4 DEF HFind!Backend, HFind!WorkerAttach, HFind!WorkerDetach, HFind!WorkerHook,
                HFind!WorkerFindHook, HFind!GameExits,
                HFind!SearchEnds, HFind!GameFinds, HFind!GamePrints, HFind!uiVars
  <2>2. history'.observed = history.observed /\ history'.missed = history.missed
    <3>1. \/ history' = history
          \/ history' = [history EXCEPT !.hooked = FALSE]
          \/ \E a, b : history' = [history EXCEPT !.strayed = a, !.hooked = b]
      BY <1>4 DEF HFind!Backend, HFind!WorkerAttach, HFind!WorkerDetach, HFind!WorkerHook,
                  HFind!WorkerFindHook, HFind!GameExits,
                  HFind!SearchEnds, HFind!GameFinds, HFind!GamePrints, HFind!uiVars
    <3> QED
      BY <1>0, <3>1 DEF WindowHistories
  <2> QED
    BY <2>1, <2>2
<1>5. CASE HFind!Connect \/ HFind!Detach \/ HFind!StopSession \/ HFind!SearchTimePasses
  <2>1. Same
    BY <1>0, <1>5
       DEF HFind!Connect, HFind!Detach, HFind!StopSession, HFind!SearchTimePasses,
           HFind!Usable, HFind!Managed, HFind!Reachable, HFind!Waiting, WindowOpenDialogs
  <2> QED
    BY <2>1
<1>6. CASE HFind!StartSearch \/ HFind!OpenBox \/ HFind!EndBox
  <2>1. Same
    BY <1>0, <1>6 DEF HFind!StartSearch, HFind!OpenBox, HFind!EndBox, HFind!Lent, HFind!Usable,
                      HFind!Managed, HFind!Reachable, WindowOpenDialogs
  <2> QED
    BY <2>1
<1>7. CASE HFind!InstallCandidate \/ HFind!InstallManual \/ HFind!SelectStream
  <2>1. Same
    BY <1>0, <1>7 DEF HFind!InstallCandidate, HFind!InstallManual, HFind!SelectStream,
                      HFind!Usable, HFind!Managed, HFind!Reachable, WindowOpenDialogs
  <2> QED
    BY <2>1
<1>8. CASE UNCHANGED HFind!vars
  BY <1>8 DEF HFind!vars
<1> QED
  BY <1>1, <1>2, <1>3, <1>4, <1>5, <1>6, <1>7, <1>8 DEF HFind!Next, HFind!User

\* A hook that is removed was exchanged for another: the one that takes its place comes right
\* before it, or is in the game already.
WindowExchanged ==
    \A i \in 1..Len(asks) :
        asks[i].kind = "RemoveHook" /\ asks[i].address \in FindAddress =>
            \/ /\ i > 1 /\ asks[i - 1].kind = "NewHook"
               /\ asks[i - 1].address \in FindAddress \ {asks[i].address}
            \/ i = 1 /\ (game.id = 0 \/ game.hooks \cap (FindAddress \ {asks[i].address}) # {})

\* The two requests of an exchange.
LEMMA WindowExchangeAsked ==
    ASSUME WindowTypes, WindowExchanged, UNCHANGED game,
           NEW new \in FindAddress \cup {FindSavedHook}, NEW old \in FindAddress \cup {0, FindSavedHook},
           dialog.open, old \in FindAddress => new \in FindAddress \/ old = new,
           asks' = asks \o HFind!Replacement(new, old)
    PROVE  WindowExchanged'
<1> DEFINE first == [kind |-> "NewHook", address |-> new, meant |-> HFind!Meant]
           second == [kind |-> "RemoveHook", address |-> old, meant |-> HFind!Meant]
<1>1. asks \in Seq(WindowRequests) /\ HFind!Meant \in Nat
  BY WindowMeant DEF WindowTypes
<1>2. first \in WindowRequests
  BY <1>1, WindowMade
<1>3. CASE old \in {0, new}
  <2>1. asks' = Append(asks, first)
    BY <1>1, <1>2, <1>3 DEF HFind!Replacement
  <2>2. /\ Len(asks') = Len(asks) + 1 /\ asks'[Len(asks) + 1] = first
        /\ \A i \in 1..Len(asks) : asks'[i] = asks[i]
    BY <1>1, <1>2, <2>1, WindowQueues
  <2> QED
    BY <1>1, <2>2 DEF WindowExchanged
<1>4. CASE old \notin {0, new}
  <2>0. second \in WindowRequests
    BY <1>1, <1>4, WindowMade
  <2>1. asks' = Append(Append(asks, first), second)
    BY <1>1, <1>2, <1>4, <2>0 DEF HFind!Replacement
  <2>2. /\ Append(asks, first) \in Seq(WindowRequests)
        /\ Len(Append(asks, first)) = Len(asks) + 1
        /\ Append(asks, first)[Len(asks) + 1] = first
        /\ \A i \in 1..Len(asks) : Append(asks, first)[i] = asks[i]
    BY <1>1, <1>2, WindowQueues
  <2>3. /\ Len(asks') = Len(asks) + 2
        /\ asks'[Len(asks) + 1] = first /\ asks'[Len(asks) + 2] = second
        /\ \A i \in 1..Len(asks) : asks'[i] = asks[i]
    BY <1>1, <2>0, <2>1, <2>2, WindowQueues
  <2>4. Len(asks) \in Nat
    BY <1>1
  <2> HIDE DEF first, second
  <2>5. /\ first.kind = "NewHook" /\ first.address = new
        /\ second.kind = "RemoveHook" /\ second.address = old
    BY DEF first, second
  <2> QED
    BY <1>4, <2>3, <2>4, <2>5 DEF WindowExchanged
<1> QED
  BY <1>3, <1>4

LEMMA WindowExchangeTaken ==
    ASSUME WindowTypes, WindowExchanged, asks # << >>, asks' = Tail(asks),
           Head(asks).kind = "NewHook" =>
               game'.id = 0 \/ Head(asks).address \in game'.hooks
    PROVE  WindowExchanged'
<1>1. /\ Len(asks) \in Nat /\ Len(asks') = Len(asks) - 1 /\ Head(asks) = asks[1]
      /\ \A i \in 1..(Len(asks) - 1) : asks'[i] = asks[i + 1]
  BY WindowQueues DEF WindowTypes, WindowIds
<1> SUFFICES ASSUME NEW i \in 1..Len(asks'),
                    asks'[i].kind = "RemoveHook", asks'[i].address \in FindAddress
             PROVE  \/ /\ i > 1 /\ asks'[i - 1].kind = "NewHook"
                       /\ asks'[i - 1].address \in FindAddress \ {asks'[i].address}
                    \/ /\ i = 1
                       /\ \/ game'.id = 0
                          \/ game'.hooks \cap (FindAddress \ {asks'[i].address}) # {}
  BY DEF WindowExchanged
<1>2. i \in 1..(Len(asks) - 1) /\ i + 1 \in 1..Len(asks) /\ i + 1 > 1 /\ i + 1 # 1
      /\ (i + 1) - 1 = i
  BY <1>1
<1>3. asks[i + 1].kind = "RemoveHook" /\ asks[i + 1].address = asks'[i].address
  BY <1>1, <1>2
<1>4. /\ asks[i].kind = "NewHook"
      /\ asks[i].address \in FindAddress \ {asks'[i].address}
  BY <1>2, <1>3 DEF WindowExchanged
<1>5. CASE i = 1
  BY <1>1, <1>4, <1>5
<1>6. CASE i # 1
  <2>1. i > 1 /\ i - 1 \in 1..(Len(asks) - 1) /\ (i - 1) + 1 = i
    BY <1>2, <1>6
  <2>2. asks'[i - 1] = asks[i]
    BY <1>1, <2>1
  <2> QED
    BY <1>4, <2>1, <2>2
<1> QED
  BY <1>5, <1>6

LEMMA WindowExchangeKept ==
    ASSUME WindowTypes, WindowExchanged,
           \/ asks' = asks
           \/ \E r \in WindowRequests : r.kind # "RemoveHook" /\ asks' = Append(asks, r),
           UNCHANGED game \/ game'.id = 0
    PROVE  WindowExchanged'
<1>1. CASE asks' = asks
  BY <1>1 DEF WindowExchanged
<1>2. CASE \E r \in WindowRequests : r.kind # "RemoveHook" /\ asks' = Append(asks, r)
  <2>1. PICK r \in WindowRequests : r.kind # "RemoveHook" /\ asks' = Append(asks, r)
    BY <1>2
  <2>2. /\ Len(asks) \in Nat
        /\ Len(asks') = Len(asks) + 1 /\ asks'[Len(asks) + 1] = r
        /\ \A i \in 1..Len(asks) : asks'[i] = asks[i]
    BY <2>1, WindowQueues DEF WindowTypes
  <2> QED
    BY <2>1, <2>2 DEF WindowExchanged
<1> QED
  BY <1>1, <1>2

LEMMA WindowHookedStep ==
    ASSUME WindowTypes, WindowExchanged, HFind!AlwaysHooked, [HFind!Next]_HFind!vars
    PROVE  WindowExchanged' /\ HFind!AlwaysHooked'
<1>0. /\ asks \in Seq(WindowRequests) /\ game \in WindowSessions /\ history \in WindowHistories
      /\ dialog.open => dialog \in WindowOpenDialogs
  BY WindowOpenTyped DEF WindowTypes
<1>1. CASE HFind!WorkerAttach
  <2>1. asks # << >> /\ asks' = Tail(asks) /\ Head(asks).kind = "Attach"
    BY <1>1 DEF HFind!WorkerAttach, HFind!Take
  <2>2. ~history'.hooked
    BY <1>0, <1>1 DEF HFind!WorkerAttach, WindowHistories
  <2> QED
    BY <2>1, <2>2, WindowExchangeTaken DEF HFind!AlwaysHooked
<1>2. CASE HFind!WorkerDetach
  <2>1. asks # << >> /\ asks' = Tail(asks) /\ Head(asks).kind = "Detach"
    BY <1>2 DEF HFind!WorkerDetach, HFind!Take
  <2>2. game'.id = 0
    BY <1>0, <1>2 DEF HFind!WorkerDetach, WindowSessions
  <2> QED
    BY <2>1, <2>2, WindowExchangeTaken DEF HFind!AlwaysHooked
<1>3. CASE HFind!WorkerHook
  <2> DEFINE r == Head(asks)
  <2>1. asks # << >> /\ asks' = Tail(asks) /\ r.kind \in {"NewHook", "RemoveHook"}
        /\ r = asks[1] /\ 1 \in 1..Len(asks)
    BY <1>0, <1>3, WindowQueues DEF HFind!WorkerHook, HFind!Take, WindowIds
  <2>2. history'.hooked = (history.hooked \/ (game.id # 0 /\ r.kind = "NewHook"
                                               /\ r.address \in FindAddress))
    BY <1>0, <1>3 DEF HFind!WorkerHook, WindowHistories
  <2>3. CASE r.kind = "NewHook"
    <3>1. /\ game'.id = game.id
          /\ game.id # 0 => game'.hooks = game.hooks \cup {r.address}
      BY <1>0, <1>3, <2>3 DEF HFind!WorkerHook, HFind!Take, WindowSessions
    <3> QED
      BY <2>1, <2>2, <2>3, <3>1, WindowExchangeTaken DEF HFind!AlwaysHooked
  <2>4. CASE r.kind = "RemoveHook"
    <3>1. game'.id = game.id /\ game'.hooks = game.hooks \ {r.address}
      BY <1>0, <1>3, <2>4 DEF HFind!WorkerHook, HFind!Take, WindowSessions
    <3>2. r.address \in FindAddress =>
            game.id = 0 \/ game.hooks \cap (FindAddress \ {r.address}) # {}
      BY <2>1, <2>4 DEF WindowExchanged
    <3>3. HFind!AlwaysHooked'
      BY <2>2, <2>4, <3>1, <3>2 DEF HFind!AlwaysHooked
    <3> QED
      BY <2>1, <2>4, <3>3, WindowExchangeTaken
  <2> QED
    BY <2>1, <2>3, <2>4
<1>4. CASE HFind!WorkerFindHook
  <2>1. asks # << >> /\ asks' = Tail(asks) /\ Head(asks).kind = "FindHook"
    BY <1>4 DEF HFind!WorkerFindHook, HFind!Take
  <2>2. game'.id = game.id /\ game'.hooks = game.hooks /\ history' = history
    BY <1>0, <1>4 DEF HFind!WorkerFindHook, WindowSessions, HFind!uiVars
  <2> QED
    BY <2>1, <2>2, WindowExchangeTaken DEF HFind!AlwaysHooked
<1>5. CASE HFind!GameExits
  <2>1. game'.id = 0 /\ asks' = asks
    BY <1>0, <1>5 DEF HFind!GameExits, WindowSessions
  <2> QED
    BY <2>1, WindowExchangeKept DEF HFind!AlwaysHooked
<1>6. ASSUME NEW s \in searches, HFind!SearchEnds(s) \/ \E a \in FindAddress : HFind!GameFinds(s, a)
      PROVE  WindowExchanged' /\ HFind!AlwaysHooked'
  BY <1>6 DEF HFind!SearchEnds, HFind!GameFinds, HFind!uiVars, WindowExchanged, HFind!AlwaysHooked
<1>7. ASSUME NEW t \in FindThread, HFind!GamePrints(t) PROVE WindowExchanged' /\ HFind!AlwaysHooked'
  BY <1>7 DEF HFind!GamePrints, WindowExchanged, HFind!AlwaysHooked
<1>8. CASE HFind!HandleEvent
  <2> DEFINE e == Head(found)
  <2>1. e \in WindowEvents /\ UNCHANGED game
    BY <1>8, WindowQueues DEF HFind!HandleEvent, WindowTypes
  <2>2. history'.hooked = history.hooked
    BY <1>0, <1>8
       DEF HFind!HandleEvent, HFind!HandleAttached, HFind!HandleDetached, HFind!ResetSession,
           HFind!HandleText, HFind!HandleFound, WindowHistories
  <2>3. \/ asks' = asks
        \/ \E r \in WindowRequests : r.kind # "RemoveHook" /\ asks' = Append(asks, r)
    <3>1. CASE HFind!HandleAttached(e)
      <4>1. e.session \in WindowIds
        BY <2>1, <3>1, WindowCarried DEF HFind!HandleAttached
      <4> DEFINE m == IF HFind!Connecting(Tail(found)) THEN 0 ELSE e.session
                 r == [kind |-> "NewHook", address |-> FindSavedHook, meant |-> m]
      <4>2. r \in WindowRequests /\ r.kind # "RemoveHook"
        <5>1. m \in Nat
          BY <4>1 DEF WindowIds
        <5> HIDE DEF m
        <5> QED
          BY <5>1, WindowMade
      <4>3. asks' = asks \/ asks' = asks \o <<r>>
        BY <3>1 DEF HFind!HandleAttached, HFind!Ask
      <4> HIDE DEF r
      <4>4. asks \o <<r>> = Append(asks, r)
        BY <1>0, <4>2
      <4> QED
        BY <4>2, <4>3, <4>4
    <3> QED
      BY <1>8, <3>1 DEF HFind!HandleEvent, HFind!HandleDetached, HFind!HandleText,
                        HFind!HandleFound
  <2> QED
    BY <2>1, <2>2, <2>3, WindowExchangeKept DEF HFind!AlwaysHooked
<1>9. CASE HFind!Connect \/ HFind!Detach \/ HFind!StopSession \/ HFind!StartSearch
  <2>1. UNCHANGED <<game, history>>
    BY <1>9 DEF HFind!Connect, HFind!Detach, HFind!StopSession, HFind!StartSearch
  <2>2. \E r \in WindowRequests : r.kind # "RemoveHook" /\ asks' = asks \o <<r>>
    <3>1. CASE HFind!Connect \/ HFind!Detach \/ HFind!StopSession
      <4>1. \/ asks' = asks \o <<[kind |-> "Attach"]>>
            \/ asks' = asks \o <<[kind |-> "Detach"]>>
        BY <3>1 DEF HFind!Connect, HFind!Detach, HFind!StopSession, HFind!Ask
      <4> QED
        BY <4>1, WindowMade
    <3>2. CASE HFind!StartSearch
      <4>1. dialog \in WindowOpenDialogs /\ counts.searches \in Nat
        BY <1>0, <3>2, WindowNumbers DEF HFind!StartSearch, HFind!Managed, HFind!Usable,
                        HFind!Reachable
      <4> DEFINE id == counts.searches + 1  generation == dialog.generation + 1
      <4>2. id \in WindowIds /\ generation \in Nat
        BY <4>1 DEF WindowOpenDialogs, WindowIds
      <4>3. asks' = asks \o <<[kind |-> "FindHook", search |-> id, generation |-> generation]>>
        BY <3>2 DEF HFind!StartSearch, HFind!Ask
      <4> HIDE DEF id, generation
      <4>4. [kind |-> "FindHook", search |-> id, generation |-> generation] \in WindowRequests
        BY <4>1, <4>2, WindowMade
      <4> QED
        BY <4>3, <4>4
    <3> QED
      BY <1>9, <3>1, <3>2
  <2>3. \E r \in WindowRequests : r.kind # "RemoveHook" /\ asks' = Append(asks, r)
    BY <1>0, <2>2
  <2> QED
    BY <2>1, <2>3, WindowExchangeKept DEF HFind!AlwaysHooked
<1>10. CASE HFind!InstallCandidate
  <2>1. dialog \in WindowOpenDialogs /\ dialog.open /\ UNCHANGED <<game, history>>
    BY <1>0, <1>10 DEF HFind!InstallCandidate, HFind!Managed, HFind!Usable, HFind!Reachable
  <2>2. PICK c \in dialog.candidates : asks' = asks \o HFind!Replacement(c.address, dialog.installed)
    BY <1>10 DEF HFind!InstallCandidate, HFind!Ask
  <2>3. c.address \in FindAddress /\ dialog.installed \in FindAddress \cup {0}
    BY <2>1 DEF WindowOpenDialogs, WindowCandidates
  <2> QED
    BY <2>1, <2>2, <2>3, WindowExchangeAsked DEF HFind!AlwaysHooked
<1>11. CASE HFind!InstallManual
  <2>1. dialog \in WindowOpenDialogs /\ dialog.open /\ UNCHANGED <<game, history>>
    BY <1>0, <1>11 DEF HFind!InstallManual, HFind!Managed, HFind!Usable, HFind!Reachable
  <2>2. asks' = asks \o HFind!Replacement(FindSavedHook, dialog.manual)
    BY <1>11 DEF HFind!InstallManual, HFind!Ask
  <2>3. dialog.manual \in {0, FindSavedHook}
    BY <2>1 DEF WindowOpenDialogs
  <2>4. CASE dialog.manual = FindSavedHook
    BY <2>1, <2>2, <2>4, WindowExchangeAsked DEF HFind!AlwaysHooked
  <2>5. CASE dialog.manual = 0
    <3>1. HFind!Replacement(FindSavedHook, 0) = HFind!Replacement(FindSavedHook, FindSavedHook)
      BY DEF HFind!Replacement
    <3> QED
      BY <2>1, <2>2, <2>5, <3>1, WindowExchangeAsked DEF HFind!AlwaysHooked
  <2> QED
    BY <2>3, <2>4, <2>5
<1>12. CASE \/ HFind!Open \/ HFind!Close \/ HFind!SearchTimePasses \/ HFind!OpenBox \/ HFind!EndBox
            \/ HFind!SelectStream \/ UNCHANGED HFind!vars
  BY <1>12 DEF HFind!Open, HFind!Close, HFind!SearchTimePasses, HFind!OpenBox, HFind!EndBox,
               HFind!SelectStream, HFind!vars, WindowExchanged, HFind!AlwaysHooked
<1> QED
  BY <1>1, <1>2, <1>3, <1>4, <1>5, <1>6, <1>7, <1>8, <1>9, <1>10, <1>11, <1>12
     DEF HFind!Next, HFind!Backend, HFind!User

\* An event ends the session before it; any other belongs to the session of the event before.
WindowEnds(e) == e.kind \in {"Attached", "AttachFailed", "Detached"}
\* What the window and the choice say of the session, unless a box kept an event from the window.
WindowChosen(window, chosen, shown, missed, s) ==
    /\ window \in {0, s}
    /\ ~missed => /\ chosen = HFind!NoChoice \/ chosen.session = s
                  /\ shown.open => shown.label \in {0, s}
WindowOfSession(s) == WindowChosen(hookSession, selected, dialog, history.missed, s)
WindowSettled ==
    ~history.missed =>
        /\ selected = HFind!NoChoice \/ hookSession = 0 \/ selected.session = hookSession
        /\ dialog.open => dialog.label = 0 \/ hookSession = 0 \/ dialog.label = hookSession
WindowInTurnOf(ev, id) ==
    /\ \A i \in 1..(Len(ev) - 1) : ~WindowEnds(ev[i + 1]) => ev[i + 1].session = ev[i].session
    /\ ev # << >> /\ ~WindowEnds(ev[1]) => WindowOfSession(ev[1].session)
    /\ id # 0 => IF ev = << >> THEN WindowOfSession(id) ELSE ev[Len(ev)].session = id
    /\ WindowSettled
WindowInTurn == WindowInTurnOf(found, game.id)

LEMMA WindowTurnAppended ==
    ASSUME NEW ev \in Seq(WindowEvents), NEW id, NEW new, NEW e \in WindowEvents, WindowInTurnOf(ev, id),
           WindowEnds(e) \/ (id # 0 /\ e.session = id),
           new # 0 => new = e.session
    PROVE  WindowInTurnOf(Append(ev, e), new)
<1> DEFINE later == Append(ev, e)
<1>1. /\ Len(ev) \in Nat /\ Len(later) = Len(ev) + 1 /\ later[Len(ev) + 1] = e
      /\ \A i \in 1..Len(ev) : later[i] = ev[i]
      /\ later # << >>
  BY WindowQueues
<1> HIDE DEF later
<1>2. ASSUME NEW i \in 1..(Len(later) - 1), ~WindowEnds(later[i + 1])
      PROVE  later[i + 1].session = later[i].session
  <2>1. CASE i = Len(ev)
    <3>1. ev # << >> /\ later[i + 1] = e /\ later[i] = ev[i]
      BY <1>1, <2>1, <1>2
    <3> QED
      BY <1>2, <2>1, <3>1 DEF WindowInTurnOf
  <2>2. CASE i # Len(ev)
    <3>1. i \in 1..(Len(ev) - 1) /\ later[i] = ev[i] /\ later[i + 1] = ev[i + 1]
      BY <1>1, <1>2, <2>2
    <3> QED
      BY <1>2, <3>1 DEF WindowInTurnOf
  <2> QED
    BY <2>1, <2>2
<1>3. ~WindowEnds(later[1]) => WindowOfSession(later[1].session)
  <2>1. CASE ev = << >>
    BY <1>1, <2>1 DEF WindowInTurnOf
  <2>2. CASE ev # << >>
    BY <1>1, <2>2 DEF WindowInTurnOf
  <2> QED
    BY <2>1, <2>2
<1> QED
  BY <1>1, <1>2, <1>3 DEF WindowInTurnOf, later

LEMMA WindowTurnTaken ==
    ASSUME WindowTypes, found # << >>, found' = Tail(found), UNCHANGED game, WindowInTurn,
           WindowChosen(hookSession', selected', dialog', history'.missed, Head(found).session),
           WindowSettled'
    PROVE  WindowInTurn'
<1>1. /\ Len(found) \in Nat \ {0} /\ Len(found') = Len(found) - 1 /\ Head(found) = found[1]
      /\ found' \in Seq(WindowEvents)
      /\ \A i \in 1..(Len(found) - 1) : found'[i] = found[i + 1]
  BY WindowQueues DEF WindowTypes, WindowIds
<1>2. ASSUME NEW i \in 1..(Len(found') - 1), ~WindowEnds(found'[i + 1])
      PROVE  found'[i + 1].session = found'[i].session
  <2>1. /\ i + 1 \in 1..(Len(found) - 1)
        /\ found'[i + 1] = found[(i + 1) + 1] /\ found'[i] = found[i + 1]
    BY <1>1, <1>2
  <2> QED
    BY <1>2, <2>1 DEF WindowInTurn, WindowInTurnOf
<1>3. ASSUME found' # << >>, ~WindowEnds(found'[1])
      PROVE  WindowChosen(hookSession', selected', dialog', history'.missed, found'[1].session)
  <2>1. Len(found) > 1 /\ found'[1] = found[1 + 1] /\ 1 \in 1..(Len(found) - 1)
    BY <1>1, <1>3
  <2>2. ~WindowEnds(found[1 + 1])
    BY <1>3, <2>1
  <2>3. found'[1].session = Head(found).session
    BY <1>1, <2>1, <2>2 DEF WindowInTurn, WindowInTurnOf
  <2> QED
    BY <2>3
<1>4. ASSUME game'.id # 0
      PROVE  IF found' = << >>
             THEN WindowChosen(hookSession', selected', dialog', history'.missed, game'.id)
             ELSE found'[Len(found')].session = game'.id
  <2>1. found[Len(found)].session = game.id
    BY <1>4 DEF WindowInTurn, WindowInTurnOf
  <2>2. CASE found' = << >>
    <3>1. Len(found) = 1
      <4>1. Len(<< >>) = 0
        OBVIOUS
      <4>2. Len(found') = 0
        BY <2>2, <4>1
      <4> QED
        BY <1>1, <4>2
    <3> QED
      BY <1>1, <2>1, <2>2, <3>1 DEF WindowOfSession, WindowChosen
  <2>3. CASE found' # << >>
    <3>1. Len(found') \in 1..(Len(found) - 1)
      BY <1>1, <2>3
    <3>2. found'[Len(found')] = found[Len(found)]
      BY <1>1, <3>1
    <3> QED
      BY <2>1, <2>3, <3>2
  <2> QED
    BY <2>2, <2>3
<1> QED
  BY <1>2, <1>3, <1>4 DEF WindowInTurn, WindowInTurnOf, WindowOfSession

\* The requests of the user that are no hooks.
LEMMA WindowPlainRequest ==
    ASSUME WindowTypes, HFind!Connect \/ HFind!Detach \/ HFind!StopSession \/ HFind!StartSearch
    PROVE  \E q \in WindowRequests :
               /\ asks' = Append(asks, q) /\ q.kind \in {"Attach", "Detach", "FindHook"}
               /\ q.kind = "Attach" => HFind!Connect
               /\ q.kind = "FindHook" => HFind!StartSearch
<1>0. asks \in Seq(WindowRequests) /\ (dialog.open => dialog \in WindowOpenDialogs)
  BY WindowOpenTyped DEF WindowTypes
<1>1. CASE HFind!Connect
  <2>1. asks' = asks \o <<[kind |-> "Attach"]>> /\ [kind |-> "Attach"] \in WindowRequests
    BY <1>1, WindowMade DEF HFind!Connect, HFind!Ask
  <2>2. asks' = Append(asks, [kind |-> "Attach"])
    BY <1>0, <2>1
  <2> QED
    BY <1>1, <2>1, <2>2
<1>2. CASE HFind!Detach \/ HFind!StopSession
  <2>1. asks' = asks \o <<[kind |-> "Detach"]>> /\ [kind |-> "Detach"] \in WindowRequests
    BY <1>2, WindowMade DEF HFind!Detach, HFind!StopSession, HFind!Ask
  <2>2. asks' = Append(asks, [kind |-> "Detach"])
    BY <1>0, <2>1
  <2> QED
    BY <2>1, <2>2
<1>3. CASE HFind!StartSearch
  <2>1. dialog \in WindowOpenDialogs
    BY <1>0, <1>3 DEF HFind!StartSearch, HFind!Managed, HFind!Usable, HFind!Reachable
  <2> DEFINE id == counts.searches + 1  generation == dialog.generation + 1
             r == [kind |-> "FindHook", search |-> id, generation |-> generation]
  <2>2. id \in WindowIds /\ generation \in Nat /\ r.kind = "FindHook"
    <3>1. counts.searches \in Nat
      BY WindowNumbers
    <3> QED
      BY <2>1, <3>1 DEF WindowOpenDialogs, WindowIds
  <2>3. r \in WindowRequests
    <3> HIDE DEF id, generation
    <3> QED
      BY <2>2, WindowMade
  <2>4. asks' = asks \o <<r>>
    BY <1>3 DEF HFind!StartSearch, HFind!Ask
  <2> HIDE DEF r
  <2>5. asks' = Append(asks, r)
    BY <1>0, <2>3, <2>4
  <2> QED
    BY <1>3, <2>2, <2>3, <2>5
<1> QED
  BY <1>1, <1>2, <1>3

\* The two kinds of exchange.
LEMMA WindowExchangeOf ==
    ASSUME WindowTypes, HFind!InstallCandidate \/ HFind!InstallManual
    PROVE  /\ dialog \in WindowOpenDialogs
           /\ \E new \in FindAddress \cup {FindSavedHook}, old \in FindAddress \cup {0, FindSavedHook} :
                asks' = asks \o HFind!Replacement(new, old)
           /\ UNCHANGED <<game, searches, found, hookSession, pending, history>>
           /\ dialog'.open /\ dialog'.inFlight = dialog.inFlight /\ dialog'.search = dialog.search
           /\ dialog'.generation = dialog.generation /\ dialog'.candidates = dialog.candidates
           /\ dialog'.waiting = dialog.waiting /\ dialog'.label = dialog.label
           /\ dialog'.lent = dialog.lent
<1>1. dialog \in WindowOpenDialogs
  BY WindowOpenTyped DEF HFind!InstallCandidate, HFind!InstallManual, HFind!Managed, HFind!Usable,
                         HFind!Reachable
<1>2. UNCHANGED <<game, searches, found, hookSession, pending, history>>
  BY DEF HFind!InstallCandidate, HFind!InstallManual
<1>3. CASE HFind!InstallCandidate
  <2>1. PICK c \in dialog.candidates : /\ asks' = asks \o HFind!Replacement(c.address, dialog.installed)
                                       /\ dialog' = [dialog EXCEPT !.installed = c.address]
    BY <1>3 DEF HFind!InstallCandidate, HFind!Ask
  <2>2. c.address \in FindAddress /\ dialog.installed \in FindAddress \cup {0}
    BY <1>1 DEF WindowOpenDialogs, WindowCandidates
  <2> QED
    BY <1>1, <1>2, <2>1, <2>2 DEF WindowOpenDialogs
<1>4. CASE HFind!InstallManual
  <2>1. /\ asks' = asks \o HFind!Replacement(FindSavedHook, dialog.manual)
        /\ dialog' = [dialog EXCEPT !.manual = FindSavedHook]
    BY <1>4 DEF HFind!InstallManual, HFind!Ask
  <2>2. dialog.manual \in {0, FindSavedHook}
    BY <1>1 DEF WindowOpenDialogs
  <2> QED
    BY <1>1, <1>2, <2>1, <2>2 DEF WindowOpenDialogs
<1> QED
  BY <1>3, <1>4

\* The label of an open window changes only with the session, and with the window.
LEMMA WindowLabelKept ==
    ASSUME WindowTypes,
           \/ HFind!Close \/ HFind!Connect \/ HFind!Detach \/ HFind!StopSession \/ HFind!StartSearch
           \/ HFind!SearchTimePasses \/ HFind!InstallCandidate \/ HFind!InstallManual
           \/ HFind!OpenBox \/ HFind!EndBox \/ HFind!SelectStream \/ UNCHANGED HFind!vars
    PROVE  /\ UNCHANGED <<found, game, history>> /\ hookSession' \in {0, hookSession}
           /\ dialog'.open => dialog.open /\ dialog'.label = dialog.label
<1>1. UNCHANGED <<found, game, history>> /\ hookSession' \in {0, hookSession}
  BY DEF HFind!Close, HFind!Connect, HFind!Detach, HFind!StopSession, HFind!StartSearch,
         HFind!SearchTimePasses, HFind!InstallCandidate, HFind!InstallManual, HFind!OpenBox,
         HFind!EndBox, HFind!SelectStream, HFind!vars
<1>2. dialog.open => dialog \in WindowOpenDialogs
  BY WindowOpenTyped
<1>3. CASE HFind!Close \/ HFind!SelectStream \/ UNCHANGED HFind!vars
  BY <1>1, <1>3 DEF HFind!Close, HFind!SelectStream, HFind!vars, HFind!Closed
<1>4. CASE HFind!Connect \/ HFind!Detach \/ HFind!StopSession
  BY <1>1, <1>2, <1>4 DEF HFind!Connect, HFind!Detach, HFind!StopSession, HFind!Managed,
                          HFind!Usable, HFind!Reachable, HFind!Waiting, WindowOpenDialogs
<1>5. CASE HFind!StartSearch \/ HFind!SearchTimePasses
  BY <1>1, <1>2, <1>5 DEF HFind!StartSearch, HFind!SearchTimePasses, HFind!Managed, HFind!Usable,
                          HFind!Reachable, WindowOpenDialogs
<1>6. CASE HFind!InstallCandidate \/ HFind!InstallManual
  BY <1>1, <1>6, WindowExchangeOf DEF WindowOpenDialogs
<1>7. CASE HFind!OpenBox \/ HFind!EndBox
  BY <1>1, <1>2, <1>7 DEF HFind!OpenBox, HFind!EndBox, HFind!Managed, HFind!Usable,
                          HFind!Reachable, HFind!Lent, WindowOpenDialogs
<1> QED
  BY <1>3, <1>4, <1>5, <1>6, <1>7

LEMMA WindowTurnKept ==
    ASSUME WindowInTurn, found' = found, game'.id = game.id, hookSession' \in {0, hookSession},
           history'.missed = history.missed,
           \/ selected' = selected
           \/ dialog.open /\ dialog.label # 0 /\ selected'.session = dialog.label,
           dialog'.open => \/ dialog'.label = hookSession'
                           \/ dialog.open /\ dialog'.label = dialog.label
    PROVE  WindowInTurn'
<1>1. \A s : WindowOfSession(s) => WindowOfSession(s)'
  BY DEF WindowOfSession, WindowChosen
<1>2. WindowSettled'
  BY DEF WindowInTurn, WindowInTurnOf, WindowSettled
<1> QED
  BY <1>1, <1>2 DEF WindowInTurn, WindowInTurnOf

LEMMA WindowTurnStep ==
    ASSUME WindowTypes, WindowInTurn, ~history.mixed, [HFind!Next]_HFind!vars
    PROVE  WindowInTurn' /\ ~history'.mixed
<1>0. /\ found \in Seq(WindowEvents) /\ game \in WindowSessions /\ history \in WindowHistories
      /\ game.id \in Nat /\ selected \in WindowChoices
  BY WindowNumbers DEF WindowTypes
<1>1. CASE HFind!WorkerAttach
  <2> DEFINE id == game.count + 1
             first == [kind |-> "Attached", session |-> id]
             refusal == [kind |-> "AttachFailed", session |-> 0]
  <2>1. first \in WindowEvents /\ refusal \in WindowEvents /\ HFind!Ended \in WindowEvents /\ id \in WindowIds
        /\ WindowEnds(first) /\ WindowEnds(refusal) /\ WindowEnds(HFind!Ended) /\ HFind!Ended.session = 0
    <3>1. game.count \in Nat
      BY WindowNumbers
    <3>2. id \in WindowIds
      BY <3>1 DEF WindowIds
    <3> QED
      BY <3>2, WindowMade DEF WindowEnds, HFind!Ended
  <2> DEFINE ev == IF game.id = 0 THEN found ELSE Append(found, HFind!Ended)
  <2>2. ev \in Seq(WindowEvents) /\ WindowInTurnOf(ev, 0)
    <3>1. CASE game.id = 0
      BY <1>0, <3>1 DEF WindowInTurn
    <3>2. CASE game.id # 0
      BY <1>0, <2>1, <3>2, WindowTurnAppended, WindowQueues DEF WindowInTurn
    <3> QED
      BY <3>1, <3>2
  <2>3. \/ game'.id = id /\ found' = Append(ev, first)
        \/ game'.id = 0 /\ found' = Append(ev, refusal)
    <3> DEFINE old == IF game.id = 0 THEN << >> ELSE <<HFind!Ended>>
    <3>1. found \o old = ev
      BY <1>0, <2>1
    <3>2. /\ found \o old \o <<first>> = Append(ev, first)
          /\ found \o old \o <<refusal>> = Append(ev, refusal)
      <4> HIDE DEF first, refusal, old, ev, id
      <4> QED
        BY <2>1, <2>2, <3>1
    <3>3. \/ game' = [id |-> id, generation |-> 0, hooks |-> {}, count |-> id]
             /\ found' = found \o old \o <<first>>
          \/ game' = [game EXCEPT !.id = 0, !.count = id]
             /\ found' = found \o old \o <<refusal>>
      BY <1>1 DEF HFind!WorkerAttach
    <3>4. /\ [id |-> id, generation |-> 0, hooks |-> {}, count |-> id].id = id
          /\ [game EXCEPT !.id = 0, !.count = id].id = 0
      BY <1>0 DEF WindowSessions
    <3> QED
      BY <3>2, <3>3, <3>4
  <2>4. /\ WindowInTurnOf(Append(ev, first), id)
        /\ WindowInTurnOf(Append(ev, refusal), 0)
    <3>1. first.session = id
      OBVIOUS
    <3> HIDE DEF first, refusal, id, ev
    <3> QED
      BY <2>1, <2>2, <3>1, WindowTurnAppended
  <2>5. /\ UNCHANGED <<hookSession, selected, dialog>>
        /\ history'.mixed = history.mixed /\ history'.missed = history.missed
    BY <1>0, <1>1 DEF HFind!WorkerAttach, WindowHistories
  <2> HIDE DEF first, refusal, id, ev
  <2>6. WindowInTurnOf(found', game'.id)
    BY <2>3, <2>4
  <2> QED
    BY <2>5, <2>6 DEF WindowInTurn, WindowInTurnOf, WindowOfSession, WindowSettled
<1>2. CASE HFind!WorkerDetach \/ HFind!GameExits
  <2>1. /\ game'.id = 0 /\ UNCHANGED <<hookSession, selected, dialog, history>>
        /\ found' = found \/ found' = Append(found, HFind!Ended)
    BY <1>0, <1>2 DEF HFind!WorkerDetach, HFind!GameExits, HFind!uiVars, WindowSessions
  <2>2. HFind!Ended \in WindowEvents /\ WindowEnds(HFind!Ended) /\ WindowInTurnOf(found, 0)
    BY WindowMade DEF WindowEnds, HFind!Ended, WindowInTurn, WindowInTurnOf
  <2>3. WindowInTurnOf(Append(found, HFind!Ended), 0)
    BY <1>0, <2>2, WindowTurnAppended
  <2>4. WindowInTurnOf(found', 0)
    BY <2>1, <2>2, <2>3
  <2>5. /\ selected' = selected /\ hookSession' = hookSession /\ history' = history
        /\ dialog' = dialog /\ game'.id = 0
    BY <2>1
  <2> QED
    BY <2>4, <2>5 DEF WindowInTurn, WindowInTurnOf, WindowOfSession, WindowSettled
<1>3. CASE HFind!WorkerHook \/ HFind!WorkerFindHook \/ \E s \in searches : HFind!SearchEnds(s)
  <2>1. /\ game'.id = game.id /\ UNCHANGED <<hookSession, selected, dialog, found>>
        /\ history'.mixed = history.mixed /\ history'.missed = history.missed
    BY <1>0, <1>3 DEF HFind!WorkerHook, HFind!WorkerFindHook, HFind!SearchEnds, HFind!uiVars,
                      WindowSessions, WindowHistories
  <2> QED
    BY <2>1, WindowTurnKept
<1>4. ASSUME NEW e \in WindowEvents, e.session = game.id, game.id # 0,
             found' = Append(found, e), UNCHANGED <<game, hookSession, selected, dialog, history>>
      PROVE  WindowInTurn' /\ ~history'.mixed
  <2>1. WindowInTurnOf(Append(found, e), game.id)
    BY <1>0, <1>4, WindowTurnAppended DEF WindowInTurn
  <2> QED
    BY <1>4, <2>1 DEF WindowInTurn, WindowInTurnOf, WindowOfSession, WindowSettled
<1>5. ASSUME NEW s \in searches, NEW a \in FindAddress, HFind!GameFinds(s, a)
      PROVE  WindowInTurn' /\ ~history'.mixed
  <2> DEFINE e == [kind |-> "FoundHook", generation |-> game.generation, search |-> s.id,
                   address |-> a, session |-> game.id]
  <2>1. e \in WindowEvents /\ e.session = game.id /\ game.id # 0
    <3>1. game.id \in WindowIds /\ game.generation \in Nat /\ s.id \in WindowIds
      BY <1>5, WindowNumbers DEF HFind!GameFinds, WindowIds
    <3> QED
      BY <3>1, WindowMade DEF WindowIds
  <2>2. found' = Append(found, e) /\ UNCHANGED <<game, hookSession, selected, dialog, history>>
    BY <1>5 DEF HFind!GameFinds, HFind!uiVars
  <2> QED
    BY <1>4, <2>1, <2>2
<1>6. ASSUME NEW t \in FindThread, HFind!GamePrints(t) PROVE WindowInTurn' /\ ~history'.mixed
  <2> DEFINE e == [kind |-> "Text", thread |-> t, session |-> game.id]
  <2>1. e \in WindowEvents /\ e.session = game.id /\ game.id # 0
    BY <1>6, WindowMade, WindowNumbers DEF HFind!GamePrints
  <2>2. found' = Append(found, e) /\ UNCHANGED <<game, hookSession, selected, dialog, history>>
    BY <1>6 DEF HFind!GamePrints
  <2> QED
    BY <1>4, <2>1, <2>2
<1>7. CASE HFind!HandleEvent
  <2> DEFINE e == Head(found)
  <2>0. found # << >> /\ found' = Tail(found) /\ UNCHANGED game /\ e \in WindowEvents /\ e = found[1]
    BY <1>0, <1>7, WindowQueues DEF HFind!HandleEvent
  <2>00. ~WindowEnds(e) => WindowOfSession(e.session)
    BY <2>0 DEF WindowInTurn, WindowInTurnOf
  <2>000. HFind!HandleAttached(e) \/ HFind!HandleDetached(e) \/ HFind!HandleText(e) \/ HFind!HandleFound(e)
    BY <1>7 DEF HFind!HandleEvent
  <2> HIDE DEF e
  <2>0000. dialog.open => dialog \in WindowOpenDialogs
    BY WindowOpenTyped
  <2>1. CASE HFind!HandleAttached(e) \/ HFind!HandleDetached(e)
    <3>1. PICK next \in {0, e.session} : HFind!ResetSession(next)
      BY <2>1 DEF HFind!HandleAttached, HFind!HandleDetached
    <3>2. /\ selected' = HFind!NoChoice /\ hookSession' = next
          /\ history'.mixed = history.mixed /\ history'.missed = HFind!Lent
      BY <1>0, <3>1 DEF HFind!ResetSession, HFind!ChoiceAfterSession, WindowHistories
    <3>3. ~HFind!Lent /\ dialog'.open => dialog'.label = next
      <4>1. CASE HFind!Reachable
        <5>1. HFind!Cleared(dialog) \in WindowOpenDialogs
          BY <4>1, WindowOpenTyped DEF HFind!Reachable
        <5> QED
          BY <3>1, <4>1, <5>1 DEF HFind!ResetSession, WindowOpenDialogs
      <4>2. CASE ~HFind!Reachable
        BY <3>1, <4>2 DEF HFind!ResetSession, HFind!Reachable, HFind!Lent
      <4> QED
        BY <4>1, <4>2
    <3>4. WindowChosen(hookSession', selected', dialog', history'.missed, e.session) /\ WindowSettled'
      BY <3>2, <3>3 DEF WindowChosen, WindowSettled
    <3> QED
      BY <2>0, <3>2, <3>4, WindowTurnTaken DEF e
  <2>2. CASE HFind!HandleFound(e)
    <3>1. ~WindowEnds(e) /\ UNCHANGED <<hookSession, selected, history>>
      BY <2>2 DEF HFind!HandleFound, WindowEnds
    <3>2. dialog'.open => dialog.open /\ dialog'.label = dialog.label
      <4>1. CASE HFind!Reachable
        <5>1. PICK all, on : dialog' = [dialog EXCEPT !.candidates = all, !.offered = on]
          BY <2>2, <4>1 DEF HFind!HandleFound, HFind!Drained
        <5> QED
          BY <2>0000, <4>1, <5>1 DEF WindowOpenDialogs, HFind!Reachable
      <4>2. CASE ~HFind!Reachable
        BY <2>2, <4>2 DEF HFind!HandleFound
      <4> QED
        BY <4>1, <4>2
    <3>3. WindowChosen(hookSession', selected', dialog', history'.missed, e.session)
      BY <2>00, <3>1, <3>2 DEF WindowOfSession, WindowChosen
    <3>4. WindowSettled'
      BY <3>1, <3>2 DEF WindowInTurn, WindowInTurnOf, WindowSettled
    <3> QED
      BY <2>0, <3>1, <3>3, <3>4, WindowTurnTaken DEF e
  <2>3. CASE HFind!HandleText(e)
    <3>1. e.kind = "Text" /\ ~WindowEnds(e) /\ UNCHANGED hookSession /\ e.thread \in FindThread
      BY <2>0, <2>3, WindowCarried DEF HFind!HandleText, WindowEnds
    <3>2. \/ selected' = selected
          \/ selected' = [thread |-> e.thread, session |-> e.session]
      BY <2>3 DEF HFind!HandleText
    <3>3. dialog'.open => dialog.open /\ dialog'.label = dialog.label
      BY <2>0000, <2>3 DEF HFind!HandleText, HFind!Reachable, WindowOpenDialogs
    <3>4. /\ history'.missed = (history.missed \/ HFind!Lent)
          /\ history'.mixed = (history.mixed \/ (~history.missed /\ selected'.thread = e.thread
                                                    /\ selected'.session # e.session))
      BY <1>0, <2>3 DEF HFind!HandleText, WindowHistories
    <3>5. WindowOfSession(e.session)
      BY <2>00, <3>1
    <3>6. ~history.missed => selected' = HFind!NoChoice \/ selected'.session = e.session
      BY <3>2, <3>5 DEF WindowOfSession, WindowChosen
    <3>7. HFind!NoChoice.thread = HFind!None
      BY DEF HFind!NoChoice
    <3>8. ~history'.mixed
      BY <3>1, <3>4, <3>6, <3>7, NamedThreads
    <3>9. WindowChosen(hookSession', selected', dialog', history'.missed, e.session)
      BY <3>1, <3>3, <3>4, <3>5, <3>6 DEF WindowOfSession, WindowChosen
    <3>10. WindowSettled'
      BY <3>1, <3>3, <3>4, <3>5, <3>6
         DEF WindowInTurn, WindowInTurnOf, WindowSettled, WindowOfSession, WindowChosen
    <3> QED
      BY <2>0, <3>8, <3>9, <3>10, WindowTurnTaken DEF e
  <2> QED
    BY <2>000, <2>1, <2>2, <2>3
<1>8. CASE HFind!Open
  <2>1. PICK all, on : dialog' = [HFind!Opened(listed) EXCEPT !.candidates = all, !.offered = on]
    BY <1>8 DEF HFind!Open, HFind!Drained
  <2>2. dialog'.label = hookSession
    BY <2>1 DEF HFind!Opened
  <2> QED
    BY <1>8, <2>2, WindowTurnKept DEF HFind!Open
<1>9. CASE \/ HFind!Close \/ HFind!Connect \/ HFind!Detach \/ HFind!StopSession \/ HFind!StartSearch
           \/ HFind!SearchTimePasses \/ HFind!InstallCandidate \/ HFind!InstallManual
           \/ HFind!OpenBox \/ HFind!EndBox \/ HFind!SelectStream \/ UNCHANGED HFind!vars
  <2>1. /\ UNCHANGED <<found, game, history>> /\ hookSession' \in {0, hookSession}
        /\ dialog'.open => dialog.open /\ dialog'.label = dialog.label
    BY <1>9, WindowLabelKept
  <2>2. \/ selected' = selected
        \/ dialog.open /\ dialog.label # 0 /\ selected'.session = dialog.label
    BY <1>9 DEF HFind!Close, HFind!Connect, HFind!Detach, HFind!StopSession, HFind!StartSearch,
                HFind!SearchTimePasses, HFind!InstallCandidate, HFind!InstallManual, HFind!OpenBox,
                HFind!EndBox, HFind!SelectStream, HFind!vars, HFind!Managed, HFind!Usable,
                HFind!Reachable
  <2> QED
    BY <2>1, <2>2, WindowTurnKept
<1> QED
  BY <1>1, <1>2, <1>3, <1>5, <1>6, <1>7, <1>8, <1>9 DEF HFind!Next, HFind!Backend, HFind!User

\* The kinds in a queue.
WindowAnyOf(s, kinds) == \E i \in 1..Len(s) : s[i].kind \in kinds
WindowOnlyOne(s, kinds) ==
    \A i, j \in 1..Len(s) : s[i].kind \in kinds /\ s[j].kind \in kinds => i = j
WindowConnects == {"Attached", "AttachFailed"}
WindowBreaks == {"Attached", "AttachFailed", "Detached"}

\* A hook meant for a session, and any request of the kinds given.
WindowHook(r) == r.kind \in {"NewHook", "RemoveHook"} /\ r.meant # 0
WindowBound(r, kinds) == r.kind \in kinds \/ WindowHook(r)
WindowBoundFirst(rs, kinds) ==
    \A i, j \in 1..Len(rs) : WindowBound(rs[i], kinds) /\ rs[j].kind = "Attach" => i < j
WindowMeantFor(rs, id) == \A i \in 1..Len(rs) : WindowHook(rs[i]) => id \in {0, rs[i].meant}
WindowLast(ev, id) ==
    \A i \in 1..Len(ev) :
        ev[i].kind = "Attached" /\ (\A j \in 1..Len(ev) : j > i => ev[j].kind # "Attached") =>
            ev[i].session = id
WindowKnows(window, shown, missed, id) ==
    window \in {0, id} /\ (~missed /\ shown.open => shown.label \in {0, id})

\* The hooks on their way that are meant for a session are for the one the worker has, of which
\* the window knows once it has handled the last of the connections.
WindowBelongs ==
    /\ WindowBoundFirst(asks, {}) /\ WindowMeantFor(asks, game.id) /\ ~history.strayed
    /\ game.id # 0 =>
         /\ WindowLast(found, game.id)
         /\ WindowAnyOf(found, {"Attached"})
              \/ WindowKnows(hookSession, dialog, history.missed, game.id)

\* If the user waits for the answer, one connection is under way at a time, and no box of the
\* window is open meanwhile.
WindowOneConnection ==
    /\ WindowOnlyOne(asks, {"Attach"}) /\ WindowOnlyOne(found, WindowConnects)
    /\ ~(WindowAnyOf(asks, {"Attach"}) /\ WindowAnyOf(found, WindowConnects))
    /\ WindowAnyOf(asks, {"Attach"}) \/ WindowAnyOf(found, WindowConnects) =>
         dialog.open /\ ~dialog.lent /\ (dialog.waiting \/ dialog.label = 0)

WindowThenAttached(ev) ==
    \A i \in 1..Len(ev) : ev[i].kind \in {"AttachFailed", "Detached"} =>
        \E j \in 1..Len(ev) : j > i /\ ev[j].kind = "Attached"

\* No search is asked for behind a connection, and the end of a session is followed by the
\* beginning of the one the worker has.
WindowInOrder ==
    /\ WindowBoundFirst(asks, {"FindHook"})
    /\ game.id # 0 => WindowThenAttached(found)

WindowSought(rs, d) ==
    \A i \in 1..Len(rs) : rs[i].kind = "FindHook" =>
        d.open /\ d.inFlight = rs[i].search /\ d.generation = rs[i].generation
WindowFound(ev, d) ==
    \A i \in 1..Len(ev) : ev[i].kind = "FoundHook" =>
        /\ d.open /\ d.inFlight = ev[i].search /\ d.generation = ev[i].generation
        /\ \A j \in 1..i : ev[j].kind \notin WindowBreaks

\* One search is under way at a time, and its generation is the window's.
WindowOneSearch ==
    /\ \A s \in searches :
         /\ s.session = game.id /\ dialog.open /\ dialog.inFlight = s.id
         /\ game.generation = dialog.generation
         /\ ~WindowAnyOf(found, WindowBreaks)
    /\ game.id # 0 =>
         WindowSought(asks, dialog) /\ (WindowAnyOf(asks, {"FindHook"}) => ~WindowAnyOf(found, WindowBreaks))
    /\ WindowFound(found, dialog)
    /\ dialog.open /\ dialog.inFlight # 0 => dialog.inFlight = dialog.search
    /\ dialog.open => \A c \in pending : c.search = dialog.search
    /\ HFind!NoResultOfEarlierSearch
WindowAlone == WindowOneConnection /\ WindowInOrder /\ WindowOneSearch
WindowNoneBound(rs, kinds) == \A i \in 1..Len(rs) : ~WindowBound(rs[i], kinds)

LEMMA WindowKindsAppended ==
    ASSUME NEW S, NEW s \in Seq(S), NEW x \in S, NEW kinds
    PROVE  /\ WindowAnyOf(Append(s, x), kinds) <=> WindowAnyOf(s, kinds) \/ x.kind \in kinds
           /\ WindowOnlyOne(s, kinds) /\ (x.kind \notin kinds \/ ~WindowAnyOf(s, kinds)) =>
                WindowOnlyOne(Append(s, x), kinds)
<1>1. /\ Len(s) \in Nat /\ Len(Append(s, x)) = Len(s) + 1 /\ Append(s, x)[Len(s) + 1] = x
      /\ \A i \in 1..Len(s) : Append(s, x)[i] = s[i]
  BY WindowQueues
<1>2. 1..(Len(s) + 1) = 1..Len(s) \cup {Len(s) + 1}
  BY <1>1
<1> QED
  BY <1>1, <1>2 DEF WindowAnyOf, WindowOnlyOne

LEMMA WindowKindsTaken ==
    ASSUME NEW S, NEW s \in Seq(S), s # << >>, NEW kinds
    PROVE  /\ WindowAnyOf(s, kinds) <=> Head(s).kind \in kinds \/ WindowAnyOf(Tail(s), kinds)
           /\ WindowOnlyOne(s, kinds) =>
                WindowOnlyOne(Tail(s), kinds) /\ (Head(s).kind \in kinds => ~WindowAnyOf(Tail(s), kinds))
<1>1. /\ Len(s) \in Nat \ {0} /\ Len(Tail(s)) = Len(s) - 1 /\ Head(s) = s[1]
      /\ \A i \in 1..(Len(s) - 1) : Tail(s)[i] = s[i + 1]
  BY WindowQueues DEF WindowIds
<1>2. WindowAnyOf(s, kinds) => Head(s).kind \in kinds \/ WindowAnyOf(Tail(s), kinds)
  <2> SUFFICES ASSUME NEW i \in 1..Len(s), s[i].kind \in kinds
               PROVE  Head(s).kind \in kinds \/ WindowAnyOf(Tail(s), kinds)
    BY DEF WindowAnyOf
  <2>1. CASE i = 1
    BY <1>1, <2>1
  <2>2. CASE i # 1
    <3>1. i - 1 \in 1..(Len(s) - 1) /\ (i - 1) + 1 = i
      BY <1>1, <2>2
    <3>2. Tail(s)[i - 1].kind \in kinds
      BY <1>1, <3>1
    <3> QED
      BY <1>1, <3>1, <3>2 DEF WindowAnyOf
  <2> QED
    BY <2>1, <2>2
<1>3. Head(s).kind \in kinds => WindowAnyOf(s, kinds)
  BY <1>1 DEF WindowAnyOf
<1>4. WindowAnyOf(Tail(s), kinds) => WindowAnyOf(s, kinds)
  <2> SUFFICES ASSUME NEW i \in 1..(Len(s) - 1), Tail(s)[i].kind \in kinds PROVE WindowAnyOf(s, kinds)
    BY <1>1 DEF WindowAnyOf
  <2>1. i + 1 \in 1..Len(s) /\ s[i + 1].kind \in kinds
    BY <1>1
  <2> QED
    BY <2>1 DEF WindowAnyOf
<1>5. ASSUME WindowOnlyOne(s, kinds) PROVE WindowOnlyOne(Tail(s), kinds)
  <2> SUFFICES ASSUME NEW i \in 1..(Len(s) - 1), NEW j \in 1..(Len(s) - 1),
                      Tail(s)[i].kind \in kinds, Tail(s)[j].kind \in kinds
               PROVE  i = j
    BY <1>1 DEF WindowOnlyOne
  <2>1. i + 1 \in 1..Len(s) /\ s[i + 1].kind \in kinds /\ j + 1 \in 1..Len(s) /\ s[j + 1].kind \in kinds
    BY <1>1
  <2>2. i + 1 = j + 1
    BY <1>5, <2>1 DEF WindowOnlyOne
  <2> QED
    BY <2>2
<1>6. ASSUME WindowOnlyOne(s, kinds), Head(s).kind \in kinds, WindowAnyOf(Tail(s), kinds) PROVE FALSE
  <2>1. PICK i \in 1..(Len(s) - 1) : Tail(s)[i].kind \in kinds
    BY <1>1, <1>6 DEF WindowAnyOf
  <2>2. i + 1 \in 1..Len(s) /\ s[i + 1].kind \in kinds /\ 1 \in 1..Len(s) /\ s[1].kind \in kinds
    BY <1>1, <1>6, <2>1
  <2>3. i + 1 = 1
    BY <1>6, <2>2 DEF WindowOnlyOne
  <2> QED
    BY <2>3
<1> QED
  BY <1>2, <1>3, <1>4, <1>5, <1>6

LEMMA WindowCommandsAppended ==
    ASSUME NEW rs \in Seq(WindowRequests), NEW r \in WindowRequests, NEW id, NEW d,
           NEW kinds, "Attach" \notin kinds
    PROVE  /\ WindowBoundFirst(rs, kinds) /\ (~WindowBound(r, kinds) \/ ~WindowAnyOf(rs, {"Attach"})) =>
                WindowBoundFirst(Append(rs, r), kinds)
           /\ WindowMeantFor(rs, id) /\ (WindowHook(r) => id \in {0, r.meant}) =>
                WindowMeantFor(Append(rs, r), id)
           /\ WindowSought(rs, d) /\ r.kind # "FindHook" => WindowSought(Append(rs, r), d)
<1>1. /\ Len(rs) \in Nat /\ Len(Append(rs, r)) = Len(rs) + 1 /\ Append(rs, r)[Len(rs) + 1] = r
      /\ \A i \in 1..Len(rs) : Append(rs, r)[i] = rs[i]
  BY WindowQueues
<1>2. 1..(Len(rs) + 1) = 1..Len(rs) \cup {Len(rs) + 1}
  BY <1>1
<1>3. ASSUME WindowBoundFirst(rs, kinds), ~WindowBound(r, kinds) \/ ~WindowAnyOf(rs, {"Attach"})
      PROVE  WindowBoundFirst(Append(rs, r), kinds)
  <2> SUFFICES ASSUME NEW i \in 1..(Len(rs) + 1), NEW j \in 1..(Len(rs) + 1),
                      WindowBound(Append(rs, r)[i], kinds), Append(rs, r)[j].kind = "Attach"
               PROVE  i < j
    BY <1>1 DEF WindowBoundFirst
  <2>1. CASE i \in 1..Len(rs) /\ j \in 1..Len(rs)
    BY <1>1, <1>3, <2>1 DEF WindowBoundFirst
  <2>2. CASE i \in 1..Len(rs) /\ j = Len(rs) + 1
    BY <1>1, <2>2
  <2>3. CASE i = Len(rs) + 1 /\ j \in 1..Len(rs)
    BY <1>1, <1>3, <2>3 DEF WindowAnyOf
  <2>4. CASE i = Len(rs) + 1 /\ j = Len(rs) + 1
    BY <1>1, <2>4 DEF WindowBound, WindowHook
  <2> QED
    BY <1>2, <2>1, <2>2, <2>3, <2>4
<1>4. WindowMeantFor(rs, id) /\ (WindowHook(r) => id \in {0, r.meant}) => WindowMeantFor(Append(rs, r), id)
  BY <1>1, <1>2 DEF WindowMeantFor
<1>5. WindowSought(rs, d) /\ r.kind # "FindHook" => WindowSought(Append(rs, r), d)
  BY <1>1, <1>2 DEF WindowSought
<1> QED
  BY <1>3, <1>4, <1>5

LEMMA WindowCommandsTaken ==
    ASSUME NEW rs \in Seq(WindowRequests), rs # << >>, NEW id, NEW d, NEW kinds
    PROVE  /\ WindowBoundFirst(rs, kinds) =>
                /\ WindowBoundFirst(Tail(rs), kinds)
                /\ Head(rs).kind = "Attach" => WindowNoneBound(Tail(rs), kinds)
           /\ WindowMeantFor(rs, id) =>
                WindowMeantFor(Tail(rs), id) /\ (WindowHook(Head(rs)) => id \in {0, Head(rs).meant})
           /\ WindowSought(rs, d) =>
                /\ WindowSought(Tail(rs), d)
                /\ Head(rs).kind = "FindHook" =>
                     /\ d.open /\ d.inFlight = Head(rs).search
                     /\ d.generation = Head(rs).generation
<1>1. /\ Len(rs) \in Nat \ {0} /\ Len(Tail(rs)) = Len(rs) - 1 /\ Head(rs) = rs[1]
      /\ \A i \in 1..(Len(rs) - 1) : Tail(rs)[i] = rs[i + 1] /\ i + 1 \in 1..Len(rs)
  BY WindowQueues DEF WindowIds
<1>2. ASSUME WindowBoundFirst(rs, kinds) PROVE WindowBoundFirst(Tail(rs), kinds)
  <2> SUFFICES ASSUME NEW i \in 1..(Len(rs) - 1), NEW j \in 1..(Len(rs) - 1),
                      WindowBound(Tail(rs)[i], kinds), Tail(rs)[j].kind = "Attach"
               PROVE  i < j
    BY <1>1 DEF WindowBoundFirst
  <2>1. i + 1 < j + 1
    BY <1>1, <1>2 DEF WindowBoundFirst
  <2> QED
    BY <2>1
<1>3. ASSUME WindowBoundFirst(rs, kinds), Head(rs).kind = "Attach",
             NEW i \in 1..(Len(rs) - 1), WindowBound(Tail(rs)[i], kinds)
      PROVE  FALSE
  <2>1. i + 1 < 1
    BY <1>1, <1>3 DEF WindowBoundFirst
  <2> QED
    BY <2>1
<1>4. WindowMeantFor(rs, id) =>
        WindowMeantFor(Tail(rs), id) /\ (WindowHook(Head(rs)) => id \in {0, Head(rs).meant})
  BY <1>1 DEF WindowMeantFor
<1>5. WindowSought(rs, d) =>
        /\ WindowSought(Tail(rs), d)
        /\ Head(rs).kind = "FindHook" =>
             d.open /\ d.inFlight = Head(rs).search /\ d.generation = Head(rs).generation
  BY <1>1 DEF WindowSought
<1> QED
  BY <1>1, <1>2, <1>3, <1>4, <1>5 DEF WindowNoneBound

LEMMA WindowEventsAppended ==
    ASSUME NEW ev \in Seq(WindowEvents), NEW e \in WindowEvents, NEW id, NEW d
    PROVE  /\ WindowLast(ev, id) /\ e.kind # "Attached" => WindowLast(Append(ev, e), id)
           /\ WindowThenAttached(ev) /\ e.kind \notin WindowBreaks => WindowThenAttached(Append(ev, e))
           /\ e.kind = "Attached" =>
                WindowLast(Append(ev, e), e.session) /\ WindowThenAttached(Append(ev, e))
           /\ /\ WindowFound(ev, d)
              /\ \/ e.kind # "FoundHook"
                 \/ /\ ~WindowAnyOf(ev, WindowBreaks)
                    /\ d.open /\ d.inFlight = e.search /\ d.generation = e.generation
              => WindowFound(Append(ev, e), d)
<1>1. /\ Len(ev) \in Nat /\ Len(Append(ev, e)) = Len(ev) + 1 /\ Append(ev, e)[Len(ev) + 1] = e
      /\ \A i \in 1..Len(ev) : Append(ev, e)[i] = ev[i]
  BY WindowQueues
<1>2. 1..(Len(ev) + 1) = 1..Len(ev) \cup {Len(ev) + 1}
  BY <1>1
<1>3. ASSUME WindowLast(ev, id), e.kind # "Attached" PROVE WindowLast(Append(ev, e), id)
  BY <1>1, <1>2, <1>3 DEF WindowLast
<1>4. WindowThenAttached(ev) /\ e.kind \notin WindowBreaks => WindowThenAttached(Append(ev, e))
  BY <1>1, <1>2 DEF WindowThenAttached, WindowBreaks
<1>5. ASSUME e.kind = "Attached" PROVE WindowLast(Append(ev, e), e.session)
  <2> SUFFICES ASSUME NEW i \in 1..(Len(ev) + 1),
                      \A j \in 1..(Len(ev) + 1) : j > i => Append(ev, e)[j].kind # "Attached"
               PROVE  Append(ev, e)[i].session = e.session
    BY <1>1 DEF WindowLast
  <2>1. i = Len(ev) + 1
    BY <1>1, <1>5
  <2> QED
    BY <1>1, <2>1
<1>6. e.kind = "Attached" => WindowThenAttached(Append(ev, e))
  BY <1>1, <1>2 DEF WindowThenAttached
<1>7. ASSUME WindowFound(ev, d), e.kind # "FoundHook" PROVE WindowFound(Append(ev, e), d)
  BY <1>1, <1>2, <1>7 DEF WindowFound
<1>8. ASSUME WindowFound(ev, d), ~WindowAnyOf(ev, WindowBreaks), e.kind = "FoundHook",
             d.open, d.inFlight = e.search, d.generation = e.generation
      PROVE  WindowFound(Append(ev, e), d)
  BY <1>1, <1>2, <1>8 DEF WindowFound, WindowAnyOf, WindowBreaks
<1> QED
  BY <1>3, <1>4, <1>5, <1>6, <1>7, <1>8

LEMMA WindowEventsTaken ==
    ASSUME NEW ev \in Seq(WindowEvents), ev # << >>, NEW id, NEW d
    PROVE  /\ WindowLast(ev, id) =>
                /\ WindowLast(Tail(ev), id)
                /\ Head(ev).kind = "Attached" /\ ~WindowAnyOf(Tail(ev), {"Attached"}) =>
                     Head(ev).session = id
           /\ WindowThenAttached(ev) =>
                /\ WindowThenAttached(Tail(ev))
                /\ Head(ev).kind \in {"AttachFailed", "Detached"} => WindowAnyOf(Tail(ev), {"Attached"})
           /\ WindowFound(ev, d) =>
                /\ WindowFound(Tail(ev), d)
                /\ Head(ev).kind \in WindowBreaks => ~WindowAnyOf(Tail(ev), {"FoundHook"})
                /\ Head(ev).kind = "FoundHook" =>
                     /\ d.open /\ d.inFlight = Head(ev).search
                     /\ d.generation = Head(ev).generation
<1>1. /\ Len(ev) \in Nat \ {0} /\ Len(Tail(ev)) = Len(ev) - 1 /\ Head(ev) = ev[1]
      /\ \A i \in 1..(Len(ev) - 1) : Tail(ev)[i] = ev[i + 1] /\ i + 1 \in 1..Len(ev)
      /\ \A i \in 2..Len(ev) : i - 1 \in 1..(Len(ev) - 1) /\ Tail(ev)[i - 1] = ev[i]
  <2>1. /\ Len(ev) \in Nat \ {0} /\ Len(Tail(ev)) = Len(ev) - 1 /\ Head(ev) = ev[1]
        /\ \A i \in 1..(Len(ev) - 1) : Tail(ev)[i] = ev[i + 1] /\ i + 1 \in 1..Len(ev)
    BY WindowQueues DEF WindowIds
  <2>2. ASSUME NEW i \in 2..Len(ev) PROVE i - 1 \in 1..(Len(ev) - 1) /\ Tail(ev)[i - 1] = ev[i]
    <3>1. i - 1 \in 1..(Len(ev) - 1) /\ (i - 1) + 1 = i
      BY <2>1
    <3> QED
      BY <2>1, <3>1
  <2> QED
    BY <2>1, <2>2
<1>2. ASSUME WindowLast(ev, id)
      PROVE  /\ WindowLast(Tail(ev), id)
             /\ Head(ev).kind = "Attached" /\ ~WindowAnyOf(Tail(ev), {"Attached"}) =>
                  Head(ev).session = id
  <2>1. ASSUME NEW i \in 1..(Len(ev) - 1), Tail(ev)[i].kind = "Attached",
               \A j \in 1..(Len(ev) - 1) : j > i => Tail(ev)[j].kind # "Attached"
        PROVE  Tail(ev)[i].session = id
    <3>1. i + 1 \in 1..Len(ev) /\ ev[i + 1] = Tail(ev)[i]
      BY <1>1
    <3>2. ASSUME NEW j \in 1..Len(ev), j > i + 1 PROVE ev[j].kind # "Attached"
      <4>1. j \in 2..Len(ev) /\ j - 1 > i /\ j - 1 \in 1..(Len(ev) - 1) /\ Tail(ev)[j - 1] = ev[j]
        BY <1>1, <3>2
      <4> QED
        BY <2>1, <4>1
    <3> QED
      BY <1>2, <2>1, <3>1, <3>2 DEF WindowLast
  <2>2. ASSUME Head(ev).kind = "Attached", ~WindowAnyOf(Tail(ev), {"Attached"}) PROVE Head(ev).session = id
    <3>1. ASSUME NEW j \in 1..Len(ev), j > 1 PROVE ev[j].kind # "Attached"
      <4>1. j \in 2..Len(ev) /\ j - 1 \in 1..(Len(ev) - 1) /\ Tail(ev)[j - 1] = ev[j]
        BY <1>1, <3>1
      <4> QED
        BY <1>1, <2>2, <4>1 DEF WindowAnyOf
    <3> QED
      BY <1>1, <1>2, <2>2, <3>1 DEF WindowLast
  <2>3. WindowLast(Tail(ev), id)
    BY <1>1, <2>1 DEF WindowLast
  <2> QED
    BY <2>2, <2>3
<1>3. ASSUME WindowThenAttached(ev)
      PROVE  /\ WindowThenAttached(Tail(ev))
             /\ Head(ev).kind \in {"AttachFailed", "Detached"} => WindowAnyOf(Tail(ev), {"Attached"})
  <2>1. ASSUME NEW i \in 1..(Len(ev) - 1), Tail(ev)[i].kind \in {"AttachFailed", "Detached"}
        PROVE  \E j \in 1..(Len(ev) - 1) : j > i /\ Tail(ev)[j].kind = "Attached"
    <3>1. i + 1 \in 1..Len(ev) /\ ev[i + 1].kind \in {"AttachFailed", "Detached"}
      BY <1>1, <2>1
    <3>2. PICK j \in 1..Len(ev) : j > i + 1 /\ ev[j].kind = "Attached"
      BY <1>3, <3>1 DEF WindowThenAttached
    <3>3. j \in 2..Len(ev) /\ j - 1 > i
      BY <3>2
    <3> QED
      BY <1>1, <3>2, <3>3
  <2>2. ASSUME Head(ev).kind \in {"AttachFailed", "Detached"}
        PROVE  \E j \in 1..(Len(ev) - 1) : Tail(ev)[j].kind = "Attached"
    <3>1. PICK j \in 1..Len(ev) : j > 1 /\ ev[j].kind = "Attached"
      BY <1>1, <1>3, <2>2 DEF WindowThenAttached
    <3>2. j \in 2..Len(ev)
      BY <3>1
    <3> QED
      BY <1>1, <3>1, <3>2
  <2> QED
    BY <1>1, <2>1, <2>2 DEF WindowThenAttached, WindowAnyOf
<1>4. ASSUME WindowFound(ev, d) PROVE WindowFound(Tail(ev), d)
  <2> SUFFICES ASSUME NEW i \in 1..(Len(ev) - 1), Tail(ev)[i].kind = "FoundHook"
               PROVE  /\ d.open /\ d.inFlight = Tail(ev)[i].search
                      /\ d.generation = Tail(ev)[i].generation
                      /\ \A j \in 1..i : Tail(ev)[j].kind \notin WindowBreaks
    BY <1>1 DEF WindowFound
  <2>1. /\ d.open /\ d.inFlight = ev[i + 1].search /\ d.generation = ev[i + 1].generation
        /\ \A j \in 1..(i + 1) : ev[j].kind \notin WindowBreaks
    BY <1>1, <1>4 DEF WindowFound
  <2>2. ASSUME NEW j \in 1..i PROVE Tail(ev)[j].kind \notin WindowBreaks
    <3>1. j \in 1..(Len(ev) - 1) /\ j + 1 \in 1..(i + 1)
      BY <1>1
    <3> QED
      BY <1>1, <2>1, <3>1
  <2> QED
    BY <1>1, <2>1, <2>2
<1>5. ASSUME WindowFound(ev, d), Head(ev).kind \in WindowBreaks, WindowAnyOf(Tail(ev), {"FoundHook"}) PROVE FALSE
  <2>1. PICK i \in 1..(Len(ev) - 1) : Tail(ev)[i].kind = "FoundHook"
    BY <1>1, <1>5 DEF WindowAnyOf
  <2>2. \A j \in 1..(i + 1) : ev[j].kind \notin WindowBreaks
    BY <1>1, <1>5, <2>1 DEF WindowFound
  <2>3. 1 \in 1..(i + 1)
    BY <1>1
  <2> QED
    BY <1>1, <1>5, <2>2, <2>3
<1>6. ASSUME WindowFound(ev, d), Head(ev).kind = "FoundHook"
      PROVE  d.open /\ d.inFlight = Head(ev).search /\ d.generation = Head(ev).generation
  BY <1>1, <1>6 DEF WindowFound
<1> QED
  BY <1>2, <1>3, <1>4, <1>5, <1>6

\* What is said of kinds that a queue does not hold.
LEMMA WindowNoneOf ==
    ASSUME NEW s, NEW id, NEW d
    PROVE  /\ \A ks, ls : WindowAnyOf(s, ks) /\ ks \subseteq ls => WindowAnyOf(s, ls)
           /\ \A ks : WindowNoneBound(s, ks) =>
                WindowMeantFor(s, id) /\ WindowBoundFirst(s, ks) /\ ~WindowAnyOf(s, ks)
           /\ WindowMeantFor(s, 0)
           /\ ~WindowAnyOf(s, {"FindHook"}) => WindowSought(s, d)
           /\ ~WindowAnyOf(s, {"FoundHook"}) => WindowFound(s, d)
           /\ ~WindowAnyOf(s, {"Attached"}) /\ WindowThenAttached(s) => ~WindowAnyOf(s, WindowBreaks)
           /\ ~WindowAnyOf(s, WindowBreaks) => ~WindowAnyOf(s, WindowConnects) /\ ~WindowAnyOf(s, {"Attached"})
           /\ ~WindowAnyOf(s, WindowConnects) => ~WindowAnyOf(s, {"Attached"})
<1>1. \A ks, ls : WindowAnyOf(s, ks) /\ ks \subseteq ls => WindowAnyOf(s, ls)
  BY DEF WindowAnyOf
<1>2. \A ks : WindowNoneBound(s, ks) =>
        WindowMeantFor(s, id) /\ WindowBoundFirst(s, ks) /\ ~WindowAnyOf(s, ks)
  BY DEF WindowAnyOf, WindowNoneBound, WindowBound, WindowMeantFor, WindowBoundFirst
<1>3. WindowMeantFor(s, 0) /\ (~WindowAnyOf(s, {"FindHook"}) => WindowSought(s, d))
  BY DEF WindowMeantFor, WindowSought, WindowAnyOf
<1>4. ~WindowAnyOf(s, {"FoundHook"}) => WindowFound(s, d)
  BY DEF WindowFound, WindowAnyOf
<1>5. ~WindowAnyOf(s, {"Attached"}) /\ WindowThenAttached(s) => ~WindowAnyOf(s, WindowBreaks)
  BY DEF WindowThenAttached, WindowAnyOf, WindowBreaks
<1>6. /\ ~WindowAnyOf(s, WindowBreaks) => ~WindowAnyOf(s, WindowConnects) /\ ~WindowAnyOf(s, {"Attached"})
      /\ ~WindowAnyOf(s, WindowConnects) => ~WindowAnyOf(s, {"Attached"})
  BY DEF WindowAnyOf, WindowBreaks, WindowConnects
<1> QED
  BY <1>1, <1>2, <1>3, <1>4, <1>5, <1>6

\* A connection is under way if it is asked for, or its answer is not handled.
LEMMA WindowUnderWay ==
    ASSUME WindowTypes, NEW ev \in Seq(WindowEvents)
    PROVE  HFind!Connecting(ev) <=> WindowAnyOf(asks, {"Attach"}) \/ WindowAnyOf(ev, WindowConnects)
<1>1. DOMAIN asks = 1..Len(asks) /\ DOMAIN ev = 1..Len(ev)
  BY DEF WindowTypes
<1> QED
  BY <1>1 DEF HFind!Connecting, WindowAnyOf, WindowConnects

\* One more hook among the requests: if it is meant for a session, no connection is asked for.
LEMMA WindowHookAppended ==
    ASSUME NEW rs \in Seq(WindowRequests), NEW r \in WindowRequests, r.kind \in {"NewHook", "RemoveHook"},
           NEW id, NEW kinds, kinds \subseteq {"FindHook"},
           WindowHook(r) => ~WindowAnyOf(rs, {"Attach"}) /\ id \in {0, r.meant},
           WindowBoundFirst(rs, kinds), WindowMeantFor(rs, id)
    PROVE  /\ Append(rs, r) \in Seq(WindowRequests)
           /\ WindowBoundFirst(Append(rs, r), kinds) /\ WindowMeantFor(Append(rs, r), id)
           /\ WindowAnyOf(Append(rs, r), {"Attach"}) <=> WindowAnyOf(rs, {"Attach"})
           /\ WindowAnyOf(Append(rs, r), {"FindHook"}) <=> WindowAnyOf(rs, {"FindHook"})
           /\ WindowOnlyOne(rs, {"Attach"}) => WindowOnlyOne(Append(rs, r), {"Attach"})
           /\ \A d : WindowSought(rs, d) => WindowSought(Append(rs, r), d)
<1>1. WindowBound(r, kinds) => WindowHook(r)
  BY DEF WindowBound
<1>2. "Attach" \notin kinds /\ r.kind # "FindHook" /\ r.kind \notin {"Attach"} /\ r.kind \notin {"FindHook"}
  OBVIOUS
<1>3. WindowBoundFirst(Append(rs, r), kinds) /\ WindowMeantFor(Append(rs, r), id)
  BY <1>1, <1>2, WindowCommandsAppended
<1>4. \A d : WindowSought(rs, d) => WindowSought(Append(rs, r), d)
  BY <1>2, WindowCommandsAppended
<1>5. /\ WindowAnyOf(Append(rs, r), {"Attach"}) <=> WindowAnyOf(rs, {"Attach"})
      /\ WindowAnyOf(Append(rs, r), {"FindHook"}) <=> WindowAnyOf(rs, {"FindHook"})
      /\ WindowOnlyOne(rs, {"Attach"}) => WindowOnlyOne(Append(rs, r), {"Attach"})
  BY <1>2, WindowKindsAppended
<1> QED
  BY <1>3, <1>4, <1>5, WindowQueues

\* A request that the window means for a session is for the one the worker has.
LEMMA WindowMeansIt ==
    ASSUME WindowTypes, WindowBelongs, dialog.open, HFind!Meant # 0
    PROVE  ~WindowAnyOf(asks, {"Attach"}) /\ game.id \in {0, HFind!Meant}
<1>1. ~HFind!Connecting(found) /\ ~history.missed /\ HFind!Meant = dialog.label
  BY WindowMeant
<1>2. ~WindowAnyOf(asks, {"Attach"}) /\ ~WindowAnyOf(found, WindowConnects)
  BY <1>1, WindowUnderWay DEF WindowTypes
<1>3. ~WindowAnyOf(found, {"Attached"})
  BY <1>2, WindowNoneOf
<1> QED
  BY <1>1, <1>2, <1>3 DEF WindowBelongs, WindowKnows

\* What an exchange of hooks leaves of the requests.
LEMMA WindowReplaced ==
    ASSUME WindowTypes, WindowBelongs, dialog.open, NEW kinds, kinds \subseteq {"FindHook"},
           NEW new \in FindAddress \cup {FindSavedHook}, NEW old \in FindAddress \cup {0, FindSavedHook},
           WindowBoundFirst(asks, kinds), asks' = asks \o HFind!Replacement(new, old)
    PROVE  /\ WindowBoundFirst(asks', kinds) /\ WindowMeantFor(asks', game.id)
           /\ WindowAnyOf(asks', {"Attach"}) <=> WindowAnyOf(asks, {"Attach"})
           /\ WindowAnyOf(asks', {"FindHook"}) <=> WindowAnyOf(asks, {"FindHook"})
           /\ WindowOnlyOne(asks, {"Attach"}) => WindowOnlyOne(asks', {"Attach"})
           /\ \A d : WindowSought(asks, d) => WindowSought(asks', d)
<1> DEFINE first == [kind |-> "NewHook", address |-> new, meant |-> HFind!Meant]
           second == [kind |-> "RemoveHook", address |-> old, meant |-> HFind!Meant]
           one == Append(asks, first)
           two == Append(one, second)
<1>0. asks \in Seq(WindowRequests) /\ HFind!Meant \in Nat
  BY WindowMeant DEF WindowTypes
<1>1. /\ first \in WindowRequests /\ first.kind = "NewHook" /\ first.meant = HFind!Meant
      /\ second.kind = "RemoveHook" /\ second.meant = HFind!Meant
      /\ old \notin {0, new} => second \in WindowRequests
  BY <1>0, WindowMade
<1>2. asks' = one \/ (old \notin {0, new} /\ asks' = two)
  <2>1. CASE old \in {0, new}
    <3>1. asks' = one
      BY <1>0, <1>1, <2>1 DEF HFind!Replacement
    <3> QED
      BY <3>1
  <2>2. CASE old \notin {0, new}
    <3>1. second \in WindowRequests
      BY <1>1, <2>2
    <3>2. asks' = two
      BY <1>0, <1>1, <2>2, <3>1 DEF HFind!Replacement
    <3> QED
      BY <2>2, <3>2
  <2> QED
    BY <2>1, <2>2
<1> HIDE DEF first, second
<1>3. /\ WindowHook(first) => ~WindowAnyOf(asks, {"Attach"}) /\ game.id \in {0, first.meant}
      /\ WindowHook(second) => ~WindowAnyOf(asks, {"Attach"}) /\ game.id \in {0, second.meant}
  BY <1>1, WindowMeansIt DEF WindowHook
<1>4. WindowMeantFor(asks, game.id)
  BY DEF WindowBelongs
<1>5. /\ one \in Seq(WindowRequests)
      /\ WindowBoundFirst(one, kinds) /\ WindowMeantFor(one, game.id)
      /\ WindowAnyOf(one, {"Attach"}) <=> WindowAnyOf(asks, {"Attach"})
      /\ WindowAnyOf(one, {"FindHook"}) <=> WindowAnyOf(asks, {"FindHook"})
      /\ WindowOnlyOne(asks, {"Attach"}) => WindowOnlyOne(one, {"Attach"})
      /\ \A d : WindowSought(asks, d) => WindowSought(one, d)
  BY <1>0, <1>1, <1>3, <1>4, WindowHookAppended
<1> HIDE DEF one
<1>6. ASSUME old \notin {0, new}
      PROVE  /\ WindowBoundFirst(two, kinds) /\ WindowMeantFor(two, game.id)
             /\ WindowAnyOf(two, {"Attach"}) <=> WindowAnyOf(one, {"Attach"})
             /\ WindowAnyOf(two, {"FindHook"}) <=> WindowAnyOf(one, {"FindHook"})
             /\ WindowOnlyOne(one, {"Attach"}) => WindowOnlyOne(two, {"Attach"})
             /\ \A d : WindowSought(one, d) => WindowSought(two, d)
  <2>1. second \in WindowRequests /\ second.kind \in {"NewHook", "RemoveHook"}
    BY <1>1, <1>6
  <2>2. WindowHook(second) => ~WindowAnyOf(one, {"Attach"}) /\ game.id \in {0, second.meant}
    BY <1>3, <1>5
  <2> QED
    BY <1>5, <2>1, <2>2, WindowHookAppended
<1> HIDE DEF two
<1> QED
  BY <1>2, <1>5, <1>6

\* The end of one session and the beginning of the next, in the window or past it.
LEMMA WindowReset ==
    ASSUME WindowTypes, NEW next \in Nat, HFind!ResetSession(next)
    PROVE  /\ hookSession' = next /\ pending' = {} /\ history'.strayed = history.strayed
           /\ history'.missed = HFind!Lent /\ dialog'.open = dialog.open
           /\ ~HFind!Reachable => dialog' = dialog
           /\ HFind!Reachable =>
                /\ dialog'.inFlight = 0 /\ dialog'.candidates = {} /\ ~dialog'.waiting
                /\ dialog'.label = next /\ ~dialog'.lent
<1>1. history \in WindowHistories
  BY DEF WindowTypes
<1>2. CASE HFind!Reachable
  <2>1. dialog \in WindowOpenDialogs /\ HFind!Cleared(dialog) \in WindowOpenDialogs /\ ~dialog.lent
    BY <1>2, WindowOpenTyped DEF HFind!Reachable
  <2>2. /\ HFind!Cleared(dialog).inFlight = 0 /\ HFind!Cleared(dialog).candidates = {}
        /\ HFind!Cleared(dialog).open = dialog.open /\ ~HFind!Cleared(dialog).lent
    BY <2>1 DEF HFind!Cleared, WindowOpenDialogs
  <2>3. dialog' = [HFind!Cleared(dialog) EXCEPT !.waiting = FALSE, !.offered = FALSE, !.label = next]
    BY <1>2 DEF HFind!ResetSession
  <2>4. /\ dialog'.inFlight = 0 /\ dialog'.candidates = {} /\ ~dialog'.waiting
        /\ dialog'.label = next /\ ~dialog'.lent /\ dialog'.open = dialog.open
    BY <2>1, <2>2, <2>3 DEF WindowOpenDialogs
  <2> QED
    BY <1>1, <1>2, <2>4 DEF HFind!ResetSession, WindowHistories
<1>3. CASE ~HFind!Reachable
  BY <1>1, <1>3 DEF HFind!ResetSession, WindowHistories
<1> QED
  BY <1>2, <1>3

\* The hook of the saved profile, asked for when the session begins.
LEMMA WindowProfileHook ==
    ASSUME WindowTypes, WindowBelongs, found # << >>, HFind!HandleAttached(Head(found))
    PROVE  /\ Head(found).session \in WindowIds /\ Head(found).kind = "Attached"
           /\ \/ asks' = asks
              \/ \E r \in WindowRequests :
                   /\ asks' = Append(asks, r) /\ r.kind = "NewHook"
                   /\ WindowHook(r) => ~WindowAnyOf(asks, {"Attach"}) /\ game.id \in {0, r.meant}
<1> DEFINE e == Head(found)
           m == IF HFind!Connecting(Tail(found)) THEN 0 ELSE e.session
           r == [kind |-> "NewHook", address |-> FindSavedHook, meant |-> m]
<1>0. /\ found \in Seq(WindowEvents) /\ e \in WindowEvents /\ Tail(found) \in Seq(WindowEvents)
      /\ asks \in Seq(WindowRequests)
  BY WindowQueues DEF WindowTypes
<1>1. e.session \in WindowIds /\ e.kind = "Attached"
  BY <1>0, WindowCarried DEF HFind!HandleAttached
<1>2. r \in WindowRequests
  <2>1. m \in Nat
    BY <1>1 DEF WindowIds
  <2> HIDE DEF m
  <2> QED
    BY <2>1, WindowMade
<1>3. m # 0 => ~WindowAnyOf(asks, {"Attach"}) /\ game.id \in {0, m}
  <2> SUFFICES ASSUME m # 0 PROVE ~WindowAnyOf(asks, {"Attach"}) /\ game.id \in {0, m}
    OBVIOUS
  <2>1. ~HFind!Connecting(Tail(found)) /\ m = e.session
    OBVIOUS
  <2>2. ~WindowAnyOf(asks, {"Attach"}) /\ ~WindowAnyOf(Tail(found), WindowConnects)
    BY <1>0, <2>1, WindowUnderWay
  <2>3. ~WindowAnyOf(Tail(found), {"Attached"})
    BY <2>2, WindowNoneOf
  <2>4. game.id # 0 => WindowLast(found, game.id)
    BY DEF WindowBelongs
  <2>5. game.id # 0 => e.session = game.id
    BY <1>0, <1>1, <2>3, <2>4, WindowEventsTaken
  <2> QED
    BY <2>1, <2>2, <2>5
<1>4. asks' = asks \/ asks' = asks \o <<r>>
  BY DEF HFind!HandleAttached, HFind!Ask
<1>5. r.kind = "NewHook" /\ r.meant = m
  OBVIOUS
<1> HIDE DEF r, m
<1>6. asks \o <<r>> = Append(asks, r)
  BY <1>0, <1>2
<1> QED
  BY <1>1, <1>2, <1>3, <1>4, <1>5, <1>6 DEF WindowHook

\* A step that leaves the requests, the session and the events as they are.
LEMMA WindowBelongsKept ==
    ASSUME WindowBelongs, found' = found, game'.id = game.id, ~history'.strayed,
           history.missed => history'.missed,
           WindowBoundFirst(asks', {}), WindowMeantFor(asks', game.id),
           hookSession' \in {0, hookSession},
           dialog'.open => \/ dialog'.label = hookSession'
                           \/ dialog.open /\ dialog'.label = dialog.label
    PROVE  WindowBelongs'
BY DEF WindowBelongs, WindowKnows

\* One more event of the session.
LEMMA WindowBelongsTold ==
    ASSUME WindowTypes, WindowBelongs, NEW e \in WindowEvents, e.kind # "Attached",
           found' = Append(found, e), game'.id \in {0, game.id},
           UNCHANGED <<hookSession, dialog>>, history'.strayed = history.strayed,
           history'.missed = history.missed,
           WindowBoundFirst(asks', {}), WindowMeantFor(asks', game.id)
    PROVE  WindowBelongs'
<1>1. game.id # 0 => WindowLast(found', game.id)
  BY WindowEventsAppended DEF WindowBelongs, WindowTypes
<1>2. WindowAnyOf(found', {"Attached"}) <=> WindowAnyOf(found, {"Attached"})
  BY WindowKindsAppended DEF WindowTypes
<1>3. WindowMeantFor(asks', 0)
  BY WindowNoneOf
<1> QED
  BY <1>1, <1>2, <1>3 DEF WindowBelongs, WindowKnows

LEMMA WindowBelongsBackend == ASSUME WindowTypes, WindowBelongs, HFind!Backend PROVE WindowBelongs'
<1>0. /\ found \in Seq(WindowEvents) /\ game \in WindowSessions /\ history \in WindowHistories
      /\ game.id \in Nat /\ asks \in Seq(WindowRequests)
      /\ WindowBoundFirst(asks, {}) /\ WindowMeantFor(asks, game.id) /\ ~history.strayed
  BY WindowNumbers DEF WindowTypes, WindowBelongs
<1>1. UNCHANGED <<hookSession, dialog>> /\ history'.missed = history.missed
  <2>1. UNCHANGED <<hookSession, dialog>>
    BY DEF HFind!Backend, HFind!WorkerAttach, HFind!WorkerDetach, HFind!WorkerHook,
           HFind!WorkerFindHook, HFind!GameExits, HFind!SearchEnds, HFind!GameFinds,
           HFind!GamePrints, HFind!uiVars
  <2>2. \/ history' = history
        \/ history' = [history EXCEPT !.hooked = FALSE]
        \/ \E a, b : history' = [history EXCEPT !.strayed = a, !.hooked = b]
    BY DEF HFind!Backend, HFind!WorkerAttach, HFind!WorkerDetach, HFind!WorkerHook,
           HFind!WorkerFindHook, HFind!GameExits, HFind!SearchEnds, HFind!GameFinds,
           HFind!GamePrints, HFind!uiVars
  <2> QED
    BY <1>0, <2>1, <2>2 DEF WindowHistories
<1>2. ASSUME asks' = asks \/ (asks # << >> /\ asks' = Tail(asks))
      PROVE  WindowBoundFirst(asks', {}) /\ WindowMeantFor(asks', game.id)
  BY <1>0, <1>2, WindowCommandsTaken
<1>3. CASE HFind!WorkerAttach
  <2> DEFINE id == game.count + 1
             first == [kind |-> "Attached", session |-> id]
             old == IF game.id = 0 THEN << >> ELSE <<HFind!Ended>>
  <2>1. id \in WindowIds
    <3>1. game.count \in Nat
      BY WindowNumbers
    <3> QED
      BY <3>1 DEF WindowIds
  <2>2. /\ first \in WindowEvents /\ first.kind = "Attached" /\ first.session = id
        /\ found \o old \in Seq(WindowEvents)
    BY <1>0, <2>1, WindowMade
  <2>3. /\ asks # << >> /\ asks' = Tail(asks) /\ Head(asks).kind = "Attach"
        /\ history'.strayed = history.strayed
        /\ game'.id = 0 \/ (game'.id = id /\ found' = found \o old \o <<first>>)
    <3>1. \/ game' = [id |-> id, generation |-> 0, hooks |-> {}, count |-> id]
             /\ found' = found \o old \o <<first>>
          \/ game' = [game EXCEPT !.id = 0, !.count = id]
      BY <1>3 DEF HFind!WorkerAttach
    <3>2. /\ [id |-> id, generation |-> 0, hooks |-> {}, count |-> id].id = id
          /\ [game EXCEPT !.id = 0, !.count = id].id = 0
      BY <1>0 DEF WindowSessions
    <3>3. asks # << >> /\ asks' = Tail(asks) /\ Head(asks).kind = "Attach"
      BY <1>3 DEF HFind!WorkerAttach, HFind!Take
    <3>4. history'.strayed = history.strayed
      BY <1>0, <1>3 DEF HFind!WorkerAttach, WindowHistories
    <3> QED
      BY <3>1, <3>2, <3>3, <3>4
  <2> HIDE DEF id, first, old
  <2>4. WindowNoneBound(asks', {})
    BY <1>0, <2>3, WindowCommandsTaken
  <2>5. WindowMeantFor(asks', game'.id) /\ WindowBoundFirst(asks', {})
    BY <2>4, WindowNoneOf
  <2>6. game'.id # 0 => WindowLast(found', game'.id) /\ WindowAnyOf(found', {"Attached"})
    <3> SUFFICES ASSUME game'.id # 0
                 PROVE  WindowLast(found', game'.id) /\ WindowAnyOf(found', {"Attached"})
      OBVIOUS
    <3>1. found' = Append(found \o old, first) /\ game'.id = first.session
      BY <2>2, <2>3
    <3> QED
      BY <2>2, <3>1, WindowEventsAppended, WindowKindsAppended
  <2> QED
    BY <1>0, <2>3, <2>5, <2>6 DEF WindowBelongs
<1>4. CASE HFind!WorkerDetach \/ HFind!GameExits
  <2>1. /\ game'.id = 0 /\ history' = history
        /\ found' = found \/ found' = Append(found, HFind!Ended)
        /\ asks' = asks \/ (asks # << >> /\ asks' = Tail(asks))
    BY <1>0, <1>4 DEF HFind!WorkerDetach, HFind!GameExits, HFind!uiVars, HFind!Take, WindowSessions
  <2> QED
    BY <1>0, <1>2, <2>1, WindowNoneOf DEF WindowBelongs
<1>5. CASE HFind!WorkerHook
  <2>1. /\ asks # << >> /\ asks' = Tail(asks) /\ Head(asks).kind \in {"NewHook", "RemoveHook"}
        /\ game'.id = game.id /\ found' = found
    BY <1>0, <1>5 DEF HFind!WorkerHook, HFind!Take, WindowSessions
  <2>2. history'.strayed = (history.strayed \/ (Head(asks).meant # 0
                                                  /\ game.id \notin {0, Head(asks).meant}))
    BY <1>0, <1>5 DEF HFind!WorkerHook, WindowHistories
  <2>3. ~history'.strayed
    BY <1>0, <2>1, <2>2, WindowCommandsTaken DEF WindowHook
  <2> QED
    BY <1>0, <1>1, <1>2, <2>1, <2>3, WindowBelongsKept
<1>6. CASE HFind!WorkerFindHook
  <2>1. asks # << >> /\ asks' = Tail(asks) /\ game'.id = game.id /\ found' = found /\ history' = history
    BY <1>0, <1>6 DEF HFind!WorkerFindHook, HFind!Take, HFind!uiVars, WindowSessions
  <2> QED
    BY <1>0, <1>1, <1>2, <2>1, WindowBelongsKept
<1>7. ASSUME NEW s \in searches, HFind!SearchEnds(s) PROVE WindowBelongs'
  <2>1. asks' = asks /\ game' = game /\ found' = found /\ history' = history
    BY <1>7 DEF HFind!SearchEnds, HFind!uiVars
  <2> QED
    BY <1>0, <1>1, <2>1, WindowBelongsKept
<1>8. ASSUME NEW s \in searches, NEW a \in FindAddress, HFind!GameFinds(s, a) PROVE WindowBelongs'
  <2> DEFINE e == [kind |-> "FoundHook", generation |-> game.generation, search |-> s.id,
                   address |-> a, session |-> game.id]
  <2>1. e \in WindowEvents /\ e.kind # "Attached"
    <3>1. game.id \in WindowIds /\ game.generation \in Nat /\ s.id \in WindowIds
      BY <1>8, WindowNumbers DEF HFind!GameFinds, WindowIds
    <3> QED
      BY <3>1, WindowMade
  <2>2. found' = Append(found, e) /\ asks' = asks /\ game' = game /\ history' = history
    BY <1>8 DEF HFind!GameFinds, HFind!uiVars
  <2> HIDE DEF e
  <2> QED
    BY <1>0, <1>1, <2>1, <2>2, WindowBelongsTold
<1>9. ASSUME NEW t \in FindThread, HFind!GamePrints(t) PROVE WindowBelongs'
  <2> DEFINE e == [kind |-> "Text", thread |-> t, session |-> game.id]
  <2>1. e \in WindowEvents /\ e.kind # "Attached"
    BY <1>9, WindowMade, WindowNumbers DEF HFind!GamePrints
  <2>2. found' = Append(found, e) /\ asks' = asks /\ game' = game /\ history' = history
    BY <1>9 DEF HFind!GamePrints
  <2> HIDE DEF e
  <2> QED
    BY <1>0, <1>1, <2>1, <2>2, WindowBelongsTold
<1> QED
  BY <1>3, <1>4, <1>5, <1>6, <1>7, <1>8, <1>9 DEF HFind!Backend

LEMMA WindowBelongsEvent == ASSUME WindowTypes, WindowBelongs, HFind!HandleEvent PROVE WindowBelongs'
<1> DEFINE e == Head(found)
<1>0. /\ found \in Seq(WindowEvents) /\ asks \in Seq(WindowRequests) /\ history \in WindowHistories
      /\ game.id \in Nat /\ found # << >> /\ e \in WindowEvents /\ found' = Tail(found) /\ game' = game
      /\ WindowBoundFirst(asks, {}) /\ WindowMeantFor(asks, game.id) /\ ~history.strayed
      /\ dialog.open => dialog \in WindowOpenDialogs
  BY WindowQueues, WindowNumbers, WindowOpenTyped DEF WindowTypes, HFind!HandleEvent, WindowBelongs
<1>1. game.id # 0 =>
        /\ WindowLast(found', game.id)
        /\ e.kind = "Attached" /\ ~WindowAnyOf(found', {"Attached"}) => e.session = game.id
        /\ e.kind # "Attached" /\ WindowAnyOf(found, {"Attached"}) => WindowAnyOf(found', {"Attached"})
  BY <1>0, WindowEventsTaken, WindowKindsTaken DEF WindowBelongs
<1>2. ASSUME NEW next \in Nat, HFind!ResetSession(next),
             next = 0 \/ (e.kind = "Attached" /\ next = e.session),
             WindowBoundFirst(asks', {}), WindowMeantFor(asks', game.id)
      PROVE  WindowBelongs'
  <2>1. /\ hookSession' = next /\ history'.strayed = history.strayed /\ history'.missed = HFind!Lent
        /\ dialog'.open = dialog.open
        /\ ~HFind!Reachable => dialog' = dialog
        /\ HFind!Reachable => dialog'.label = next
    BY <1>2, WindowReset
  <2>2. ~history'.missed /\ dialog'.open => dialog'.label = next
    BY <2>1 DEF HFind!Reachable, HFind!Lent
  <2>3. game.id # 0 => WindowAnyOf(found', {"Attached"}) \/ next \in {0, game.id}
    BY <1>1, <1>2
  <2> QED
    BY <1>0, <1>1, <1>2, <2>1, <2>2, <2>3 DEF WindowBelongs, WindowKnows
<1>3. CASE HFind!HandleAttached(e)
  <2>1. e.session \in Nat /\ HFind!ResetSession(e.session) /\ e.kind = "Attached"
    BY <1>0, <1>3, WindowProfileHook DEF HFind!HandleAttached, WindowIds
  <2>2. WindowBoundFirst(asks', {}) /\ WindowMeantFor(asks', game.id)
    <3>1. CASE asks' = asks
      BY <1>0, <3>1
    <3>2. ASSUME NEW r \in WindowRequests, asks' = Append(asks, r), r.kind = "NewHook",
                 WindowHook(r) => ~WindowAnyOf(asks, {"Attach"}) /\ game.id \in {0, r.meant}
          PROVE  WindowBoundFirst(asks', {}) /\ WindowMeantFor(asks', game.id)
      BY <1>0, <3>2, WindowHookAppended
    <3> QED
      BY <1>0, <1>3, <3>1, <3>2, WindowProfileHook
  <2> QED
    BY <1>2, <2>1, <2>2
<1>4. CASE HFind!HandleDetached(e)
  BY <1>0, <1>2, <1>4 DEF HFind!HandleDetached
<1>5. ASSUME e.kind # "Attached", asks' = asks, hookSession' = hookSession,
             history'.strayed = history.strayed, history.missed => history'.missed,
             dialog'.open = dialog.open, dialog.open => dialog'.label = dialog.label
      PROVE  WindowBelongs'
  BY <1>0, <1>1, <1>5 DEF WindowBelongs, WindowKnows
<1>6. CASE HFind!HandleText(e)
  <2>1. /\ e.kind # "Attached" /\ asks' = asks /\ hookSession' = hookSession
        /\ history'.strayed = history.strayed /\ (history.missed => history'.missed)
    BY <1>0, <1>6 DEF HFind!HandleText, WindowHistories
  <2>2. dialog'.open = dialog.open /\ (dialog.open => dialog'.label = dialog.label)
    BY <1>0, <1>6 DEF HFind!HandleText, HFind!Reachable, WindowOpenDialogs
  <2> QED
    BY <1>5, <2>1, <2>2
<1>7. CASE HFind!HandleFound(e)
  <2>1. e.kind # "Attached" /\ asks' = asks /\ hookSession' = hookSession /\ history' = history
    BY <1>7 DEF HFind!HandleFound
  <2>2. dialog'.open = dialog.open /\ (dialog.open => dialog'.label = dialog.label)
    <3>1. CASE HFind!Reachable
      <4>1. PICK all, on : dialog' = [dialog EXCEPT !.candidates = all, !.offered = on]
        BY <1>7, <3>1 DEF HFind!HandleFound, HFind!Drained
      <4> QED
        BY <1>0, <3>1, <4>1 DEF WindowOpenDialogs, HFind!Reachable
    <3>2. CASE ~HFind!Reachable
      BY <1>7, <3>2 DEF HFind!HandleFound
    <3> QED
      BY <3>1, <3>2
  <2> QED
    BY <1>5, <2>1, <2>2
<1> QED
  BY <1>3, <1>4, <1>6, <1>7 DEF HFind!HandleEvent

LEMMA WindowBelongsUser == ASSUME WindowTypes, WindowBelongs, HFind!User PROVE WindowBelongs'
<1>0. /\ asks \in Seq(WindowRequests) /\ WindowBoundFirst(asks, {}) /\ WindowMeantFor(asks, game.id)
      /\ ~history.strayed /\ (dialog.open => dialog \in WindowOpenDialogs)
  BY WindowOpenTyped DEF WindowTypes, WindowBelongs
<1>1. CASE HFind!Open
  <2>1. PICK all, on : dialog' = [HFind!Opened(listed) EXCEPT !.candidates = all, !.offered = on]
    BY <1>1 DEF HFind!Open, HFind!Drained
  <2>2. dialog'.label = hookSession
    BY <2>1 DEF HFind!Opened
  <2> QED
    BY <1>0, <1>1, <2>2, WindowBelongsKept DEF HFind!Open
<1>2. ASSUME HFind!User, ~HFind!Open, WindowBoundFirst(asks', {}), WindowMeantFor(asks', game.id)
      PROVE  WindowBelongs'
  <2>1. /\ UNCHANGED <<found, game, history>> /\ hookSession' \in {0, hookSession}
        /\ dialog'.open => dialog.open /\ dialog'.label = dialog.label
    BY <1>2, WindowLabelKept DEF HFind!User
  <2> QED
    BY <1>0, <1>2, <2>1, WindowBelongsKept
<1>3. CASE HFind!Close \/ HFind!SearchTimePasses \/ HFind!OpenBox \/ HFind!EndBox \/ HFind!SelectStream
  <2>1. asks' = asks
    BY <1>3 DEF HFind!Close, HFind!SearchTimePasses, HFind!OpenBox, HFind!EndBox, HFind!SelectStream
  <2> QED
    BY <1>0, <1>1, <1>2, <2>1
<1>4. CASE HFind!Connect \/ HFind!Detach \/ HFind!StopSession \/ HFind!StartSearch
  <2>1. PICK q \in WindowRequests : asks' = Append(asks, q) /\ q.kind \in {"Attach", "Detach", "FindHook"}
    BY <1>4, WindowPlainRequest
  <2>2. ~WindowHook(q) /\ ~WindowBound(q, {})
    BY <2>1 DEF WindowHook, WindowBound
  <2>3. WindowBoundFirst(Append(asks, q), {}) /\ WindowMeantFor(Append(asks, q), game.id)
    BY <1>0, <2>2, WindowCommandsAppended
  <2> QED
    BY <1>1, <1>2, <2>1, <2>3
<1>5. CASE HFind!InstallCandidate \/ HFind!InstallManual
  <2>1. dialog.open
    BY <1>5 DEF HFind!InstallCandidate, HFind!InstallManual, HFind!Managed, HFind!Usable,
                HFind!Reachable
  <2>2. PICK new \in FindAddress \cup {FindSavedHook}, old \in FindAddress \cup {0, FindSavedHook} :
          asks' = asks \o HFind!Replacement(new, old)
    BY <1>5, WindowExchangeOf
  <2>3. WindowBoundFirst(asks', {}) /\ WindowMeantFor(asks', game.id)
    BY <1>0, <2>1, <2>2, WindowReplaced
  <2> QED
    BY <1>1, <1>2, <2>3
<1> QED
  BY <1>1, <1>3, <1>4, <1>5 DEF HFind!User

\* What keeps the one connection, and the one search.
LEMMA WindowConnectionKept ==
    ASSUME WindowOneConnection, WindowOnlyOne(asks', {"Attach"}), WindowOnlyOne(found', WindowConnects),
           WindowAnyOf(asks', {"Attach"}) => WindowAnyOf(asks, {"Attach"}),
           WindowAnyOf(found', WindowConnects) => WindowAnyOf(found, WindowConnects),
           dialog'.open = dialog.open,
           dialog.open => /\ dialog'.lent = dialog.lent /\ dialog'.label = dialog.label
                          /\ dialog.waiting => dialog'.waiting
    PROVE  WindowOneConnection'
BY DEF WindowOneConnection

LEMMA WindowSearchKept ==
    ASSUME WindowOneSearch, searches' \subseteq searches, pending' \subseteq pending,
           game'.id = game.id, game'.generation = game.generation,
           dialog'.open = dialog.open,
           dialog.open => /\ dialog'.inFlight = dialog.inFlight /\ dialog'.search = dialog.search
                          /\ dialog'.generation = dialog.generation
                          /\ dialog'.candidates = dialog.candidates,
           WindowFound(found', dialog),
           WindowAnyOf(found', WindowBreaks) => WindowAnyOf(found, WindowBreaks),
           WindowSought(asks, dialog) => WindowSought(asks', dialog),
           WindowAnyOf(asks', {"FindHook"}) => WindowAnyOf(asks, {"FindHook"})
    PROVE  WindowOneSearch'
<1>1. WindowFound(found', dialog') /\ (game.id # 0 => WindowSought(asks', dialog'))
  BY DEF WindowOneSearch, WindowFound, WindowSought
<1>2. HFind!NoResultOfEarlierSearch'
  BY DEF WindowOneSearch, HFind!NoResultOfEarlierSearch
<1>3. \A s \in searches' :
        /\ s.session = game'.id /\ dialog'.open /\ dialog'.inFlight = s.id
        /\ game'.generation = dialog'.generation /\ ~WindowAnyOf(found', WindowBreaks)
  BY DEF WindowOneSearch
<1>4. game'.id # 0 => (WindowAnyOf(asks', {"FindHook"}) => ~WindowAnyOf(found', WindowBreaks))
  BY DEF WindowOneSearch
<1>5. dialog'.open => \A c \in pending' : c.search = dialog'.search
  BY DEF WindowOneSearch
<1>6. dialog'.open /\ dialog'.inFlight # 0 => dialog'.inFlight = dialog'.search
  BY DEF WindowOneSearch
<1> QED
  BY <1>1, <1>2, <1>3, <1>4, <1>5, <1>6 DEF WindowOneSearch

LEMMA WindowAloneAttach == ASSUME WindowTypes, WindowAlone, HFind!WorkerAttach PROVE WindowAlone'
<1>0. /\ found \in Seq(WindowEvents) /\ game \in WindowSessions
      /\ game.id \in Nat /\ asks \in Seq(WindowRequests)
  BY WindowNumbers DEF WindowTypes
<1> DEFINE id == game.count + 1
           first == [kind |-> "Attached", session |-> id]
           refusal == [kind |-> "AttachFailed", session |-> 0]
           ev == IF game.id = 0 THEN found ELSE Append(found, HFind!Ended)
<1>1. first \in WindowEvents /\ refusal \in WindowEvents /\ HFind!Ended \in WindowEvents /\ id \in WindowIds
      /\ first.kind = "Attached" /\ refusal.kind = "AttachFailed" /\ HFind!Ended.kind = "Detached"
      /\ first.session = id
  <2>1. game.count \in Nat
    BY WindowNumbers
  <2>2. id \in WindowIds
    BY <2>1 DEF WindowIds
  <2> QED
    BY <2>2, WindowMade DEF HFind!Ended
<1>2. asks # << >> /\ asks' = Tail(asks) /\ Head(asks).kind = "Attach"
  BY DEF HFind!WorkerAttach, HFind!Take
<1>3. /\ WindowAnyOf(asks, {"Attach"}) /\ ~WindowAnyOf(asks', {"Attach"})
      /\ WindowNoneBound(asks', {"FindHook"}) /\ WindowOnlyOne(asks', {"Attach"})
  BY <1>0, <1>2, WindowKindsTaken, WindowCommandsTaken DEF WindowAlone, WindowOneConnection,
                        WindowInOrder
<1>4. /\ ev \in Seq(WindowEvents) /\ ~WindowAnyOf(ev, WindowConnects)
      /\ WindowOnlyOne(ev, WindowConnects) /\ WindowFound(ev, dialog)
  <2>1. ~WindowAnyOf(found, WindowConnects) /\ WindowOnlyOne(found, WindowConnects) /\ WindowFound(found, dialog)
    BY <1>3 DEF WindowAlone, WindowOneConnection, WindowOneSearch
  <2>2. HFind!Ended.kind \notin WindowConnects /\ HFind!Ended.kind # "FoundHook"
    BY <1>1 DEF WindowConnects
  <2> QED
    BY <1>0, <1>1, <2>1, <2>2, WindowKindsAppended, WindowEventsAppended, WindowQueues
<1>5. \/ game' = [id |-> id, generation |-> 0, hooks |-> {}, count |-> id]
         /\ found' = Append(ev, first)
      \/ game' = [game EXCEPT !.id = 0, !.count = id] /\ found' = Append(ev, refusal)
  <2> DEFINE old == IF game.id = 0 THEN << >> ELSE <<HFind!Ended>>
  <2>1. found \o old = ev
    BY <1>0, <1>1
  <2>2. /\ found \o old \o <<first>> = Append(ev, first)
        /\ found \o old \o <<refusal>> = Append(ev, refusal)
    <3> HIDE DEF first, refusal, old, ev, id
    <3> QED
      BY <1>1, <1>4, <2>1
  <2>3. \/ game' = [id |-> id, generation |-> 0, hooks |-> {}, count |-> id]
           /\ found' = found \o old \o <<first>>
        \/ game' = [game EXCEPT !.id = 0, !.count = id]
           /\ found' = found \o old \o <<refusal>>
    BY DEF HFind!WorkerAttach
  <2> QED
    BY <2>2, <2>3
<1>6. /\ [id |-> id, generation |-> 0, hooks |-> {}, count |-> id].id = id
      /\ [game EXCEPT !.id = 0, !.count = id].id = 0
  BY <1>0 DEF WindowSessions
<1>7. UNCHANGED <<dialog, pending>> /\ searches' = {}
  BY DEF HFind!WorkerAttach
<1> HIDE DEF first, refusal, id, ev
<1>8. PICK e \in {first, refusal} : found' = Append(ev, e) /\ (game'.id # 0 => e = first)
  BY <1>5, <1>6
<1>9. e \in WindowEvents /\ e.kind \in WindowConnects /\ e.kind # "FoundHook"
  BY <1>1, <1>8 DEF WindowConnects
<1>10. WindowOneConnection'
  <2>1. WindowOnlyOne(found', WindowConnects)
    BY <1>4, <1>8, <1>9, WindowKindsAppended
  <2> QED
    BY <1>3, <1>7, <2>1 DEF WindowOneConnection, WindowAlone
<1>11. WindowInOrder'
  <2>1. WindowBoundFirst(asks', {"FindHook"})
    BY <1>3, WindowNoneOf
  <2>2. game'.id # 0 => WindowThenAttached(found')
    BY <1>1, <1>4, <1>8, WindowEventsAppended
  <2> QED
    BY <2>1, <2>2 DEF WindowInOrder
<1>12. WindowOneSearch'
  <2>1. ~WindowAnyOf(asks', {"FindHook"})
    BY <1>3, WindowNoneOf
  <2>2. WindowSought(asks', dialog)
    BY <2>1, WindowNoneOf
  <2>3. WindowFound(found', dialog)
    BY <1>4, <1>8, <1>9, WindowEventsAppended
  <2> QED
    BY <1>7, <2>1, <2>2, <2>3 DEF WindowOneSearch, WindowAlone, HFind!NoResultOfEarlierSearch
<1> QED
  BY <1>10, <1>11, <1>12 DEF WindowAlone

LEMMA WindowAloneTake ==
    ASSUME WindowTypes, WindowAlone, HFind!WorkerDetach \/ HFind!GameExits \/ HFind!WorkerHook \/ HFind!WorkerFindHook
    PROVE  WindowAlone'
<1>0. /\ found \in Seq(WindowEvents) /\ game \in WindowSessions
      /\ game.id \in Nat /\ asks \in Seq(WindowRequests)
      /\ WindowOneConnection /\ WindowInOrder /\ WindowOneSearch
  BY WindowNumbers DEF WindowTypes, WindowAlone
<1>1. /\ WindowOnlyOne(asks', {"Attach"}) /\ (WindowAnyOf(asks', {"Attach"}) => WindowAnyOf(asks, {"Attach"}))
      /\ WindowBoundFirst(asks', {"FindHook"})
      /\ \A d : WindowSought(asks, d) => WindowSought(asks', d)
      /\ WindowAnyOf(asks', {"FindHook"}) => WindowAnyOf(asks, {"FindHook"})
  <2>1. \/ asks' = asks
        \/ asks # << >> /\ asks' = Tail(asks)
    BY DEF HFind!WorkerDetach, HFind!GameExits, HFind!WorkerHook, HFind!WorkerFindHook, HFind!Take
  <2>2. /\ WindowOnlyOne(asks, {"Attach"}) /\ WindowBoundFirst(asks, {"FindHook"})
    BY <1>0 DEF WindowOneConnection, WindowInOrder
  <2>3. CASE asks' = asks
    BY <2>2, <2>3
  <2>4. CASE asks # << >> /\ asks' = Tail(asks)
    <3>1. /\ WindowOnlyOne(asks', {"Attach"})
          /\ WindowAnyOf(asks', {"Attach"}) => WindowAnyOf(asks, {"Attach"})
          /\ WindowAnyOf(asks', {"FindHook"}) => WindowAnyOf(asks, {"FindHook"})
      BY <1>0, <2>2, <2>4, WindowKindsTaken
    <3>2. WindowBoundFirst(asks', {"FindHook"})
      BY <1>0, <2>2, <2>4, WindowCommandsTaken
    <3>3. \A d : WindowSought(asks, d) => WindowSought(asks', d)
      BY <1>0, <2>4, WindowCommandsTaken
    <3> QED
      BY <3>1, <3>2, <3>3
  <2> QED
    BY <2>1, <2>3, <2>4
<1>2. UNCHANGED <<dialog, pending>>
  BY DEF HFind!WorkerDetach, HFind!GameExits, HFind!WorkerHook, HFind!WorkerFindHook, HFind!uiVars
<1>3. CASE HFind!WorkerDetach \/ HFind!GameExits
  <2>1. /\ game'.id = 0 /\ searches' = {}
        /\ found' = found \/ found' = Append(found, HFind!Ended)
    BY <1>0, <1>3 DEF HFind!WorkerDetach, HFind!GameExits, HFind!uiVars, WindowSessions
  <2>2. HFind!Ended \in WindowEvents /\ HFind!Ended.kind \notin WindowConnects /\ HFind!Ended.kind # "FoundHook"
    BY WindowMade DEF HFind!Ended, WindowConnects
  <2>3. /\ WindowOnlyOne(found', WindowConnects) /\ (WindowAnyOf(found', WindowConnects) <=> WindowAnyOf(found, WindowConnects))
        /\ WindowFound(found', dialog)
    <3>1. WindowOnlyOne(found, WindowConnects) /\ WindowFound(found, dialog)
      BY <1>0 DEF WindowOneConnection, WindowOneSearch
    <3>2. CASE found' = found
      BY <3>1, <3>2
    <3>3. CASE found' = Append(found, HFind!Ended)
      <4>1. /\ WindowOnlyOne(found', WindowConnects)
            /\ WindowAnyOf(found', WindowConnects) <=> WindowAnyOf(found, WindowConnects)
        BY <1>0, <2>2, <3>1, <3>3, WindowKindsAppended
      <4>2. WindowFound(found', dialog)
        BY <1>0, <2>2, <3>1, <3>3, WindowEventsAppended
      <4> QED
        BY <4>1, <4>2
    <3> QED
      BY <2>1, <3>2, <3>3
  <2>4. WindowOneConnection'
    BY <1>0, <1>1, <1>2, <2>3, WindowConnectionKept
  <2>5. WindowInOrder'
    BY <1>1, <2>1 DEF WindowInOrder
  <2>6. WindowOneSearch'
    BY <1>0, <1>2, <2>1, <2>3 DEF WindowOneSearch, HFind!NoResultOfEarlierSearch
  <2> QED
    BY <2>4, <2>5, <2>6 DEF WindowAlone
<1>4. CASE HFind!WorkerHook \/ HFind!WorkerFindHook
  <2>1. found' = found /\ game'.id = game.id
    BY <1>0, <1>4 DEF HFind!WorkerHook, HFind!WorkerFindHook, HFind!uiVars, WindowSessions
  <2>2. WindowOneConnection'
    <3>1. WindowOnlyOne(found', WindowConnects)
      BY <1>0, <2>1 DEF WindowOneConnection
    <3> QED
      BY <1>0, <1>1, <1>2, <2>1, <3>1, WindowConnectionKept
  <2>3. WindowInOrder'
    BY <1>0, <1>1, <2>1 DEF WindowInOrder
  <2>4. WindowFound(found', dialog)
    BY <1>0, <2>1 DEF WindowOneSearch
  <2>5. CASE HFind!WorkerHook
    <3>1. game'.generation = game.generation /\ searches' = searches
      BY <1>0, <2>5 DEF HFind!WorkerHook, WindowSessions
    <3>2. WindowOneSearch'
      BY <1>0, <1>1, <1>2, <2>1, <2>4, <3>1, WindowSearchKept
    <3> QED
      BY <2>2, <2>3, <3>2 DEF WindowAlone
  <2>6. CASE HFind!WorkerFindHook
    <3>1. asks # << >> /\ Head(asks).kind = "FindHook"
      BY <2>6 DEF HFind!WorkerFindHook, HFind!Take
    <3>2. CASE game.id = 0
      <4>1. searches' = searches /\ game' = game
        BY <2>6, <3>2 DEF HFind!WorkerFindHook
      <4>2. WindowOneSearch'
        BY <1>0, <1>1, <1>2, <2>1, <2>4, <4>1, WindowSearchKept
      <4> QED
        BY <2>2, <2>3, <4>2 DEF WindowAlone
    <3>3. CASE game.id # 0
      <4> DEFINE s == [id |-> Head(asks).search, session |-> game.id]
      <4>1. /\ searches' = searches \cup {s} /\ game'.generation = Head(asks).generation
            /\ s.id = Head(asks).search /\ s.session = game.id
        BY <1>0, <2>6, <3>3 DEF HFind!WorkerFindHook, WindowSessions
      <4> HIDE DEF s
      <4>2. /\ dialog.open /\ dialog.inFlight = s.id
            /\ dialog.generation = game'.generation /\ ~WindowAnyOf(found, WindowBreaks)
        <5>1. WindowSought(asks, dialog)
          BY <1>0, <3>3 DEF WindowOneSearch
        <5>2. WindowAnyOf(asks, {"FindHook"})
          BY <1>0, <3>1, WindowKindsTaken
        <5> QED
          BY <1>0, <3>1, <3>3, <4>1, <5>1, <5>2, WindowCommandsTaken DEF WindowOneSearch
      <4>3. \A t \in searches' :
              /\ t.session = game'.id /\ dialog.open /\ dialog.inFlight = t.id
              /\ game'.generation = dialog.generation /\ ~WindowAnyOf(found, WindowBreaks)
        BY <1>0, <2>1, <4>1, <4>2 DEF WindowOneSearch
      <4>4. WindowOneSearch'
        BY <1>0, <1>1, <1>2, <2>1, <3>3, <4>3 DEF WindowOneSearch, HFind!NoResultOfEarlierSearch
      <4> QED
        BY <2>2, <2>3, <4>4 DEF WindowAlone
    <3> QED
      BY <3>2, <3>3
  <2> QED
    BY <1>4, <2>5, <2>6
<1> QED
  BY <1>3, <1>4

LEMMA WindowAloneGame ==
    ASSUME WindowTypes, WindowAlone,
           \/ \E s \in searches : HFind!SearchEnds(s) \/ \E a \in FindAddress : HFind!GameFinds(s, a)
           \/ \E t \in FindThread : HFind!GamePrints(t)
    PROVE  WindowAlone'
<1>0. /\ found \in Seq(WindowEvents) /\ game.id \in Nat
      /\ WindowOneConnection /\ WindowInOrder /\ WindowOneSearch
  BY WindowNumbers DEF WindowTypes, WindowAlone
<1>1. CASE \E s \in searches : HFind!SearchEnds(s)
  <2>1. /\ asks' = asks /\ game' = game /\ found' = found /\ dialog' = dialog /\ pending' = pending
        /\ searches' \subseteq searches
    BY <1>1 DEF HFind!SearchEnds, HFind!uiVars
  <2>2. WindowOneSearch'
    BY <1>0, <2>1, WindowSearchKept DEF WindowOneSearch
  <2> QED
    BY <1>0, <2>1, <2>2 DEF WindowAlone, WindowOneConnection, WindowInOrder
<1>2. ASSUME NEW e \in WindowEvents, found' = Append(found, e), e.kind \notin WindowBreaks,
             e.kind = "FoundHook" =>
                 /\ ~WindowAnyOf(found, WindowBreaks)
                 /\ dialog.open /\ dialog.inFlight = e.search /\ dialog.generation = e.generation,
             UNCHANGED <<asks, game, searches, dialog, pending>>
      PROVE  WindowAlone'
  <2>0. e.kind \notin WindowConnects
    BY <1>2 DEF WindowBreaks, WindowConnects
  <2>1. /\ WindowOnlyOne(found', WindowConnects) /\ (WindowAnyOf(found', WindowConnects) <=> WindowAnyOf(found, WindowConnects))
        /\ WindowAnyOf(found', WindowBreaks) <=> WindowAnyOf(found, WindowBreaks)
    BY <1>0, <1>2, <2>0, WindowKindsAppended DEF WindowOneConnection
  <2>2. game.id # 0 => WindowThenAttached(found')
    BY <1>0, <1>2, WindowEventsAppended DEF WindowInOrder
  <2>3. WindowFound(found', dialog)
    BY <1>0, <1>2, WindowEventsAppended DEF WindowOneSearch
  <2>4. WindowOneConnection'
    BY <1>0, <1>2, <2>1 DEF WindowOneConnection
  <2>5. WindowInOrder'
    BY <1>0, <1>2, <2>2 DEF WindowInOrder
  <2>6. WindowOneSearch'
    BY <1>0, <1>2, <2>1, <2>3, WindowSearchKept
  <2> QED
    BY <2>4, <2>5, <2>6 DEF WindowAlone
<1>3. ASSUME NEW s \in searches, NEW a \in FindAddress, HFind!GameFinds(s, a) PROVE WindowAlone'
  <2> DEFINE e == [kind |-> "FoundHook", generation |-> game.generation, search |-> s.id,
                   address |-> a, session |-> game.id]
  <2>1. e \in WindowEvents
    <3>1. game.id \in WindowIds /\ game.generation \in Nat /\ s.id \in WindowIds
      BY <1>3, WindowNumbers DEF HFind!GameFinds, WindowIds
    <3> QED
      BY <3>1, WindowMade
  <2>2. e.kind = "FoundHook" /\ e.kind \notin WindowBreaks /\ e.search = s.id /\ e.generation = game.generation
    BY DEF WindowBreaks
  <2>3. found' = Append(found, e) /\ UNCHANGED <<asks, game, searches, dialog, pending>>
    BY <1>3 DEF HFind!GameFinds, HFind!uiVars
  <2> HIDE DEF e
  <2>4. /\ ~WindowAnyOf(found, WindowBreaks) /\ dialog.open /\ dialog.inFlight = e.search
        /\ dialog.generation = e.generation
    BY <1>0, <2>2 DEF WindowOneSearch
  <2> QED
    BY <1>2, <2>1, <2>2, <2>3, <2>4
<1>4. ASSUME NEW t \in FindThread, HFind!GamePrints(t) PROVE WindowAlone'
  <2> DEFINE e == [kind |-> "Text", thread |-> t, session |-> game.id]
  <2>1. e \in WindowEvents /\ e.kind \notin WindowBreaks /\ e.kind # "FoundHook"
    BY <1>4, WindowMade, WindowNumbers DEF HFind!GamePrints, WindowBreaks
  <2>2. found' = Append(found, e) /\ UNCHANGED <<asks, game, searches, dialog, pending>>
    BY <1>4 DEF HFind!GamePrints
  <2> QED
    BY <1>2, <2>1, <2>2
<1> QED
  BY <1>1, <1>3, <1>4

LEMMA WindowAloneEvent ==
    ASSUME WindowTypes, WindowBelongs, WindowAlone, HFind!HandleEvent
    PROVE  WindowAlone'
<1> DEFINE e == Head(found)
<1>0. /\ found \in Seq(WindowEvents) /\ asks \in Seq(WindowRequests)
      /\ game.id \in Nat /\ found # << >> /\ e \in WindowEvents
      /\ WindowOneConnection /\ WindowInOrder /\ WindowOneSearch
      /\ WindowMeantFor(asks, game.id)
  BY WindowQueues, WindowNumbers DEF WindowTypes, HFind!HandleEvent, WindowAlone, WindowBelongs
<1>1. /\ found' = Tail(found) /\ game' = game /\ searches' = searches
      /\ HFind!HandleAttached(e) \/ HFind!HandleDetached(e) \/ HFind!HandleText(e) \/ HFind!HandleFound(e)
  BY DEF HFind!HandleEvent
<1>2. /\ WindowOnlyOne(found', WindowConnects)
      /\ \A kinds : WindowAnyOf(found', kinds) => WindowAnyOf(found, kinds)
      /\ \A kinds : e.kind \in kinds => WindowAnyOf(found, kinds)
      /\ \A kinds : WindowAnyOf(found, kinds) /\ e.kind \notin kinds => WindowAnyOf(found', kinds)
      /\ e.kind \in WindowConnects => ~WindowAnyOf(found', WindowConnects)
  <2>1. WindowOnlyOne(found, WindowConnects)
    BY <1>0 DEF WindowOneConnection
  <2> QED
    BY <1>0, <1>1, <2>1, WindowKindsTaken
<1>3. game.id # 0 => WindowThenAttached(found')
  BY <1>0, <1>1, WindowEventsTaken DEF WindowInOrder
<1>4. /\ WindowFound(found', dialog)
      /\ e.kind \in WindowBreaks => ~WindowAnyOf(found', {"FoundHook"})
      /\ e.kind = "FoundHook" =>
           dialog.open /\ dialog.inFlight = e.search /\ dialog.generation = e.generation
  <2>1. WindowFound(found, dialog)
    BY <1>0 DEF WindowOneSearch
  <2> QED
    BY <1>0, <1>1, <2>1, WindowEventsTaken
<1>6. dialog.open => dialog \in WindowOpenDialogs
  BY WindowOpenTyped
<1>7. CASE e.kind \in WindowBreaks
  <2>1. /\ hookSession' = (IF e.kind = "Attached" THEN e.session ELSE 0) /\ hookSession' \in Nat
        /\ HFind!ResetSession(hookSession')
    BY <1>0, <1>1, <1>7, WindowCarried
       DEF HFind!HandleAttached, HFind!HandleDetached, HFind!HandleText, HFind!HandleFound,
           HFind!ResetSession, WindowBreaks, WindowIds
  <2>2. /\ pending' = {} /\ dialog'.open = dialog.open
        /\ ~HFind!Reachable => dialog' = dialog
        /\ HFind!Reachable =>
             /\ dialog'.inFlight = 0 /\ dialog'.candidates = {} /\ ~dialog'.waiting
             /\ dialog'.label = hookSession' /\ ~dialog'.lent
    BY <2>1, WindowReset
  <2>3. searches = {} /\ (game.id # 0 => ~WindowAnyOf(asks, {"FindHook"}))
    BY <1>0, <1>2, <1>7 DEF WindowOneSearch
  <2>4. /\ WindowOnlyOne(asks', {"Attach"}) /\ WindowBoundFirst(asks', {"FindHook"})
        /\ WindowAnyOf(asks', {"Attach"}) <=> WindowAnyOf(asks, {"Attach"})
        /\ WindowAnyOf(asks', {"FindHook"}) <=> WindowAnyOf(asks, {"FindHook"})
    <3>1. WindowOnlyOne(asks, {"Attach"}) /\ WindowBoundFirst(asks, {"FindHook"})
      BY <1>0 DEF WindowOneConnection, WindowInOrder
    <3>2. CASE asks' = asks
      BY <3>1, <3>2
    <3>3. ASSUME NEW r \in WindowRequests, asks' = Append(asks, r), r.kind = "NewHook",
                 WindowHook(r) => ~WindowAnyOf(asks, {"Attach"}) /\ game.id \in {0, r.meant}
          PROVE  /\ WindowOnlyOne(asks', {"Attach"}) /\ WindowBoundFirst(asks', {"FindHook"})
                 /\ WindowAnyOf(asks', {"Attach"}) <=> WindowAnyOf(asks, {"Attach"})
                 /\ WindowAnyOf(asks', {"FindHook"}) <=> WindowAnyOf(asks, {"FindHook"})
      BY <1>0, <3>1, <3>3, WindowHookAppended
    <3>4. CASE HFind!HandleAttached(e)
      BY <1>0, <3>2, <3>3, <3>4, WindowProfileHook
    <3>5. CASE HFind!HandleDetached(e)
      BY <3>2, <3>5 DEF HFind!HandleDetached
    <3> QED
      BY <1>1, <1>7, <3>4, <3>5 DEF HFind!HandleText, HFind!HandleFound, WindowBreaks
  <2>5. WindowOneConnection'
    <3>1. ASSUME WindowAnyOf(asks', {"Attach"}) \/ WindowAnyOf(found', WindowConnects)
          PROVE  /\ dialog'.open /\ ~dialog'.lent /\ dialog'.label = 0
                 /\ ~(WindowAnyOf(asks', {"Attach"}) /\ WindowAnyOf(found', WindowConnects))
      <4>1. e.kind = "Detached"
        BY <1>0, <1>2, <1>7, <2>4, <3>1 DEF WindowBreaks, WindowConnects, WindowOneConnection
      <4>2. dialog.open /\ ~dialog.lent
        BY <1>0, <1>2, <2>4, <3>1 DEF WindowOneConnection
      <4> QED
        BY <1>0, <1>2, <2>1, <2>2, <2>4, <4>1, <4>2 DEF HFind!Reachable, WindowOneConnection
    <3> QED
      BY <1>2, <2>4, <3>1 DEF WindowOneConnection
  <2>6. WindowInOrder'
    BY <1>1, <1>3, <2>4 DEF WindowInOrder
  <2>7. WindowOneSearch'
    <3>1. WindowFound(found', dialog') /\ (game.id # 0 => WindowSought(asks', dialog'))
      BY <1>4, <1>7, <2>3, <2>4, WindowNoneOf
    <3>2. HFind!NoResultOfEarlierSearch'
      BY <1>0, <2>2 DEF HFind!NoResultOfEarlierSearch, WindowOneSearch
    <3>3. dialog'.open /\ dialog'.inFlight # 0 => dialog'.inFlight = dialog'.search
      BY <1>0, <2>2 DEF WindowOneSearch
    <3> QED
      BY <1>1, <2>2, <2>3, <2>4, <3>1, <3>2, <3>3 DEF WindowOneSearch
  <2> QED
    BY <2>5, <2>6, <2>7 DEF WindowAlone
<1>8. CASE e.kind \notin WindowBreaks
  <2>1. e.kind \notin WindowConnects /\ asks' = asks
    BY <1>1, <1>8 DEF HFind!HandleAttached, HFind!HandleDetached, HFind!HandleText,
                      HFind!HandleFound, WindowBreaks, WindowConnects
  <2>2. /\ dialog'.open = dialog.open
        /\ dialog.open =>
             /\ dialog'.inFlight = dialog.inFlight /\ dialog'.generation = dialog.generation
             /\ dialog'.search = dialog.search /\ dialog'.waiting = dialog.waiting
             /\ dialog'.label = dialog.label /\ dialog'.lent = dialog.lent
             /\ \A c \in dialog'.candidates : c \in dialog.candidates \/ c.search = dialog.search
             /\ \A c \in pending' : c.search = dialog.search
    <3>0. dialog.open => \A c \in pending : c.search = dialog.search
      BY <1>0 DEF WindowOneSearch
    <3>1. CASE HFind!HandleText(e)
      <4>1. pending' = pending /\ (~HFind!Reachable => dialog' = dialog)
        BY <3>1 DEF HFind!HandleText
      <4>2. CASE HFind!Reachable
        <5>1. PICK x : dialog' = [dialog EXCEPT !.streams = x]
          BY <3>1, <4>2 DEF HFind!HandleText
        <5> QED
          BY <1>6, <3>0, <4>1, <4>2, <5>1 DEF WindowOpenDialogs, HFind!Reachable
      <4> QED
        BY <3>0, <4>1, <4>2
    <3>2. CASE HFind!HandleFound(e)
      <4>1. /\ dialog.open /\ dialog.inFlight = e.search /\ dialog \in WindowOpenDialogs
            /\ dialog.inFlight # 0
        BY <1>0, <1>4, <1>6, <3>2, WindowCarried DEF HFind!HandleFound, WindowIds
      <4>2. dialog.search = e.search
        BY <1>0, <4>1 DEF WindowOneSearch
      <4> DEFINE results == HFind!Collected([address |-> e.address, generation |-> e.generation,
                                     search |-> e.search])
      <4>3. \A c \in results : c.search = dialog.search
        BY <3>0, <4>1, <4>2 DEF HFind!Collected
      <4>4. IF HFind!Reachable THEN HFind!Drained(dialog, results) /\ pending' = {}
            ELSE pending' = results /\ dialog' = dialog
        BY <3>2 DEF HFind!HandleFound
      <4> HIDE DEF results
      <4>5. CASE HFind!Reachable
        <5>1. PICK new \in SUBSET HFind!Fresh(dialog, results) :
                dialog' = [dialog EXCEPT !.candidates = @ \cup new,
                                         !.offered = dialog.waiting /\ dialog.label # 0
                                                       /\ dialog.candidates \cup new # {}]
          BY <4>4, <4>5 DEF HFind!Drained
        <5>2. \A c \in new : c.search = dialog.search
          BY <4>3, <5>1 DEF HFind!Fresh
        <5> QED
          BY <4>1, <4>4, <4>5, <5>1, <5>2 DEF WindowOpenDialogs
      <4> QED
        BY <4>3, <4>4, <4>5
    <3> QED
      BY <1>1, <1>8, <3>1, <3>2 DEF HFind!HandleAttached, HFind!HandleDetached, WindowBreaks
  <2>3. WindowOneConnection'
    BY <1>0, <1>2, <2>1, <2>2 DEF WindowOneConnection
  <2>4. WindowInOrder'
    BY <1>0, <1>1, <1>3, <2>1 DEF WindowInOrder
  <2>5. WindowFound(found', dialog') /\ (game.id # 0 => WindowSought(asks', dialog'))
    BY <1>0, <1>4, <2>1, <2>2 DEF WindowFound, WindowSought, WindowOneSearch
  <2>6. HFind!NoResultOfEarlierSearch'
    BY <1>0, <2>2 DEF HFind!NoResultOfEarlierSearch, WindowOneSearch
  <2>7. WindowOneSearch'
    BY <1>0, <1>1, <1>2, <2>1, <2>2, <2>5, <2>6 DEF WindowOneSearch
  <2> QED
    BY <2>3, <2>4, <2>7 DEF WindowAlone
<1> QED
  BY <1>7, <1>8

\* No connection is under way in a window whose controls the user may use, or where a box is open.
LEMMA WindowAloneManaged ==
    ASSUME WindowTypes, WindowAlone, HFind!Managed \/ HFind!Lent
    PROVE  /\ dialog \in WindowOpenDialogs
           /\ ~WindowAnyOf(asks, {"Attach"}) /\ ~WindowAnyOf(found, WindowConnects)
           /\ game.id # 0 => ~WindowAnyOf(found, WindowBreaks)
<1>1. dialog.open /\ (dialog.lent \/ (~dialog.waiting /\ dialog.label # 0))
  BY DEF HFind!Managed, HFind!Usable, HFind!Reachable, HFind!Lent
<1>2. dialog \in WindowOpenDialogs
  BY <1>1, WindowOpenTyped
<1>3. ~WindowAnyOf(asks, {"Attach"}) /\ ~WindowAnyOf(found, WindowConnects)
  BY <1>1 DEF WindowAlone, WindowOneConnection
<1>4. ~WindowAnyOf(found, {"Attached"})
  BY <1>3, WindowNoneOf
<1>5. game.id # 0 => ~WindowAnyOf(found, WindowBreaks)
  BY <1>4, WindowNoneOf DEF WindowAlone, WindowInOrder
<1> QED
  BY <1>2, <1>3, <1>5

LEMMA WindowAloneUser ==
    ASSUME WindowTypes, WindowBelongs, WindowAlone, ~FindActsWhileBusy, HFind!User
    PROVE  WindowAlone'
<1>0. /\ asks \in Seq(WindowRequests) /\ found \in Seq(WindowEvents)
      /\ dialog.open => dialog \in WindowOpenDialogs
      /\ WindowOneConnection /\ WindowInOrder /\ WindowOneSearch
      /\ WindowOnlyOne(asks, {"Attach"}) /\ WindowOnlyOne(found, WindowConnects)
      /\ WindowFound(found, dialog) /\ WindowBoundFirst(asks, {"FindHook"})
  BY WindowOpenTyped DEF WindowTypes, WindowAlone, WindowOneConnection, WindowOneSearch, WindowInOrder
<1>1. CASE HFind!Open
  <2>1. /\ ~dialog.open /\ dialog'.open /\ dialog'.inFlight = 0 /\ dialog'.search = 0 /\ pending' = {}
        /\ asks' = asks /\ game' = game /\ searches' = searches /\ found' = found
    <3>1. PICK all, on : dialog' = [HFind!Opened(listed) EXCEPT !.candidates = all, !.offered = on]
      BY <1>1 DEF HFind!Open, HFind!Drained
    <3> QED
      BY <1>1, <3>1 DEF HFind!Open, HFind!Opened
  <2>2. searches = {} /\ ~WindowAnyOf(asks, {"Attach"}) /\ ~WindowAnyOf(found, WindowConnects)
    BY <1>0, <2>1 DEF WindowOneConnection, WindowOneSearch
  <2>3. /\ WindowFound(found, dialog') /\ (game.id # 0 => WindowSought(asks, dialog'))
    BY <1>0, <2>1 DEF WindowOneSearch, WindowFound, WindowSought
  <2>4. WindowOneConnection'
    BY <1>0, <2>1, <2>2 DEF WindowOneConnection
  <2>5. WindowInOrder'
    BY <1>0, <2>1 DEF WindowInOrder
  <2>6. WindowOneSearch'
    BY <1>0, <2>1, <2>2, <2>3 DEF WindowOneSearch, HFind!NoResultOfEarlierSearch
  <2> QED
    BY <2>4, <2>5, <2>6 DEF WindowAlone
<1>2. CASE HFind!Close
  <2>1. /\ ~dialog'.open /\ ~HFind!Busy
        /\ asks' = asks /\ game' = game /\ searches' = searches /\ found' = found
    BY <1>2 DEF HFind!Close, HFind!Closed
  <2>2. /\ searches = {} /\ ~WindowAnyOf(asks, {"Attach"}) /\ ~WindowAnyOf(found, WindowConnects)
        /\ ~WindowAnyOf(asks, {"FindHook"}) /\ ~WindowAnyOf(found, {"FoundHook"})
    BY <1>0, <2>1 DEF HFind!Busy, WindowAnyOf, WindowConnects
  <2>3. WindowFound(found, dialog') /\ WindowSought(asks, dialog')
    BY <2>2, WindowNoneOf
  <2>4. WindowOneConnection'
    BY <1>0, <2>1, <2>2 DEF WindowOneConnection
  <2>5. WindowInOrder'
    BY <1>0, <2>1 DEF WindowInOrder
  <2>6. WindowOneSearch'
    BY <1>0, <2>1, <2>2, <2>3 DEF WindowOneSearch, HFind!NoResultOfEarlierSearch
  <2> QED
    BY <2>4, <2>5, <2>6 DEF WindowAlone
<1>3. CASE HFind!Connect \/ HFind!Detach \/ HFind!StopSession
  <2>1. /\ game' = game /\ searches' = searches /\ found' = found /\ pending' = pending
        /\ \/ HFind!Reachable /\ dialog' = HFind!Waiting(dialog)
           \/ ~HFind!Reachable /\ dialog' = dialog
        /\ HFind!Connect => HFind!Reachable
    BY <1>3 DEF HFind!Connect, HFind!Detach, HFind!StopSession, HFind!Managed, HFind!Usable
  <2>2. /\ dialog'.open = dialog.open
        /\ dialog.open =>
             /\ dialog'.inFlight = dialog.inFlight /\ dialog'.generation = dialog.generation
             /\ dialog'.search = dialog.search /\ (dialog.waiting => dialog'.waiting)
             /\ dialog'.candidates = dialog.candidates /\ dialog'.label = dialog.label
             /\ dialog'.lent = dialog.lent
        /\ HFind!Connect => dialog.open /\ dialog'.waiting /\ ~dialog'.lent
    BY <1>0, <2>1 DEF HFind!Waiting, HFind!Reachable, WindowOpenDialogs
  <2>3. PICK q \in WindowRequests : /\ asks' = Append(asks, q) /\ q.kind \in {"Attach", "Detach"}
                                    /\ q.kind = "Attach" => HFind!Connect
    <3>1. PICK q \in WindowRequests : /\ asks' = Append(asks, q) /\ q.kind \in {"Attach", "Detach", "FindHook"}
                                      /\ q.kind = "Attach" => HFind!Connect
                                      /\ q.kind = "FindHook" => HFind!StartSearch
      BY <1>3, WindowPlainRequest
    <3>2. CASE q.kind = "FindHook"
      <4>1. asks' = asks \o <<[kind |-> "Attach"]>> \/ asks' = asks \o <<[kind |-> "Detach"]>>
        BY <1>3 DEF HFind!Connect, HFind!Detach, HFind!StopSession, HFind!Ask
      <4>2. asks' = Append(asks, [kind |-> "Attach"]) \/ asks' = Append(asks, [kind |-> "Detach"])
        BY <1>0, <4>1, WindowMade
      <4>3. asks'[Len(asks) + 1].kind \in {"Attach", "Detach"} /\ asks'[Len(asks) + 1] = q
        BY <1>0, <3>1, <4>2, WindowMade, WindowQueues
      <4> QED
        BY <3>2, <4>3
    <3> QED
      BY <3>1, <3>2
  <2>4. HFind!Connect => ~WindowAnyOf(asks, {"Attach"}) /\ ~WindowAnyOf(found, WindowConnects)
    BY <1>0, WindowUnderWay DEF HFind!Connect
  <2>5. /\ WindowOnlyOne(asks', {"Attach"})
        /\ WindowAnyOf(asks', {"Attach"}) => WindowAnyOf(asks, {"Attach"}) \/ HFind!Connect
        /\ WindowAnyOf(asks', {"FindHook"}) => WindowAnyOf(asks, {"FindHook"})
    BY <1>0, <2>3, <2>4, WindowKindsAppended
  <2>6. /\ WindowBoundFirst(asks', {"FindHook"})
        /\ WindowSought(asks, dialog) => WindowSought(asks', dialog)
    <3>1. PICK r \in WindowRequests : asks' = Append(asks, r) /\ r.kind \in {"Attach", "Detach"}
      BY <2>3
    <3>2. ~WindowBound(r, {"FindHook"}) /\ r.kind # "FindHook"
      BY <3>1 DEF WindowBound, WindowHook
    <3>3. WindowBoundFirst(asks, {"FindHook"})
      BY <1>0
    <3> DEFINE kinds == {"FindHook"}
    <3>4. "Attach" \notin kinds /\ ~WindowBound(r, kinds) /\ WindowBoundFirst(asks, kinds)
      BY <3>2, <3>3
    <3> HIDE DEF kinds
    <3>5. WindowBoundFirst(Append(asks, r), kinds)
      BY <1>0, <3>1, <3>4, WindowCommandsAppended
    <3>6. WindowSought(asks, dialog) => WindowSought(Append(asks, r), dialog)
      BY <1>0, <3>1, <3>2, <3>4, WindowCommandsAppended
    <3> QED
      BY <3>1, <3>5, <3>6 DEF kinds
  <2>7. WindowOneConnection'
    BY <1>0, <2>1, <2>2, <2>4, <2>5 DEF WindowOneConnection
  <2>8. WindowInOrder'
    BY <1>0, <2>1, <2>6 DEF WindowInOrder
  <2>9. WindowOneSearch'
    BY <1>0, <2>1, <2>2, <2>5, <2>6, WindowSearchKept
  <2> QED
    BY <2>7, <2>8, <2>9 DEF WindowAlone
<1>4. CASE HFind!StartSearch
  <2>0. HFind!Managed
    BY <1>4 DEF HFind!StartSearch
  <2>1. /\ dialog \in WindowOpenDialogs
        /\ ~WindowAnyOf(asks, {"Attach"}) /\ ~WindowAnyOf(found, WindowConnects)
        /\ game.id # 0 => ~WindowAnyOf(found, WindowBreaks)
    BY <2>0, WindowAloneManaged
  <2> DEFINE id == counts.searches + 1  generation == dialog.generation + 1
             r == [kind |-> "FindHook", search |-> id, generation |-> generation]
  <2>2. /\ id \in WindowIds /\ generation \in Nat
        /\ r.kind = "FindHook" /\ r.search = id /\ r.generation = generation
    <3>1. counts.searches \in Nat
      BY WindowNumbers
    <3> QED
      BY <2>1, <3>1 DEF WindowOpenDialogs, WindowIds
  <2>3. r \in WindowRequests
    <3> HIDE DEF id, generation
    <3> QED
      BY <2>2, WindowMade
  <2>4. /\ asks' = asks \o <<r>> /\ pending' = {} /\ dialog.inFlight = 0
        /\ dialog' = [dialog EXCEPT !.generation = generation, !.inFlight = id, !.search = id,
                                    !.candidates = {}]
        /\ game' = game /\ searches' = searches /\ found' = found
    BY <1>4 DEF HFind!StartSearch, HFind!Ask, HFind!InFlight
  <2> HIDE DEF id, generation, r
  <2>5. asks' = Append(asks, r)
    BY <1>0, <2>3, <2>4
  <2>6. /\ dialog'.open /\ dialog.open /\ dialog'.inFlight = id /\ dialog'.search = id
        /\ dialog'.generation = generation /\ dialog'.candidates = {}
    BY <2>1, <2>4 DEF WindowOpenDialogs
  <2>7. searches = {}
    BY <1>0, <2>4, WindowNumbers DEF WindowOneSearch, WindowIds
  <2>8. ~WindowAnyOf(found, {"FoundHook"})
    <3> SUFFICES ASSUME NEW i \in 1..Len(found), found[i].kind = "FoundHook" PROVE FALSE
      BY DEF WindowAnyOf
    <3>1. found[i] \in WindowEvents
      BY <1>0
    <3>2. found[i].search \in WindowIds
      BY <3>1, WindowCarried
    <3> QED
      BY <1>0, <2>4, <3>2 DEF WindowFound, WindowIds
  <2>9. game.id # 0 => ~WindowAnyOf(asks, {"FindHook"})
    <3> SUFFICES ASSUME game.id # 0, NEW i \in 1..Len(asks), asks[i].kind = "FindHook"
                 PROVE  FALSE
      BY DEF WindowAnyOf
    <3>1. asks[i] \in WindowRequests
      BY <1>0
    <3>2. asks[i].search \in WindowIds
      BY <3>1, WindowCarried
    <3> QED
      BY <1>0, <2>4, <3>2 DEF WindowOneSearch, WindowSought, WindowIds
  <2>10. ~WindowAnyOf(asks', {"Attach"}) /\ WindowBoundFirst(asks', {"FindHook"})
    <3>1. ~WindowAnyOf(asks', {"Attach"})
      BY <1>0, <2>1, <2>2, <2>3, <2>5, WindowKindsAppended
    <3>2. WindowBoundFirst(asks', {"FindHook"})
      BY <1>0, <2>1, <2>3, <2>5, WindowCommandsAppended
    <3> QED
      BY <3>1, <3>2
  <2>11. game.id # 0 => WindowSought(asks', dialog')
    <3>1. /\ Len(asks) \in Nat /\ Len(asks') = Len(asks) + 1
          /\ asks'[Len(asks) + 1] = r
          /\ \A i \in 1..Len(asks) : asks'[i] = asks[i]
      BY <1>0, <2>3, <2>5, WindowQueues
    <3>2. 1..(Len(asks) + 1) = 1..Len(asks) \cup {Len(asks) + 1}
      BY <3>1
    <3> QED
      BY <2>2, <2>6, <2>9, <3>1, <3>2 DEF WindowSought, WindowAnyOf
  <2>12. WindowOneConnection'
    <3>1. WindowOnlyOne(asks', {"Attach"})
      BY <2>10 DEF WindowOnlyOne, WindowAnyOf
    <3> QED
      BY <1>0, <2>1, <2>4, <2>10, <3>1 DEF WindowOneConnection
  <2>13. WindowInOrder'
    BY <1>0, <2>4, <2>10 DEF WindowInOrder
  <2>14. WindowOneSearch'
    <3>1. WindowFound(found, dialog')
      BY <2>8, WindowNoneOf
    <3> QED
      BY <2>1, <2>4, <2>6, <2>7, <2>11, <3>1 DEF WindowOneSearch, HFind!NoResultOfEarlierSearch
  <2> QED
    BY <2>12, <2>13, <2>14 DEF WindowAlone
<1>5. CASE HFind!SearchTimePasses
  <2>1. /\ dialog \in WindowOpenDialogs /\ dialog' = [dialog EXCEPT !.inFlight = 0]
        /\ asks' = asks /\ game' = game /\ searches' = searches /\ found' = found /\ pending' = pending
    BY <1>0, <1>5 DEF HFind!SearchTimePasses
  <2>2. /\ dialog.open /\ dialog'.open /\ dialog'.inFlight = 0 /\ dialog'.search = dialog.search
        /\ dialog'.candidates = dialog.candidates /\ dialog'.waiting = dialog.waiting
        /\ dialog'.label = dialog.label /\ dialog'.lent = dialog.lent
    BY <2>1 DEF WindowOpenDialogs
  <2>3. searches = {} /\ ~WindowAnyOf(asks, {"FindHook"}) /\ ~WindowAnyOf(found, {"FoundHook"})
    BY <1>0, <1>5 DEF HFind!SearchTimePasses, WindowAnyOf, WindowOneSearch
  <2>4. WindowFound(found, dialog') /\ WindowSought(asks, dialog')
    BY <2>3, WindowNoneOf
  <2>5. WindowOneConnection'
    BY <1>0, <2>1, <2>2 DEF WindowOneConnection
  <2>6. WindowInOrder'
    BY <1>0, <2>1 DEF WindowInOrder
  <2>7. WindowOneSearch'
    BY <1>0, <2>1, <2>2, <2>3, <2>4 DEF WindowOneSearch, HFind!NoResultOfEarlierSearch
  <2> QED
    BY <2>5, <2>6, <2>7 DEF WindowAlone
<1>6. CASE HFind!InstallCandidate \/ HFind!InstallManual
  <2>1. /\ dialog \in WindowOpenDialogs
        /\ UNCHANGED <<game, searches, found, hookSession, pending, history>>
        /\ dialog'.open /\ dialog'.inFlight = dialog.inFlight /\ dialog'.search = dialog.search
        /\ dialog'.generation = dialog.generation /\ dialog'.candidates = dialog.candidates
        /\ dialog'.waiting = dialog.waiting /\ dialog'.label = dialog.label
        /\ dialog'.lent = dialog.lent
    BY <1>6, WindowExchangeOf
  <2>2. dialog.open
    BY <2>1 DEF WindowOpenDialogs
  <2>3. PICK new \in FindAddress \cup {FindSavedHook}, old \in FindAddress \cup {0, FindSavedHook} :
          asks' = asks \o HFind!Replacement(new, old)
    BY <1>6, WindowExchangeOf
  <2>4. /\ WindowBoundFirst(asks', {"FindHook"})
        /\ WindowAnyOf(asks', {"Attach"}) <=> WindowAnyOf(asks, {"Attach"})
        /\ WindowAnyOf(asks', {"FindHook"}) <=> WindowAnyOf(asks, {"FindHook"})
        /\ WindowOnlyOne(asks', {"Attach"})
        /\ WindowSought(asks, dialog) => WindowSought(asks', dialog)
    BY <1>0, <2>2, <2>3, WindowReplaced
  <2>5. WindowOneConnection'
    BY <1>0, <2>1, <2>2, <2>4, WindowConnectionKept
  <2>6. WindowInOrder'
    BY <1>0, <2>1, <2>4 DEF WindowInOrder
  <2>7. WindowOneSearch'
    BY <1>0, <2>1, <2>2, <2>4, WindowSearchKept
  <2> QED
    BY <2>5, <2>6, <2>7 DEF WindowAlone
<1>7. CASE HFind!OpenBox \/ HFind!EndBox
  <2>1. /\ dialog \in WindowOpenDialogs /\ dialog.open
        /\ ~WindowAnyOf(asks, {"Attach"}) /\ ~WindowAnyOf(found, WindowConnects)
    BY <1>7, WindowAloneManaged DEF HFind!OpenBox, HFind!EndBox, WindowOpenDialogs
  <2>2. PICK b \in BOOLEAN : dialog' = [dialog EXCEPT !.lent = b]
    BY <1>7 DEF HFind!OpenBox, HFind!EndBox
  <2>3. asks' = asks /\ game' = game /\ searches' = searches /\ found' = found /\ pending' = pending
    BY <1>7 DEF HFind!OpenBox, HFind!EndBox
  <2>4. /\ dialog'.open = dialog.open /\ dialog'.inFlight = dialog.inFlight
        /\ dialog'.search = dialog.search /\ dialog'.generation = dialog.generation
        /\ dialog'.candidates = dialog.candidates
    BY <2>1, <2>2 DEF WindowOpenDialogs
  <2>5. WindowOneConnection'
    BY <1>0, <2>1, <2>3 DEF WindowOneConnection
  <2>6. WindowInOrder'
    BY <1>0, <2>3 DEF WindowInOrder
  <2>7. WindowOneSearch'
    BY <1>0, <2>3, <2>4, WindowSearchKept
  <2> QED
    BY <2>5, <2>6, <2>7 DEF WindowAlone
<1>8. CASE HFind!SelectStream
  <2>1. /\ asks' = asks /\ game' = game /\ searches' = searches /\ found' = found
        /\ pending' = pending /\ dialog' = dialog
    BY <1>8 DEF HFind!SelectStream
  <2>2. WindowOneSearch'
    BY <1>0, <2>1, WindowSearchKept
  <2> QED
    BY <1>0, <2>1, <2>2 DEF WindowAlone, WindowOneConnection, WindowInOrder
<1> QED
  BY <1>1, <1>2, <1>3, <1>4, <1>5, <1>6, <1>7, <1>8 DEF HFind!User

\* The inductive invariant of the hook management window.
WindowInductive ==
    /\ WindowTypes /\ WindowExchanged /\ HFind!AlwaysHooked /\ HFind!StreamsSurviveClosing
    /\ WindowInTurn /\ ~history.mixed /\ WindowBelongs
    /\ ~FindActsWhileBusy => WindowAlone

LEMMA WindowInductiveInit == HFind!Init => WindowInductive
<1> SUFFICES ASSUME HFind!Init PROVE WindowInductive
  OBVIOUS
<1>1. WindowTypes
  BY WindowTypesInit
<1>2. /\ Len(asks) = 0 /\ Len(found) = 0 /\ searches = {} /\ game.id = 0 /\ pending = {}
      /\ ~dialog.open /\ ~history.strayed /\ ~history.mixed /\ ~history.hooked
      /\ selected = HFind!NoChoice /\ found = << >>
  BY DEF HFind!Init, HFind!Closed
<1>3. WindowExchanged /\ HFind!AlwaysHooked /\ WindowInTurn
  BY <1>2 DEF WindowExchanged, HFind!AlwaysHooked, WindowInTurn, WindowInTurnOf, WindowSettled
<1>4. HFind!StreamsSurviveClosing
  BY DEF HFind!Init, HFind!Closed, HFind!EmptyView, HFind!StreamsSurviveClosing
<1>5. WindowBelongs
  BY <1>2 DEF WindowBelongs, WindowBoundFirst, WindowMeantFor
<1>6. WindowAlone
  BY <1>2 DEF WindowAlone, WindowOneConnection, WindowInOrder, WindowOneSearch, WindowAnyOf,
              WindowOnlyOne, WindowBoundFirst, WindowFound, HFind!NoResultOfEarlierSearch
<1> QED
  BY <1>1, <1>2, <1>3, <1>4, <1>5, <1>6 DEF WindowInductive

LEMMA WindowInductiveStep == WindowInductive /\ [HFind!Next]_HFind!vars => WindowInductive'
<1> SUFFICES ASSUME WindowInductive, [HFind!Next]_HFind!vars PROVE WindowInductive'
  OBVIOUS
<1>0. /\ WindowTypes /\ WindowExchanged /\ HFind!AlwaysHooked /\ HFind!StreamsSurviveClosing
      /\ WindowInTurn /\ ~history.mixed /\ WindowBelongs
  BY DEF WindowInductive
<1>1. WindowTypes' /\ HFind!StreamsSurviveClosing'
  BY <1>0, WindowTypesStep, WindowStreamsStep
<1>2. WindowExchanged' /\ HFind!AlwaysHooked'
  BY <1>0, WindowHookedStep
<1>3. WindowInTurn' /\ ~history'.mixed
  BY <1>0, WindowTurnStep
<1>4. WindowBelongs'
  <2>1. CASE UNCHANGED HFind!vars
    BY <1>0, <2>1 DEF HFind!vars, WindowBelongs, WindowKnows
  <2> QED
    BY <1>0, <2>1, WindowBelongsBackend, WindowBelongsEvent, WindowBelongsUser DEF HFind!Next
<1>5. ASSUME ~FindActsWhileBusy PROVE WindowAlone'
  <2>0. WindowAlone
    BY <1>5 DEF WindowInductive
  <2>1. CASE HFind!Backend
    BY <1>0, <2>0, <2>1, WindowAloneAttach, WindowAloneTake, WindowAloneGame DEF HFind!Backend
  <2>2. CASE HFind!HandleEvent
    BY <1>0, <2>0, <2>2, WindowAloneEvent
  <2>3. CASE HFind!User
    BY <1>0, <1>5, <2>0, <2>3, WindowAloneUser
  <2>4. CASE UNCHANGED HFind!vars
    BY <2>0, <2>4
       DEF HFind!vars, WindowAlone, WindowOneConnection, WindowInOrder, WindowOneSearch,
           HFind!NoResultOfEarlierSearch
  <2> QED
    BY <2>1, <2>2, <2>3, <2>4 DEF HFind!Next
<1> QED
  BY <1>1, <1>2, <1>3, <1>4, <1>5 DEF WindowInductive

\* The window is in its invariant whenever it takes its own steps, whatever runs beside it.
LEMMA WindowInvariant == HFind!Spec => []WindowInductive
BY WindowInductiveInit, WindowInductiveStep, PTL DEF HFind!Spec
=============================================================================
