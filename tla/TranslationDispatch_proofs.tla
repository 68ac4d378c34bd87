---------------------- MODULE TranslationDispatch_proofs ----------------------
(***************************************************************************)
(* Proofs about the translation dispatcher, for any number of windows,     *)
(* requests, stored responses and permits.                                 *)
(***************************************************************************)
EXTENDS TranslationDispatch, FiniteSetTheorems, TLAPS

-----------------------------------------------------------------------------
(* Permits and types                                                       *)

Holders == {id \in Ids \ LocalEngine : phase[id] = "translating"}

(* Every permit is free or held by one HTTP task whose engine call runs. *)
PermitsConserved == permits + Cardinality(Holders) = HttpPermits

(* Sets of ids can be counted. *)
LEMMA IdsFinite ==
  ASSUME NEW S \in SUBSET Ids
  PROVE  IsFiniteSet(S) /\ Cardinality(S) \in Nat
<1>1. IsFiniteSet(Ids)
  BY DispatchAssumption, FS_Interval DEF Ids
<1>2. IsFiniteSet(S)
  BY <1>1, FS_Subset
<1> QED
  BY <1>2, FS_CardinalityType

(* One task more or less among the holders changes their number by one. *)
LEMMA HoldersStep ==
  ASSUME TypeOK, NEW id \in Ids, NEW p,
         phase' = [phase EXCEPT ![id] = p]
  PROVE  /\ (id \notin LocalEngine /\ phase[id] # "translating" /\ p = "translating"
               => Cardinality(Holders') = Cardinality(Holders) + 1)
         /\ (id \notin LocalEngine /\ phase[id] = "translating" /\ p # "translating"
               => Cardinality(Holders') = Cardinality(Holders) - 1)
         /\ (id \in LocalEngine \/ (phase[id] = "translating" <=> p = "translating")
               => Holders' = Holders)
<1>1. IsFiniteSet(Holders) /\ Cardinality(Holders) \in Nat
  BY IdsFinite DEF Holders
<1>2. ASSUME id \notin LocalEngine, phase[id] # "translating", p = "translating"
      PROVE  Cardinality(Holders') = Cardinality(Holders) + 1
  <2>1. Holders' = Holders \union {id} /\ id \notin Holders
    BY <1>2 DEF Holders, TypeOK
  <2> QED
    BY <2>1, <1>1, FS_AddElement
<1>3. ASSUME id \notin LocalEngine, phase[id] = "translating", p # "translating"
      PROVE  Cardinality(Holders') = Cardinality(Holders) - 1
  <2>1. Holders' = Holders \ {id} /\ id \in Holders
    BY <1>3 DEF Holders, TypeOK
  <2> QED
    BY <2>1, <1>1, FS_RemoveElement
<1>4. ASSUME id \in LocalEngine \/ (phase[id] = "translating" <=> p = "translating")
      PROVE  Holders' = Holders
  BY <1>4 DEF Holders, TypeOK
<1> QED
  BY <1>2, <1>3, <1>4

(* A step that changes no phase to or from "translating" and no permit     *)
(* conserves the permits.                                                  *)
LEMMA PermitsUntouched ==
  ASSUME TypeOK, PermitsConserved, UNCHANGED permits,
         Holders' = Holders
  PROVE  PermitsConserved'
BY DEF PermitsConserved

(* The bound of permits follows from their conservation. *)
LEMMA PermitsBounded ==
  ASSUME PermitsConserved', permits' \in Nat
  PROVE  permits' \in 0..HttpPermits
<1>1. Cardinality(Holders') \in Nat
  BY IdsFinite DEF Holders
<1> QED
  BY <1>1, DispatchAssumption DEF PermitsConserved

(* Ids not handed out are unused, the id of the call under way is "calling", *)
(* and the id that holds the routes lock is "notifying".                     *)
PhaseInv ==
    /\ \A id \in Ids : id >= next_id => phase[id] = "unused"
    /\ caller # "idle" => Calling \in Ids /\ phase[Calling] = "calling"
    /\ notifying # 0 => phase[notifying] = "notifying"

TypeInv == TypeOK /\ PermitsConserved /\ PhaseInv

(* The phases by name, so that Phase need not be expanded below. *)
LEMMA PhaseValues ==
  {"unused", "calling", "queued", "waiting", "translating", "finished", "notifying",
   "answered", "unnotified", "superseded", "refused", "lost"} \subseteq Phase
BY DEF Phase, Open, Settled

\* At first all permits are free and no id is handed out.
LEMMA InitTypeInv == Init => TypeInv
<1> SUFFICES ASSUME Init PROVE TypeInv
  OBVIOUS
<1>1. TypeOK
  BY DispatchAssumption DEF Init, TypeOK, Ids, Job, NoJob, Phase
<1>2. Holders = {}
  BY DEF Init, Holders
<1>3. Cardinality(Holders) = 0
  BY <1>2, FS_EmptySet
<1>4. PermitsConserved
  BY <1>3, DispatchAssumption DEF Init, PermitsConserved
<1>5. PhaseInv
  BY DEF Init, PhaseInv
<1> QED
  BY <1>1, <1>4, <1>5 DEF TypeInv

(* Types, phases and permits are preserved by every step. *)
LEMMA StepTypeInv == TypeInv /\ [Next]_vars => TypeInv'
<1> SUFFICES ASSUME TypeOK, PermitsConserved, PhaseInv, [Next]_vars
             PROVE  TypeOK' /\ PermitsConserved' /\ PhaseInv'
  BY DEF TypeInv
<1> USE DispatchAssumption DEF requestVars, slotVars, storeVars, workerVars, windowVars
<1>1. ASSUME NEW t \in Target, BeginRequest(t)
      PROVE  TypeOK' /\ PermitsConserved' /\ PhaseInv'
  <2> DEFINE slot == IF routes[t] = 0 THEN next_id ELSE routes[t]
  <2>1. next_id \in Ids /\ slot \in Ids /\ next_id + 1 \in 1..(MaxRequests + 1)
    BY <1>1 DEF BeginRequest, TypeOK, Ids
  <2>2. job' \in [Ids -> Job]
    BY <1>1, <2>1 DEF BeginRequest, TypeOK, Ids, Job
  <2>3. TypeOK'
    <3>1. phase' \in [Ids -> Phase]
      BY <1>1, PhaseValues DEF BeginRequest, TypeOK
    <3>2. routes' \in [Target -> 0..MaxRequests] /\ latest' \in [Ids -> 0..MaxRequests]
      BY <1>1, <2>1 DEF BeginRequest, TypeOK, Ids
    <3> QED
      BY <1>1, <2>1, <2>2, <3>1, <3>2 DEF BeginRequest, TypeOK
  <2>4. phase[next_id] = "unused"
    BY <2>1 DEF PhaseInv, TypeOK, Ids
  <2>5. Holders' = Holders
    BY <1>1, <2>1, <2>4 DEF BeginRequest, Holders, TypeOK
  <2>6. PhaseInv'
    BY <1>1, <2>1, <2>4 DEF BeginRequest, PhaseInv, Calling, TypeOK, Ids
  <2> QED
    BY <1>1, <2>3, <2>5, <2>6, PermitsUntouched DEF BeginRequest
<1>2. CASE PublishLatest
  <2>1. Calling \in Ids
    BY <1>2 DEF PublishLatest, PhaseInv
  <2>2. watch' \in [Ids -> 0..MaxRequests]
    <3>1. Calling \in 0..MaxRequests
      BY <2>1 DEF Ids
    <3> QED
      BY <1>2, <3>1 DEF PublishLatest, TypeOK
  <2>3. TypeOK'
    BY <1>2, <2>2 DEF PublishLatest, TypeOK
  <2>4. PhaseInv'
    BY <1>2 DEF PublishLatest, PhaseInv, Calling
  <2> QED
    BY <1>2, <2>3, <2>4, PermitsUntouched DEF PublishLatest, Holders
<1>3. CASE SendJob
  <2>1. Calling \in Ids /\ phase[Calling] = "calling"
    BY <1>3 DEF SendJob, PhaseInv
  <2>2. Holders' = Holders
    BY <1>3, <2>1 DEF SendJob, Holders, TypeOK
  <2>3. phase' \in [Ids -> Phase]
    BY <1>3, PhaseValues DEF SendJob, TypeOK
  <2>5. TypeOK'
    BY <1>3, <2>3 DEF SendJob, TypeOK
  <2>6. PhaseInv'
    BY <1>3, <2>1 DEF SendJob, PhaseInv, Calling, TypeOK, Ids
  <2> QED
    BY <1>3, <2>2, <2>5, <2>6, PermitsUntouched DEF SendJob
<1>4. CASE RefuseJob
  <2>1. Calling \in Ids /\ phase[Calling] = "calling"
    BY <1>4 DEF RefuseJob, PhaseInv
  <2>2. Holders' = Holders
    BY <1>4, <2>1 DEF RefuseJob, Holders, TypeOK
  <2>3. phase' \in [Ids -> Phase]
    BY <1>4, PhaseValues DEF RefuseJob, TypeOK
  <2>4. latest' \in [Ids -> 0..MaxRequests] /\ watch' \in [Ids -> 0..MaxRequests]
    <3>1. 0 \in 0..MaxRequests
      OBVIOUS
    <3> QED
      BY <1>4, <3>1 DEF RefuseJob, TypeOK
  <2>5. TypeOK'
    BY <1>4, <2>3, <2>4 DEF RefuseJob, TypeOK
  <2>6. PhaseInv'
    BY <1>4, <2>1 DEF RefuseJob, PhaseInv, Calling, TypeOK, Ids
  <2> QED
    BY <1>4, <2>2, <2>5, <2>6, PermitsUntouched DEF RefuseJob
<1>5. ASSUME NEW t \in Target, Cancel(t)
      PROVE  TypeOK' /\ PermitsConserved' /\ PhaseInv'
  <2>1. TypeOK' /\ PhaseInv'
    BY <1>5 DEF Cancel, Unregister, DropTarget, TypeOK, PhaseInv, Calling
  <2> QED
    BY <1>5, <2>1, PermitsUntouched DEF Cancel, Holders
<1>6. ASSUME NEW t \in Target, CloseWindow(t)
      PROVE  TypeOK' /\ PermitsConserved' /\ PhaseInv'
  <2>1. TypeOK' /\ PhaseInv'
    BY <1>6 DEF CloseWindow, Unregister, DropTarget, TypeOK, PhaseInv, Calling
  <2> QED
    BY <1>6, <2>1, PermitsUntouched DEF CloseWindow, Holders
<1>7. ASSUME NEW t \in Target, ReuseHandle(t)
      PROVE  TypeOK' /\ PermitsConserved' /\ PhaseInv'
  <2>1. TypeOK' /\ PhaseInv'
    BY <1>7 DEF ReuseHandle, TypeOK, PhaseInv, Calling
  <2> QED
    BY <1>7, <2>1, PermitsUntouched DEF ReuseHandle, Holders
<1>8. ASSUME NEW t \in Target, HandleComplete(t)
      PROVE  TypeOK' /\ PermitsConserved' /\ PhaseInv'
  <2>1. TypeOK'
    <3>1. posted' \in [Target -> Nat]
      BY <1>8 DEF HandleComplete, TypeOK
    <3>2. CASE UNCHANGED <<place, taken>>
      BY <1>8, <3>1, <3>2 DEF HandleComplete, TypeOK
    <3>3. ASSUME NEW id \in StoredFor(t),
                 place' = [place EXCEPT ![id] = 0], taken' = [taken EXCEPT ![t] = id]
          PROVE  TypeOK'
      <4>1. id \in 0..MaxRequests
        BY DEF StoredFor, Stored, Ids
      <4>2. place' \in [Ids -> Nat] /\ taken' \in [Target -> 0..MaxRequests]
        BY <3>3, <4>1 DEF TypeOK
      <4> QED
        BY <1>8, <3>1, <4>2 DEF HandleComplete, TypeOK
    <3> QED
      BY <1>8, <3>2, <3>3 DEF HandleComplete
  <2>2. PhaseInv'
    BY <1>8 DEF HandleComplete, PhaseInv, Calling
  <2> QED
    BY <1>8, <2>1, <2>2, PermitsUntouched DEF HandleComplete, Holders
<1>9. CASE Shutdown
  <2>1. TypeOK' /\ PhaseInv'
    BY <1>9 DEF Shutdown, TypeOK, PhaseInv, Calling
  <2> QED
    BY <1>9, <2>1, PermitsUntouched DEF Shutdown, Holders
<1>10. CASE StartWorker
  <2>1. TypeOK'
    <3>1. phase' \in [Ids -> Phase]
      BY <1>10, PhaseValues DEF StartWorker, TypeOK
    <3> QED
      BY <1>10, <3>1 DEF StartWorker, TypeOK
  <2>3. PhaseInv'
    <3>1. notifying # 0 => notifying \in Ids
      BY DEF TypeOK, Ids
    <3>2. \A id \in Ids : phase[id] # "queued" => phase'[id] = phase[id]
      BY <1>10 DEF StartWorker, Queued
    <3>3. UNCHANGED <<requestVars, notifying, caller>>
      BY <1>10 DEF StartWorker
    <3>4. \A id \in Ids : phase[id] \in {"unused", "calling", "notifying"}
                          => phase'[id] = phase[id]
      BY <3>2
    <3> QED
      BY <3>1, <3>3, <3>4 DEF PhaseInv, Calling
  <2>2. Holders' = Holders
    BY <1>10 DEF StartWorker, Queued, Holders
  <2> QED
    BY <1>10, <2>1, <2>2, <2>3, PermitsUntouched DEF StartWorker
<1>11. CASE ReceiveJob
  <2> PICK id \in Queued : phase' = [phase EXCEPT ![id] =
                 IF latest[job[id].slot] # id THEN "superseded" ELSE "waiting"]
    BY <1>11 DEF ReceiveJob
  <2>1. id \in Ids /\ phase[id] = "queued"
    BY DEF Queued
  <2>2. TypeOK' /\ PhaseInv'
    <3>1. phase' \in [Ids -> Phase]
      BY <2>1, PhaseValues DEF TypeOK
    <3>2. TypeOK'
      BY <1>11, <3>1 DEF ReceiveJob, TypeOK
    <3>3. PhaseInv'
      BY <1>11, <2>1 DEF ReceiveJob, PhaseInv, Calling, TypeOK, Ids
    <3> QED
      BY <3>2, <3>3
  <2>3. Holders' = Holders
    BY <2>1 DEF Holders, TypeOK
  <2> QED
    BY <1>11, <2>2, <2>3, PermitsUntouched DEF ReceiveJob
<1>12. CASE StopWorker
  <2>1. PhaseInv'
    BY <1>12 DEF StopWorker, PhaseInv, Calling, TypeOK, Ids
  <2>2. Holders' = {} /\ Holders = {id \in Ids \ LocalEngine : phase[id] = "translating"}
    BY <1>12 DEF StopWorker, Holders
  <2>3. Cardinality(Holders') = 0 /\ Cardinality(Holders) \in Nat
    BY <2>2, FS_EmptySet, IdsFinite DEF Holders
  <2>4. permits' = permits + Cardinality(Holders)
    BY <1>12, <2>2 DEF StopWorker
  <2>5. PermitsConserved' /\ permits' \in 0..HttpPermits
    BY <2>3, <2>4 DEF PermitsConserved, TypeOK
  <2>6. TypeOK'
    BY <1>12, <2>5, PhaseValues DEF StopWorker, TypeOK
  <2> QED
    BY <2>1, <2>5, <2>6
<1>13. ASSUME NEW id \in Ids, StartEngine(id)
       PROVE  TypeOK' /\ PermitsConserved' /\ PhaseInv'
  <2>1. phase' \in [Ids -> Phase]
    BY <1>13, PhaseValues DEF StartEngine, TypeOK
  <2>2. PermitsConserved' /\ permits' \in Nat
    <3>1. CASE id \in LocalEngine
      <4>1. Holders' = Holders /\ permits' = permits
        BY <1>13, <3>1 DEF StartEngine, Holders, TypeOK
      <4> QED
        BY <4>1, PermitsUntouched DEF TypeOK
    <3>2. CASE id \notin LocalEngine
      <4>1. permits' = permits - 1 /\ permits > 0
        BY <1>13, <3>2 DEF StartEngine
      <4>2. Cardinality(Holders') = Cardinality(Holders) + 1
        BY <1>13, <3>2, HoldersStep DEF StartEngine
      <4>3. Cardinality(Holders) \in Nat
        BY IdsFinite DEF Holders
      <4> QED
        BY <4>1, <4>2, <4>3 DEF PermitsConserved, TypeOK
    <3> QED
      BY <3>1, <3>2
  <2>3. TypeOK'
    BY <1>13, <2>1, <2>2, PermitsBounded DEF StartEngine, TypeOK
  <2>4. PhaseInv'
    BY <1>13 DEF StartEngine, PhaseInv, Calling, TypeOK, Ids
  <2> QED
    BY <2>2, <2>3, <2>4
<1>14. ASSUME NEW id \in Ids, FinishEngine(id) \/ GiveUp(id)
       PROVE  TypeOK' /\ PermitsConserved' /\ PhaseInv'
  <2>1. PICK p \in {"finished", "superseded"} : phase' = [phase EXCEPT ![id] = p]
    BY <1>14 DEF FinishEngine, GiveUp
  <2>2. phase' \in [Ids -> Phase]
    BY <2>1, PhaseValues DEF TypeOK
  <2>3. Release(id) /\ phase[id] \in {"waiting", "translating"}
    BY <1>14 DEF FinishEngine, GiveUp
  <2>4. PermitsConserved' /\ permits' \in Nat
    <3>1. CASE id \in LocalEngine \/ phase[id] = "waiting"
      <4>1. Holders' = Holders /\ permits' = permits
        BY <2>1, <2>3, <3>1 DEF Release, Holders, TypeOK
      <4> QED
        BY <4>1, PermitsUntouched DEF TypeOK
    <3>2. CASE id \notin LocalEngine /\ phase[id] = "translating"
      <4>1. permits' = permits + 1
        BY <2>3, <3>2 DEF Release
      <4>2. Cardinality(Holders') = Cardinality(Holders) - 1
        BY <2>1, <3>2, HoldersStep
      <4>3. Cardinality(Holders) \in Nat
        BY IdsFinite DEF Holders
      <4> QED
        BY <4>1, <4>2, <4>3 DEF PermitsConserved, TypeOK
    <3> QED
      BY <2>3, <3>1, <3>2
  <2>5. TypeOK'
    <3>1. UNCHANGED <<requestVars, slotVars, storeVars, notifying, sender, worker,
                      windowVars, caller>>
      BY <1>14 DEF FinishEngine, GiveUp
    <3> QED
      BY <3>1, <2>2, <2>4, PermitsBounded DEF TypeOK
  <2>6. PhaseInv'
    <3>1. UNCHANGED <<requestVars, notifying, caller>>
      BY <1>14 DEF FinishEngine, GiveUp
    <3>2. notifying # 0 => notifying \in Ids
      BY DEF TypeOK, Ids
    <3>3. \A r \in Ids : phase[r] \in {"unused", "calling", "notifying"}
                         => phase'[r] = phase[r]
      BY <2>1, <2>3 DEF TypeOK
    <3> QED
      BY <3>1, <3>2, <3>3 DEF PhaseInv, Calling
  <2> QED
    BY <2>4, <2>5, <2>6
<1>15. ASSUME NEW id \in Ids, RouteResponse(id)
       PROVE  TypeOK' /\ PermitsConserved' /\ PhaseInv'
  <2>1. PICK p \in {"superseded", "notifying"} : phase' = [phase EXCEPT ![id] = p]
    BY <1>15 DEF RouteResponse
  <2>2. phase' \in [Ids -> Phase] /\ Holders' = Holders
    BY <1>15, <2>1, PhaseValues DEF RouteResponse, TypeOK, Holders
  <2>3. place' \in [Ids -> Nat] /\ pushes' \in Nat
    <3>1. CASE UNCHANGED storeVars
      BY <3>1 DEF TypeOK
    <3>2. CASE PushResponse(id)
      BY <3>2 DEF PushResponse, TypeOK
    <3> QED
      BY <1>15, <3>1, <3>2 DEF RouteResponse
  <2>4. TypeOK'
    <3>1. notifying' \in 0..MaxRequests
      BY <1>15 DEF RouteResponse, TypeOK, Ids
    <3> QED
      BY <1>15, <2>2, <2>3, <3>1 DEF RouteResponse, TypeOK
  <2>5. PhaseInv'
    BY <1>15 DEF RouteResponse, PhaseInv, Calling, TypeOK, Ids
  <2> QED
    BY <1>15, <2>2, <2>4, <2>5, PermitsUntouched DEF RouteResponse
<1>16. ASSUME NEW id \in Ids, NotifyTarget(id) \/ FailNotify(id)
       PROVE  TypeOK' /\ PermitsConserved' /\ PhaseInv'
  <2>1. PICK p \in {"answered", "unnotified"} : phase' = [phase EXCEPT ![id] = p]
    BY <1>16 DEF NotifyTarget, FailNotify
  <2>2. phase[id] = "notifying" /\ notifying' = 0
    BY <1>16 DEF NotifyTarget, FailNotify, PhaseInv, Ids
  <2>3. phase' \in [Ids -> Phase] /\ Holders' = Holders
    BY <2>1, <2>2, PhaseValues DEF TypeOK, Holders
  <2>4. place' \in [Ids -> Nat] /\ posted' \in [Target -> Nat]
    BY <1>16 DEF NotifyTarget, FailNotify, TypeOK
  <2>5. UNCHANGED <<requestVars, slotVars, pushes, permits, sender, worker, alive,
                    taken, caller>>
    BY <1>16 DEF NotifyTarget, FailNotify
  <2>6. TypeOK'
    BY <2>2, <2>3, <2>4, <2>5 DEF TypeOK
  <2>7. PhaseInv'
    BY <2>1, <2>2, <2>5 DEF PhaseInv, Calling, TypeOK, Ids
  <2> QED
    BY <2>3, <2>5, <2>6, <2>7, PermitsUntouched
<1>17. CASE UNCHANGED vars
  <2>1. TypeOK' /\ PhaseInv'
    BY <1>17 DEF vars, TypeOK, PhaseInv, Calling
  <2> QED
    BY <1>17, <2>1, PermitsUntouched DEF vars, Holders
<1> QED
  BY <1>1, <1>2, <1>3, <1>4, <1>5, <1>6, <1>7, <1>8, <1>9, <1>10, <1>11, <1>12,
     <1>13, <1>14, <1>15, <1>16, <1>17 DEF Next, UiThread, WorkerThread, Task

(* Every variable keeps its type; in particular no path of a task gives    *)
(* back a permit it does not hold or more permits than there are.          *)
THEOREM TypeCorrect == Spec => []TypeOK
<1>1. TypeInv => TypeOK
  BY DEF TypeInv
<1> QED
  BY <1>1, InitTypeInv, StepTypeInv, PTL DEF Spec

\* No path of a task loses or forges a permit: those that are free and those of the tasks inside an
\* engine call are always all there are.
THEOREM PermitsNeverLost == Spec => []PermitsConserved
<1>1. TypeInv => PermitsConserved
  BY DEF TypeInv
<1> QED
  BY <1>1, InitTypeInv, StepTypeInv, PTL DEF Spec

-----------------------------------------------------------------------------
(* Registrations and the order of responses                                *)

(* Ids are handed out once; the slot of a job was created by a request of  *)
(* the same target, not later than the job.                                *)
JobInv ==
    \A id \in Ids :
        /\ id >= next_id => job[id] = NoJob /\ place[id] = 0
        /\ id < next_id => /\ job[id].target \in Target
                           /\ job[id].slot \in 1..id
                           /\ job[job[id].slot].target = job[id].target

(* The map leads a target to a slot of its own, and a slot whose latest_id *)
(* is set is the registered one of its target; that id is then the newest  *)
(* of all the target's requests, also those of earlier registrations.      *)
SlotInv ==
    /\ \A t \in Target : routes[t] # 0 => /\ routes[t] < next_id
                                          /\ job[routes[t]].target = t
    /\ \A s \in Ids : latest[s] # 0 =>
          /\ latest[s] < next_id
          /\ job[latest[s]].slot = s
          /\ routes[job[latest[s]].target] = s
          /\ \A id \in Ids : id < next_id /\ job[id].target = job[latest[s]].target
                                 => id <= latest[s]
    /\ caller # "idle" => latest[job[Calling].slot] = Calling

(* Stored responses belong to the current registration, stand in the queue *)
(* in the order of their ids, and are newer than what the target has read. *)
StoreInv ==
    /\ \A id \in Ids : place[id] # 0 =>
          /\ routes[job[id].target] = job[id].slot
          /\ phase[id] \in {"notifying", "answered"}
          /\ place[id] <= pushes
          /\ id > taken[job[id].target]
    /\ \A a, b \in Ids : place[a] # 0 /\ place[b] # 0 /\ a # b =>
          /\ place[a] # place[b]
          /\ job[a].target = job[b].target /\ a < b => place[a] < place[b]
    /\ \A t \in Target : taken[t] # 0 =>
          /\ job[taken[t]].target = t
          /\ phase[taken[t]] \in {"notifying", "answered", "unnotified"}

DispatchInv == TypeInv /\ JobInv /\ SlotInv /\ StoreInv

\* At first no slot is in the map and nothing is stored.
LEMMA InitDispatchInv == Init => DispatchInv
<1> SUFFICES ASSUME Init PROVE DispatchInv
  OBVIOUS
<1>1. JobInv
  BY DEF Init, JobInv, Ids
<1>2. SlotInv
  BY DEF Init, SlotInv
<1>3. StoreInv
  BY DEF Init, StoreInv
<1> QED
  BY <1>1, <1>2, <1>3, InitTypeInv DEF DispatchInv

(* A push gives the new response the last place and moves no other; it may *)
(* drop one response.                                                      *)
LEMMA PushPlaces ==
  ASSUME TypeOK, NEW id \in Ids, PushResponse(id)
  PROVE  /\ pushes' = pushes + 1
         /\ place'[id] \in {0, pushes + 1}
         /\ \A r \in Ids : r # id => place'[r] \in {0, place[r]}
BY DEF PushResponse, TypeOK

(* Only a push stores a response. *)
LEMMA OnlyPushStores ==
  ASSUME TypeOK, [Next]_vars,
         \A id \in Ids : ~RouteResponse(id)
  PROVE  pushes' = pushes /\ \A r \in Ids : place'[r] \in {0, place[r]}
<1> USE DEF requestVars, slotVars, storeVars, workerVars, windowVars
<1>1. ASSUME NEW t \in Target,
             BeginRequest(t) \/ ReuseHandle(t)
      PROVE  UNCHANGED storeVars
  BY <1>1 DEF BeginRequest, ReuseHandle
<1>2. ASSUME NEW t \in Target, Cancel(t) \/ CloseWindow(t)
      PROVE  pushes' = pushes /\ \A r \in Ids : place'[r] \in {0, place[r]}
  BY <1>2 DEF Cancel, CloseWindow, Unregister, DropTarget
<1>3. ASSUME NEW t \in Target, HandleComplete(t)
      PROVE  pushes' = pushes /\ \A r \in Ids : place'[r] \in {0, place[r]}
  BY <1>3 DEF HandleComplete, TypeOK
<1>4. ASSUME PublishLatest \/ SendJob \/ RefuseJob \/ Shutdown
      PROVE  UNCHANGED storeVars
  BY <1>4 DEF PublishLatest, SendJob, RefuseJob, Shutdown
<1>5. ASSUME WorkerThread
      PROVE  UNCHANGED storeVars
  BY <1>5 DEF WorkerThread, StartWorker, ReceiveJob, StopWorker
<1>6. ASSUME NEW id \in Ids, StartEngine(id) \/ FinishEngine(id) \/ GiveUp(id)
                             \/ NotifyTarget(id)
      PROVE  UNCHANGED storeVars
  BY <1>6 DEF StartEngine, FinishEngine, GiveUp, NotifyTarget
<1>7. ASSUME NEW id \in Ids, FailNotify(id)
      PROVE  pushes' = pushes /\ \A r \in Ids : place'[r] \in {0, place[r]}
  BY <1>7 DEF FailNotify, TypeOK
<1>8. CASE UNCHANGED vars
  BY <1>8 DEF vars
<1>9. UNCHANGED storeVars => pushes' = pushes /\ \A r \in Ids : place'[r] \in {0, place[r]}
  OBVIOUS
<1> QED
  BY <1>1, <1>2, <1>3, <1>4, <1>5, <1>6, <1>7, <1>8, <1>9 DEF Next, UiThread, Task

(* Only the UI thread's request hands out ids and fills in jobs. *)
LEMMA OnlyRequestsChangeJobs ==
  ASSUME [Next]_vars, \A t \in Target : ~BeginRequest(t)
  PROVE  UNCHANGED requestVars
<1>1. ASSUME NEW t \in Target,
             Cancel(t) \/ CloseWindow(t) \/ ReuseHandle(t) \/ HandleComplete(t)
      PROVE  UNCHANGED requestVars
  BY <1>1 DEF Cancel, CloseWindow, ReuseHandle, HandleComplete
<1>2. ASSUME PublishLatest \/ SendJob \/ RefuseJob \/ Shutdown \/ WorkerThread
      PROVE  UNCHANGED requestVars
  BY <1>2 DEF PublishLatest, SendJob, RefuseJob, Shutdown, WorkerThread, StartWorker,
              ReceiveJob, StopWorker
<1>3. ASSUME NEW id \in Ids, Task(id)
      PROVE  UNCHANGED requestVars
  BY <1>3 DEF Task, StartEngine, FinishEngine, GiveUp, RouteResponse, NotifyTarget,
              FailNotify
<1>4. CASE UNCHANGED vars
  BY <1>4 DEF vars
<1> QED
  BY <1>1, <1>2, <1>3, <1>4 DEF Next, UiThread

\* Every action keeps the jobs named by the slots they were made for.
LEMMA StepJobInv == DispatchInv /\ [Next]_vars => JobInv'
<1> SUFFICES ASSUME DispatchInv, [Next]_vars
             PROVE  JobInv'
  OBVIOUS
<1> USE DEF DispatchInv, TypeInv
<1>1. ASSUME NEW t \in Target, BeginRequest(t)
      PROVE  JobInv'
  <2> DEFINE slot == IF routes[t] = 0 THEN next_id ELSE routes[t]
  <2>1. /\ next_id \in Ids /\ next_id' = next_id + 1 /\ UNCHANGED place
        /\ job' = [job EXCEPT ![next_id] = [target |-> t, slot |-> slot]]
    BY <1>1 DEF BeginRequest, TypeOK, Ids, storeVars
  <2>2. slot \in 1..next_id /\ (slot # next_id => slot \in Ids /\ job[slot].target = t)
    BY <2>1 DEF SlotInv, TypeOK, Ids
  <2>3. /\ job'[next_id].target = t /\ job'[next_id].slot = slot
        /\ \A id \in Ids : id # next_id => job'[id] = job[id]
    BY <2>1 DEF TypeOK
  <2>4. job'[slot].target = t
    BY <2>2, <2>3
  <2>5. ASSUME NEW id \in Ids, id < next_id
        PROVE  job[id].slot \in Ids /\ job[id].slot # next_id
    <3>1. job[id].slot \in 1..id
      BY <2>5 DEF JobInv
    <3> QED
      BY <2>1, <2>5, <3>1, DispatchAssumption DEF Ids
  <2> SUFFICES ASSUME NEW id \in Ids
               PROVE  /\ id >= next_id' => job'[id] = NoJob /\ place'[id] = 0
                      /\ id < next_id' => /\ job'[id].target \in Target
                                          /\ job'[id].slot \in 1..id
                                          /\ job'[job'[id].slot].target = job'[id].target
    BY DEF JobInv
  <2>6. CASE id = next_id
    BY <2>1, <2>2, <2>3, <2>4, <2>6 DEF TypeOK, Ids
  <2>7. CASE id > next_id
    BY <2>1, <2>3, <2>7 DEF JobInv, TypeOK, Ids
  <2>8. CASE id < next_id
    <3>1. job'[job[id].slot] = job[job[id].slot] /\ job'[id] = job[id]
      BY <2>3, <2>5, <2>8 DEF TypeOK, Ids
    <3> QED
      BY <2>1, <2>8, <3>1 DEF JobInv, TypeOK, Ids
  <2> QED
    BY <2>6, <2>7, <2>8 DEF TypeOK, Ids
<1>2. ASSUME NEW id \in Ids, RouteResponse(id)
      PROVE  JobInv'
  <2>1. UNCHANGED requestVars
    BY <1>2 DEF RouteResponse
  <2>2. id < next_id
    BY <1>2 DEF RouteResponse, PhaseInv, TypeOK, Ids
  <2>3. \A r \in Ids : r # id => place'[r] \in {0, place[r]}
    BY <1>2, PushPlaces DEF RouteResponse, storeVars
  <2> QED
    BY <2>1, <2>2, <2>3 DEF JobInv, requestVars, TypeOK, Ids
<1>3. CASE /\ \A t \in Target : ~BeginRequest(t)
           /\ \A id \in Ids : ~RouteResponse(id)
  BY <1>3, OnlyPushStores, OnlyRequestsChangeJobs DEF JobInv, requestVars
<1> QED
  BY <1>1, <1>2, <1>3

(* Only five steps of the UI thread touch the slots. *)
LEMMA OnlyCallsChangeSlots ==
  ASSUME [Next]_vars, ~PublishLatest, ~SendJob, ~RefuseJob,
         \A t \in Target : ~BeginRequest(t) /\ ~Cancel(t) /\ ~CloseWindow(t)
  PROVE  UNCHANGED <<requestVars, slotVars, caller>>
<1>1. ASSUME NEW t \in Target, ReuseHandle(t) \/ HandleComplete(t)
      PROVE  UNCHANGED <<requestVars, slotVars, caller>>
  BY <1>1 DEF ReuseHandle, HandleComplete
<1>2. ASSUME Shutdown \/ WorkerThread
      PROVE  UNCHANGED <<requestVars, slotVars, caller>>
  BY <1>2 DEF Shutdown, WorkerThread, StartWorker, ReceiveJob, StopWorker
<1>3. ASSUME NEW id \in Ids, Task(id)
      PROVE  UNCHANGED <<requestVars, slotVars, caller>>
  BY <1>3 DEF Task, StartEngine, FinishEngine, GiveUp, RouteResponse, NotifyTarget,
              FailNotify
<1>4. CASE UNCHANGED vars
  BY <1>4 DEF vars
<1> QED
  BY <1>1, <1>2, <1>3, <1>4 DEF Next, UiThread

\* Every action keeps each slot in the map of one target, with the newest of its ids.
LEMMA StepSlotInv == DispatchInv /\ [Next]_vars => SlotInv'
<1> SUFFICES ASSUME DispatchInv, [Next]_vars
             PROVE  SlotInv'
  OBVIOUS
<1> USE DispatchAssumption DEF DispatchInv, TypeInv
<1>1. ASSUME NEW t \in Target, BeginRequest(t)
      PROVE  SlotInv'
  <2> DEFINE slot == IF routes[t] = 0 THEN next_id ELSE routes[t]
  <2>1. /\ next_id \in Ids /\ next_id' = next_id + 1
        /\ job' = [job EXCEPT ![next_id] = [target |-> t, slot |-> slot]]
        /\ routes' = [routes EXCEPT ![t] = slot]
        /\ latest' = [latest EXCEPT ![slot] = next_id]
    BY <1>1 DEF BeginRequest, TypeOK, Ids
  <2>2. slot \in Ids /\ slot <= next_id
    BY <2>1 DEF SlotInv, TypeOK, Ids
  <2>3. /\ job'[next_id].target = t /\ job'[next_id].slot = slot
        /\ \A id \in Ids : id # next_id => job'[id] = job[id]
    BY <2>1 DEF TypeOK
  <2>4. \A u \in Target : routes'[u] # 0 => routes'[u] < next_id' /\ job'[routes'[u]].target = u
    <3> SUFFICES ASSUME NEW u \in Target, routes'[u] # 0
                 PROVE  routes'[u] < next_id' /\ job'[routes'[u]].target = u
      OBVIOUS
    <3>1. CASE u = t /\ routes[t] = 0
      BY <2>1, <2>3, <3>1 DEF TypeOK, Ids
    <3>2. CASE u # t \/ routes[t] # 0
      <4>1. routes'[u] = routes[u]
        BY <2>1, <3>2 DEF TypeOK
      <4>2. routes[u] < next_id /\ job[routes[u]].target = u /\ routes[u] \in Ids
        BY <4>1 DEF SlotInv, TypeOK, Ids
      <4>3. next_id \in Nat /\ next_id' = next_id + 1 /\ routes[u] \in Nat
        BY <2>1, <4>2 DEF Ids
      <4>4. routes[u] < next_id' /\ routes[u] # next_id
        BY <4>2, <4>3
      <4>5. job'[routes[u]] = job[routes[u]]
        BY <2>3, <4>2, <4>4
      <4> QED
        BY <4>1, <4>2, <4>4, <4>5
    <3> QED
      BY <3>1, <3>2
  <2>5. ASSUME NEW s \in Ids, latest'[s] # 0
        PROVE  /\ latest'[s] < next_id'
               /\ job'[latest'[s]].slot = s
               /\ routes'[job'[latest'[s]].target] = s
               /\ \A id \in Ids : id < next_id' /\ job'[id].target = job'[latest'[s]].target
                                     => id <= latest'[s]
    <3>1. CASE s = slot
      <4>1. latest'[s] = next_id
        BY <2>1, <3>1 DEF TypeOK
      <4>2. routes'[t] = s
        BY <2>1, <3>1 DEF TypeOK
      <4>3. next_id \in Nat /\ next_id' = next_id + 1
        BY <2>1 DEF Ids
      <4>4. \A id \in Ids : id < next_id' => id <= next_id
        BY <4>3 DEF Ids
      <4> QED
        BY <2>3, <3>1, <4>1, <4>2, <4>3, <4>4
    <3>2. CASE s # slot
      <4>1. latest'[s] = latest[s] /\ latest[s] # 0
        BY <2>1, <2>5, <3>2 DEF TypeOK
      <4>2. /\ latest[s] < next_id /\ latest[s] \in Ids
            /\ job[latest[s]].slot = s
            /\ routes[job[latest[s]].target] = s
            /\ \A id \in Ids : id < next_id /\ job[id].target = job[latest[s]].target
                                  => id <= latest[s]
        <5>1. latest[s] \in 0..MaxRequests
          BY DEF TypeOK
        <5>2. latest[s] \in Ids
          BY <4>1, <5>1 DEF Ids
        <5> QED
          BY <4>1, <5>2 DEF SlotInv
      <4>3. job'[latest[s]] = job[latest[s]] /\ job[latest[s]].target \in Target
        BY <2>1, <2>3, <4>2 DEF JobInv, TypeOK, Ids
      <4>4. job[latest[s]].target # t
        BY <3>2, <4>2 DEF TypeOK, Ids
      <4>5. routes'[job[latest[s]].target] = s
        BY <2>1, <4>2, <4>3, <4>4 DEF TypeOK
      <4>6. ASSUME NEW id \in Ids, id < next_id', job'[id].target = job[latest[s]].target
            PROVE  id <= latest[s]
        <5>1. id # next_id
          BY <2>3, <4>4, <4>6
        <5> QED
          BY <2>1, <2>3, <4>2, <4>6, <5>1 DEF TypeOK, Ids
      <4>7. latest[s] < next_id'
        BY <2>1, <4>2 DEF Ids
      <4> QED
        BY <4>1, <4>2, <4>3, <4>5, <4>6, <4>7
    <3> QED
      BY <3>1, <3>2
  <2>6. latest'[job'[Calling'].slot] = Calling'
    BY <2>1, <2>2, <2>3 DEF Calling, TypeOK, Ids
  <2> QED
    BY <2>4, <2>5, <2>6 DEF SlotInv
<1>2. CASE PublishLatest \/ SendJob
  BY <1>2 DEF PublishLatest, SendJob, SlotInv, Calling, requestVars, slotVars
<1>3. CASE RefuseJob
  <2>1. UNCHANGED <<next_id, job, routes>> /\ caller' = "idle"
    BY <1>3 DEF RefuseJob, requestVars
  <2>2. \A s \in Ids : latest'[s] # 0 => latest'[s] = latest[s]
    BY <1>3 DEF RefuseJob, TypeOK
  <2> QED
    BY <2>1, <2>2 DEF SlotInv
<1>4. ASSUME NEW t \in Target, Cancel(t) \/ CloseWindow(t)
      PROVE  SlotInv'
  <2>1. Unregister(t) /\ UNCHANGED <<next_id, job, caller>> /\ caller = "idle"
    BY <1>4 DEF Cancel, CloseWindow, requestVars
  <2>2. \A u \in Target : routes'[u] # 0 => u # t /\ routes'[u] = routes[u]
    BY <2>1 DEF Unregister, TypeOK
  <2>3. \A s \in Ids : latest'[s] # 0 => s # routes[t] /\ latest'[s] = latest[s]
    BY <2>1 DEF Unregister, TypeOK
  <2>4. ASSUME NEW s \in Ids, latest'[s] # 0
        PROVE  routes'[job[latest[s]].target] = s
    <3>1. routes[job[latest[s]].target] = s /\ s # routes[t]
      BY <2>3, <2>4 DEF SlotInv
    <3>2. job[latest[s]].target \in Target
      BY <2>3, <2>4 DEF SlotInv, JobInv, TypeOK, Ids
    <3> QED
      BY <2>1, <3>1, <3>2 DEF Unregister, TypeOK
  <2> QED
    BY <2>1, <2>2, <2>3, <2>4 DEF SlotInv
<1>5. CASE /\ ~PublishLatest /\ ~SendJob /\ ~RefuseJob
           /\ \A t \in Target : ~BeginRequest(t) /\ ~Cancel(t) /\ ~CloseWindow(t)
  BY <1>5, OnlyCallsChangeSlots DEF SlotInv, Calling, requestVars, slotVars
<1> QED
  BY <1>1, <1>2, <1>3, <1>4, <1>5

Responded == {"notifying", "answered", "unnotified"}

(* A step that leaves the store, the slots of targets and the jobs alone,  *)
(* and the phase of every id that has been responded to.                   *)
LEMMA StoreUntouched ==
  ASSUME DispatchInv,
         UNCHANGED <<place, pushes, taken, routes, job>>,
         \A id \in Ids : phase[id] \in Responded => phase'[id] = phase[id]
  PROVE  StoreInv'
<1>1. \A t \in Target : taken[t] # 0 => taken[t] \in Ids
  BY DEF DispatchInv, TypeInv, TypeOK, Ids
<1> QED
  BY <1>1 DEF DispatchInv, StoreInv, Responded

\* Every action keeps what is stored current, in order and unread.
LEMMA StepStoreInv == DispatchInv /\ [Next]_vars => StoreInv'
<1> SUFFICES ASSUME DispatchInv, [Next]_vars
             PROVE  StoreInv'
  OBVIOUS
<1> USE DispatchAssumption DEF DispatchInv, TypeInv
<1>1. ASSUME NEW t \in Target, BeginRequest(t)
      PROVE  StoreInv'
  <2> DEFINE slot == IF routes[t] = 0 THEN next_id ELSE routes[t]
  <2>1. /\ next_id \in Ids /\ UNCHANGED <<place, pushes, taken>>
        /\ job' = [job EXCEPT ![next_id] = [target |-> t, slot |-> slot]]
        /\ routes' = [routes EXCEPT ![t] = slot]
        /\ phase' = [phase EXCEPT ![next_id] = "calling"]
    BY <1>1 DEF BeginRequest, TypeOK, Ids, storeVars, windowVars
  <2>2. \A id \in Ids : id # next_id => job'[id] = job[id] /\ phase'[id] = phase[id]
    BY <2>1 DEF TypeOK
  <2>3. ASSUME NEW id \in Ids, place[id] # 0
        PROVE  /\ id # next_id /\ job'[id] = job[id]
               /\ routes'[job[id].target] = routes[job[id].target]
    <3>1. id < next_id /\ id # next_id
      BY <2>1, <2>3 DEF JobInv, TypeOK, Ids
    <3>2. job[id].target \in Target /\ job[id].slot # 0
      BY <3>1 DEF JobInv, Ids
    <3>3. routes[job[id].target] = job[id].slot
      BY <2>3 DEF StoreInv
    <3> QED
      BY <2>1, <2>2, <3>1, <3>2, <3>3 DEF TypeOK
  <2>4. ASSUME NEW u \in Target, taken[u] # 0
        PROVE  taken[u] \in Ids /\ taken[u] # next_id /\ job[taken[u]].target = u
    <3>1. taken[u] \in Ids /\ job[taken[u]].target = u
      BY <2>4 DEF StoreInv, TypeOK, Ids
    <3>2. taken[u] = next_id => job[taken[u]].target = None
      BY <2>1, <3>1 DEF JobInv, NoJob, TypeOK
    <3> QED
      BY <3>1, <3>2
  <2>5. \A id \in Ids : place'[id] # 0 =>
          /\ routes'[job'[id].target] = job'[id].slot
          /\ phase'[id] \in {"notifying", "answered"}
          /\ place'[id] <= pushes'
          /\ id > taken'[job'[id].target]
    BY <2>1, <2>2, <2>3 DEF StoreInv
  <2>6. \A a, b \in Ids : place'[a] # 0 /\ place'[b] # 0 /\ a # b =>
          /\ place'[a] # place'[b]
          /\ job'[a].target = job'[b].target /\ a < b => place'[a] < place'[b]
    BY <2>1, <2>3 DEF StoreInv
  <2>7. \A u \in Target : taken'[u] # 0 =>
          /\ job'[taken'[u]].target = u
          /\ phase'[taken'[u]] \in {"notifying", "answered", "unnotified"}
    BY <2>1, <2>2, <2>4 DEF StoreInv
  <2> QED
    BY <2>5, <2>6, <2>7 DEF StoreInv
<1>2. ASSUME NEW t \in Target, Cancel(t) \/ CloseWindow(t)
      PROVE  StoreInv'
  <2>1. Unregister(t) /\ UNCHANGED <<job, phase, pushes, taken>>
    BY <1>2 DEF Cancel, CloseWindow, requestVars, windowVars
  <2>2. \A id \in Ids : place'[id] # 0 => place'[id] = place[id] /\ job[id].target # t
    BY <2>1 DEF Unregister, DropTarget
  <2>3. \A u \in Target : u # t => routes'[u] = routes[u]
    BY <2>1 DEF Unregister, TypeOK
  <2>4. \A id \in Ids : place[id] # 0 => job[id].target \in Target
    BY DEF JobInv, TypeOK, Ids
  <2> QED
    BY <2>1, <2>2, <2>3, <2>4 DEF StoreInv
<1>3. ASSUME NEW t \in Target, HandleComplete(t)
      PROVE  StoreInv'
  <2>1. UNCHANGED <<job, phase, pushes, routes>>
    BY <1>3 DEF HandleComplete, requestVars, slotVars
  <2>2. CASE UNCHANGED <<place, taken>>
    BY <2>1, <2>2, StoreUntouched
  <2>3. ASSUME NEW id \in StoredFor(t), IsFirst(id, StoredFor(t)),
               place' = [place EXCEPT ![id] = 0],
               taken' = [taken EXCEPT ![t] = id]
        PROVE  StoreInv'
    <3>1. id \in Ids /\ place[id] # 0 /\ job[id].target = t
      BY DEF StoredFor, Stored
    <3>2. \A r \in Ids : place'[r] # 0 => r # id /\ place'[r] = place[r]
      BY <2>3 DEF TypeOK
    <3>3. \A r \in Ids : place'[r] # 0 /\ job[r].target = t => r > id
      <4> SUFFICES ASSUME NEW r \in Ids, place'[r] # 0, job[r].target = t
                   PROVE  r > id
        OBVIOUS
      <4>1. place[r] # 0 /\ r # id /\ r \in StoredFor(t)
        BY <3>2 DEF StoredFor, Stored
      <4>2. place[id] <= place[r]
        BY <2>3, <4>1 DEF IsFirst
      <4>3. r < id => place[r] < place[id]
        BY <3>1, <4>1 DEF StoreInv
      <4>4. place[id] \in Nat /\ place[r] \in Nat
        BY <3>1 DEF TypeOK
      <4>5. id \in Nat /\ r \in Nat
        BY <3>1 DEF Ids
      <4> QED
        BY <4>1, <4>2, <4>3, <4>4, <4>5
    <3>4. \A u \in Target : taken'[u] = IF u = t THEN id ELSE taken[u]
      BY <2>3 DEF TypeOK
    <3>5. \A r \in Ids : place[r] # 0 => job[r].target \in Target
      BY DEF JobInv, TypeOK, Ids
    <3> QED
      BY <2>1, <3>1, <3>2, <3>3, <3>4, <3>5 DEF StoreInv
  <2> QED
    BY <1>3, <2>2, <2>3 DEF HandleComplete
<1>4. ASSUME NEW id \in Ids, RouteResponse(id), IsCurrent(id)
      PROVE  StoreInv'
  <2>1. /\ PushResponse(id) /\ UNCHANGED <<job, routes, taken>>
        /\ phase' = [phase EXCEPT ![id] = "notifying"] /\ phase[id] = "finished"
    BY <1>4 DEF RouteResponse, requestVars, slotVars, windowVars
  <2> DEFINE t == job[id].target
  <2>2. id < next_id /\ t \in Target /\ job[id].slot \in Ids /\ place[id] = 0
    <3>1. id < next_id
      BY <2>1 DEF PhaseInv, TypeOK, Ids
    <3>2. place[id] = 0
      BY <2>1 DEF StoreInv
    <3> QED
      BY <3>1, <3>2 DEF JobInv, Ids
  <2>3. routes[t] = job[id].slot /\ latest[job[id].slot] = id /\ id # 0
    BY <1>4 DEF IsCurrent, Ids
  <2>4. \A r \in Ids : r < next_id /\ job[r].target = t => r <= id
    BY <2>2, <2>3 DEF SlotInv
  <2>5. /\ pushes' = pushes + 1 /\ place'[id] \in {0, pushes + 1}
        /\ \A r \in Ids : r # id => place'[r] \in {0, place[r]}
    BY <2>1, PushPlaces
  <2>6. \A r \in Ids : place'[r] # 0 /\ r # id =>
           place[r] # 0 /\ place'[r] = place[r] /\ place[r] <= pushes /\ r < next_id
    BY <2>5 DEF StoreInv, JobInv, TypeOK, Ids
  <2>7. id > taken[t]
    <3>1. CASE taken[t] = 0
      BY <3>1 DEF Ids
    <3>2. CASE taken[t] # 0
      <4>1. taken[t] \in Ids /\ job[taken[t]].target = t /\ taken[t] # id
        <5>1. taken[t] \in Ids
          BY <2>2, <3>2 DEF TypeOK, Ids
        <5>2. job[taken[t]].target = t /\ phase[taken[t]] \in Responded
          BY <2>2, <3>2 DEF StoreInv, Responded
        <5> QED
          BY <2>1, <5>1, <5>2 DEF Responded
      <4>2. taken[t] < next_id
        <5>1. taken[t] >= next_id => job[taken[t]].target = None
          BY <4>1 DEF JobInv, NoJob
        <5> QED
          BY <2>2, <4>1, <5>1 DEF TypeOK, Ids
      <4>3. taken[t] <= id
        BY <2>4, <4>1, <4>2
      <4> QED
        BY <4>1, <4>3 DEF Ids
    <3> QED
      BY <3>1, <3>2
  <2>8. \A r \in Ids : place'[r] # 0 =>
          /\ routes'[job'[r].target] = job'[r].slot
          /\ phase'[r] \in {"notifying", "answered"}
          /\ place'[r] <= pushes'
          /\ r > taken'[job'[r].target]
    <3> SUFFICES ASSUME NEW r \in Ids, place'[r] # 0
                 PROVE  /\ routes[job[r].target] = job[r].slot
                        /\ phase'[r] \in {"notifying", "answered"}
                        /\ place'[r] <= pushes'
                        /\ r > taken[job[r].target]
      BY <2>1
    <3>1. CASE r = id
      BY <2>1, <2>3, <2>5, <2>7, <3>1 DEF TypeOK
    <3>2. CASE r # id
      BY <2>1, <2>5, <2>6, <3>2 DEF StoreInv, TypeOK
    <3> QED
      BY <3>1, <3>2
  <2>9. \A a, b \in Ids : place'[a] # 0 /\ place'[b] # 0 /\ a # b =>
          /\ place'[a] # place'[b]
          /\ job'[a].target = job'[b].target /\ a < b => place'[a] < place'[b]
    <3> SUFFICES ASSUME NEW a \in Ids, NEW b \in Ids,
                        place'[a] # 0, place'[b] # 0, a # b
                 PROVE  /\ place'[a] # place'[b]
                        /\ job[a].target = job[b].target /\ a < b => place'[a] < place'[b]
      BY <2>1
    <3>1. CASE a # id /\ b # id
      BY <2>6, <3>1 DEF StoreInv
    <3>2. CASE a = id
      <4>1. place'[a] = pushes + 1 /\ place'[b] <= pushes /\ b < next_id
        BY <2>5, <2>6, <3>2
      <4>2. place'[a] # place'[b]
        BY <4>1 DEF TypeOK
      <4>3. job[a].target = job[b].target => b <= a
        BY <2>4, <3>2, <4>1
      <4> QED
        BY <4>2, <4>3 DEF Ids
    <3>3. CASE b = id
      <4>1. place'[b] = pushes + 1 /\ place'[a] <= pushes /\ place'[a] = place[a]
        BY <2>5, <2>6, <3>3
      <4>2. place[a] \in Nat /\ pushes \in Nat
        BY DEF TypeOK
      <4> QED
        BY <4>1, <4>2
    <3> QED
      BY <3>1, <3>2, <3>3
  <2>10. \A u \in Target : taken'[u] # 0 =>
          /\ job'[taken'[u]].target = u
          /\ phase'[taken'[u]] \in {"notifying", "answered", "unnotified"}
    <3>1. \A u \in Target : taken[u] # 0 => taken[u] \in Ids /\ taken[u] # id
      <4>1. \A u \in Target : taken[u] # 0 => taken[u] \in Ids
        BY DEF TypeOK, Ids
      <4>2. \A u \in Target : taken[u] # 0 => phase[taken[u]] \in Responded
        BY DEF StoreInv, Responded
      <4> QED
        BY <2>1, <4>1, <4>2 DEF Responded
    <3> QED
      BY <2>1, <3>1 DEF StoreInv, TypeOK
  <2> QED
    BY <2>8, <2>9, <2>10 DEF StoreInv
<1>5. ASSUME NEW id \in Ids, NotifyTarget(id)
      PROVE  StoreInv'
  <2>1. /\ phase' = [phase EXCEPT ![id] = "answered"] /\ phase[id] = "notifying"
        /\ UNCHANGED <<place, pushes, taken, routes, job>>
    BY <1>5 DEF NotifyTarget, requestVars, slotVars, storeVars, PhaseInv, Ids
  <2>2. \A u \in Target : taken[u] # 0 => taken[u] \in Ids
    BY DEF TypeOK, Ids
  <2> QED
    BY <2>1, <2>2 DEF StoreInv, TypeOK
<1>6. ASSUME NEW id \in Ids, FailNotify(id)
      PROVE  StoreInv'
  <2>1. /\ phase' = [phase EXCEPT ![id] = "unnotified"] /\ phase[id] = "notifying"
        /\ place' = [place EXCEPT ![id] = 0]
        /\ UNCHANGED <<pushes, taken, routes, job>>
    BY <1>6 DEF FailNotify, requestVars, slotVars, windowVars, PhaseInv, Ids
  <2>2. \A u \in Target : taken[u] # 0 => taken[u] \in Ids
    BY DEF TypeOK, Ids
  <2>3. \A r \in Ids : place'[r] # 0 => r # id /\ place'[r] = place[r] /\ phase'[r] = phase[r]
    BY <2>1 DEF TypeOK
  <2> QED
    BY <2>1, <2>2, <2>3 DEF StoreInv, TypeOK
<1>7. ASSUME NEW id \in Ids,
             StartEngine(id) \/ FinishEngine(id) \/ GiveUp(id)
               \/ (RouteResponse(id) /\ ~IsCurrent(id))
      PROVE  StoreInv'
  <2>1. /\ UNCHANGED <<place, pushes, taken, routes, job>>
        /\ phase[id] \in {"waiting", "translating", "finished"}
        /\ \A r \in Ids : r # id => phase'[r] = phase[r]
    BY <1>7 DEF StartEngine, FinishEngine, GiveUp, RouteResponse, requestVars, slotVars,
                storeVars, windowVars, TypeOK
  <2> QED
    BY <2>1, StoreUntouched DEF Responded
<1>8. ASSUME NEW t \in Target, ReuseHandle(t)
      PROVE  StoreInv'
  BY <1>8, StoreUntouched DEF ReuseHandle, requestVars, slotVars, storeVars
<1>9. CASE PublishLatest \/ SendJob \/ RefuseJob \/ Shutdown
  <2>1. /\ UNCHANGED <<place, pushes, taken, routes, job>>
        /\ \A id \in Ids : phase[id] # "calling" => phase'[id] = phase[id]
    BY <1>9 DEF PublishLatest, SendJob, RefuseJob, Shutdown, requestVars, slotVars,
                storeVars, windowVars, PhaseInv, TypeOK
  <2> QED
    BY <2>1, StoreUntouched DEF Responded
<1>10. CASE WorkerThread
  <2>1. /\ UNCHANGED <<place, pushes, taken, routes, job>>
        /\ \A id \in Ids : phase[id] \notin {"queued", "waiting", "translating"}
                               => phase'[id] = phase[id]
    BY <1>10 DEF WorkerThread, StartWorker, ReceiveJob, StopWorker, Queued, requestVars,
                 slotVars, storeVars, windowVars, TypeOK
  <2> QED
    BY <2>1, StoreUntouched DEF Responded
<1>11. CASE UNCHANGED vars
  BY <1>11, StoreUntouched DEF vars, requestVars, slotVars, storeVars, windowVars
<1> QED
  BY <1>1, <1>2, <1>3, <1>4, <1>5, <1>6, <1>7, <1>8, <1>9, <1>10, <1>11
  DEF Next, UiThread, Task

\* Every action keeps the invariant,
LEMMA StepDispatchInv == DispatchInv /\ [Next]_vars => DispatchInv'
BY StepTypeInv, StepJobInv, StepSlotInv, StepStoreInv DEF DispatchInv

\* and so it always holds.
LEMMA SpecDispatchInv == Spec => []DispatchInv
BY InitDispatchInv, StepDispatchInv, PTL DEF Spec

(* No response outlives cancel() or its window: what is stored belongs to  *)
(* the registration the target has now.                                    *)
THEOREM ResponsesOfCurrentRegistration == Spec => []StoredForCurrentRegistration
<1>1. DispatchInv => StoredForCurrentRegistration
  BY DEF DispatchInv, StoreInv, StoredForCurrentRegistration, Stored
<1> QED
  BY <1>1, SpecDispatchInv, PTL

-----------------------------------------------------------------------------
(* Completion messages                                                     *)

(* While the routes lock is held for a notification its target stays       *)
(* registered, and the response, if it is still stored, is the newest.     *)
NotifyInv ==
    notifying # 0 =>
        /\ notifying < next_id
        /\ routes[job[notifying].target] = job[notifying].slot
        /\ place[notifying] # 0 => place[notifying] = pushes

(* Responses but the one whose notification is under way have a message.   *)
Owed(t) == StoredFor(t) \ {notifying}

WakeInv == \A t \in Target : Cardinality(Owed(t)) <= posted[t]

CompletionInv == DispatchInv /\ NotifyInv /\ WakeInv

(* Only routing a response and its notification move the routes lock. *)
LEMMA OnlyRoutingLocks ==
  ASSUME [Next]_vars,
         \A id \in Ids : ~RouteResponse(id) /\ ~NotifyTarget(id) /\ ~FailNotify(id)
  PROVE  notifying' = notifying
<1> USE DEF requestVars, slotVars, storeVars, workerVars, windowVars
<1>1. ASSUME NEW t \in Target,
             \/ BeginRequest(t) \/ Cancel(t) \/ CloseWindow(t)
             \/ ReuseHandle(t) \/ HandleComplete(t)
      PROVE  notifying' = notifying
  BY <1>1 DEF BeginRequest, Cancel, CloseWindow, ReuseHandle, HandleComplete
<1>2. CASE PublishLatest \/ SendJob \/ RefuseJob \/ Shutdown \/ WorkerThread
  BY <1>2 DEF PublishLatest, SendJob, RefuseJob, Shutdown, WorkerThread, StartWorker,
              ReceiveJob, StopWorker
<1>3. ASSUME NEW id \in Ids, StartEngine(id) \/ FinishEngine(id) \/ GiveUp(id)
      PROVE  notifying' = notifying
  BY <1>3 DEF StartEngine, FinishEngine, GiveUp
<1>4. CASE UNCHANGED vars
  BY <1>4 DEF vars
<1> QED
  BY <1>1, <1>2, <1>3, <1>4 DEF Next, UiThread, Task

(* While a notification is under way, the calls of the UI thread that      *)
(* change a registration wait for the routes lock.                         *)
LEMMA RegistrationsWait ==
  ASSUME DispatchInv, [Next]_vars, notifying # 0
  PROVE  UNCHANGED <<requestVars, routes>>
<1>1. \A t \in Target : ~BeginRequest(t) /\ ~Cancel(t) /\ ~CloseWindow(t)
  BY DEF BeginRequest, Cancel, CloseWindow, Unregister
<1>2. CASE PublishLatest \/ SendJob \/ RefuseJob
  BY <1>2 DEF PublishLatest, SendJob, RefuseJob, slotVars
<1> QED
  BY <1>1, <1>2, OnlyCallsChangeSlots DEF slotVars

\* Every action keeps the target of a notification registered, and its response, if stored, the newest.
LEMMA StepNotifyInv == DispatchInv /\ NotifyInv /\ [Next]_vars => NotifyInv'
<1> SUFFICES ASSUME DispatchInv, NotifyInv, [Next]_vars, notifying' # 0
             PROVE  /\ notifying' < next_id'
                    /\ routes'[job'[notifying'].target] = job'[notifying'].slot
                    /\ place'[notifying'] # 0 => place'[notifying'] = pushes'
  BY DEF NotifyInv
<1>1. TypeOK /\ PhaseInv
  BY DEF DispatchInv, TypeInv
<1>2. ASSUME NEW id \in Ids, RouteResponse(id)
      PROVE  /\ notifying' < next_id'
             /\ routes'[job'[notifying'].target] = job'[notifying'].slot
             /\ place'[notifying'] # 0 => place'[notifying'] = pushes'
  <2>1. IsCurrent(id) /\ PushResponse(id) /\ notifying' = id
    BY <1>2 DEF RouteResponse
  <2>2. UNCHANGED <<next_id, job, routes>> /\ phase[id] = "finished"
    BY <1>2 DEF RouteResponse, requestVars, slotVars
  <2>3. id < next_id
    BY <1>1, <2>2 DEF PhaseInv, TypeOK, Ids
  <2>4. routes[job[id].target] = job[id].slot
    BY <2>1 DEF IsCurrent
  <2>5. place'[id] # 0 => place'[id] = pushes'
    BY <1>1, <2>1, PushPlaces
  <2> QED
    BY <2>1, <2>2, <2>3, <2>4, <2>5
<1>3. ASSUME \A id \in Ids : ~RouteResponse(id)
      PROVE  /\ notifying' < next_id'
             /\ routes'[job'[notifying'].target] = job'[notifying'].slot
             /\ place'[notifying'] # 0 => place'[notifying'] = pushes'
  <2>1. \A id \in Ids : ~NotifyTarget(id) /\ ~FailNotify(id)
    BY DEF NotifyTarget, FailNotify
  <2>2. notifying' = notifying
    BY <1>3, <2>1, OnlyRoutingLocks
  <2>3. UNCHANGED <<next_id, job, routes>>
    BY <2>2, RegistrationsWait DEF requestVars
  <2>4. pushes' = pushes /\ place'[notifying] \in {0, place[notifying]}
    BY <1>1, <1>3, <2>2, OnlyPushStores DEF TypeOK, Ids
  <2> QED
    BY <2>2, <2>3, <2>4 DEF NotifyInv
<1> QED
  BY <1>2, <1>3

(* Completion messages are posted only to a window that exists and is      *)
(* registered (the notifier's SAFETY comment rests on it).                 *)
THEOREM NotifiesOnlyRegistered == Spec => NotifyOnlyRegistered
<1>1. ASSUME DispatchInv, NotifyInv, [Next]_vars,
             NEW t \in Target, posted'[t] > posted[t]
      PROVE  alive[t] /\ routes[t] # 0
  <2>1. TypeOK
    BY <1>1 DEF DispatchInv, TypeInv
  <2>2. posted[t] \in Nat /\ posted'[t] # posted[t] /\ ~(posted'[t] = posted[t] - 1)
    BY <1>1, <2>1 DEF TypeOK
  <2>3. PICK id \in Ids : NotifyTarget(id) /\ job[id].target = t
    <3>1. ASSUME NEW u \in Target,
                 \/ BeginRequest(u) \/ Cancel(u) \/ CloseWindow(u)
                 \/ ReuseHandle(u) \/ HandleComplete(u)
          PROVE  FALSE
      <4>1. CASE BeginRequest(u) \/ Cancel(u) \/ ReuseHandle(u)
        BY <2>2, <4>1 DEF BeginRequest, Cancel, ReuseHandle, windowVars
      <4>2. CASE CloseWindow(u)
        BY <1>1, <2>1, <2>2, <4>2 DEF CloseWindow, TypeOK
      <4>3. CASE HandleComplete(u)
        BY <2>1, <2>2, <4>3 DEF HandleComplete, TypeOK
      <4> QED
        BY <3>1, <4>1, <4>2, <4>3
    <3>2. CASE PublishLatest \/ SendJob \/ RefuseJob \/ Shutdown \/ WorkerThread
      BY <2>2, <3>2 DEF PublishLatest, SendJob, RefuseJob, Shutdown, WorkerThread,
                        StartWorker, ReceiveJob, StopWorker, windowVars
    <3>3. ASSUME NEW r \in Ids, \/ StartEngine(r) \/ FinishEngine(r) \/ GiveUp(r)
                                \/ RouteResponse(r) \/ FailNotify(r)
          PROVE  FALSE
      BY <2>2, <3>3 DEF StartEngine, FinishEngine, GiveUp, RouteResponse, FailNotify,
                        windowVars
    <3>4. CASE UNCHANGED vars
      BY <2>2, <3>4 DEF vars, windowVars
    <3>5. ASSUME NEW r \in Ids, NotifyTarget(r)
          PROVE  job[r].target = t
      BY <2>1, <2>2, <3>5 DEF NotifyTarget, TypeOK
    <3> QED
      BY <1>1, <3>1, <3>2, <3>3, <3>4, <3>5 DEF Next, UiThread, Task
  <2>4. alive[t] /\ notifying = id /\ notifying # 0
    BY <2>3 DEF NotifyTarget, Ids
  <2>5. routes[t] = job[id].slot /\ id < next_id
    BY <1>1, <2>3, <2>4 DEF NotifyInv
  <2>6. job[id].slot # 0
    BY <1>1, <2>5 DEF DispatchInv, JobInv, Ids
  <2> QED
    BY <2>4, <2>5, <2>6
<1>2. Init => NotifyInv
  BY DEF Init, NotifyInv
<1>3. DispatchInv /\ NotifyInv /\ [Next]_vars
        => [\A t \in Target : posted'[t] > posted[t] => alive[t] /\ routes[t] # 0]_vars
  BY <1>1
<1> QED
  BY <1>2, <1>3, StepNotifyInv, SpecDispatchInv, PTL DEF Spec, NotifyOnlyRegistered

\* The responses that a target has not read are finitely many.
LEMMA OwedCounted ==
  ASSUME NEW t \in Target
  PROVE  /\ IsFiniteSet(Owed(t)) /\ Cardinality(Owed(t)) \in Nat
         /\ IsFiniteSet(Owed(t)') /\ Cardinality(Owed(t)') \in Nat
<1>1. Owed(t) \in SUBSET Ids /\ Owed(t)' \in SUBSET Ids
  BY DEF Owed, StoredFor, Stored
<1> QED
  BY <1>1, IdsFinite

(* A target that is owed no more than before keeps its messages.           *)
LEMMA OwedNoMore ==
  ASSUME NEW t \in Target, Cardinality(Owed(t)) <= posted[t],
         posted \in [Target -> Nat], posted'[t] = posted[t],
         Owed(t)' \subseteq Owed(t)
  PROVE  Cardinality(Owed(t)') <= posted'[t]
<1>1. Cardinality(Owed(t)') <= Cardinality(Owed(t))
  BY OwedCounted, FS_Subset
<1>2. posted[t] \in Nat
  OBVIOUS
<1> QED
  BY <1>1, <1>2, OwedCounted

(* What a target is owed is kept by a step that stores nothing, moves no   *)
(* lock and fills in no job of a stored response.                          *)
LEMMA OwedUntouched ==
  ASSUME \A id \in Ids : place'[id] \in {0, place[id]},
         \A id \in Ids : place[id] # 0 => job'[id] = job[id],
         notifying' = notifying
  PROVE  \A t \in Target : Owed(t)' \subseteq Owed(t)
BY DEF Owed, StoredFor, Stored

\* Every action keeps a message for each response that is stored.
LEMMA StepWakeInv == CompletionInv /\ [Next]_vars => WakeInv'
<1> SUFFICES ASSUME CompletionInv, [Next]_vars, NEW t \in Target
             PROVE  Cardinality(Owed(t)') <= posted'[t]
  BY DEF WakeInv
<1>1. TypeOK /\ JobInv /\ StoreInv /\ NotifyInv /\ Cardinality(Owed(t)) <= posted[t]
  BY DEF CompletionInv, DispatchInv, TypeInv, WakeInv
<1>2. posted \in [Target -> Nat] /\ posted[t] \in Nat
  BY <1>1 DEF TypeOK
<1>3. ASSUME NEW u \in Target, BeginRequest(u)
      PROVE  Cardinality(Owed(t)') <= posted'[t]
  <2>1. /\ UNCHANGED <<place, notifying, posted>> /\ next_id \in Ids
        /\ job' = [job EXCEPT ![next_id] =
                     [target |-> u, slot |-> IF routes[u] = 0 THEN next_id ELSE routes[u]]]
    BY <1>1, <1>3 DEF BeginRequest, TypeOK, Ids, storeVars, workerVars, windowVars
  <2>2. place[next_id] = 0
    BY <1>1, <2>1 DEF JobInv, Ids
  <2>3. \A id \in Ids : place[id] # 0 => job'[id] = job[id]
    BY <1>1, <2>1, <2>2 DEF TypeOK
  <2> QED
    BY <1>1, <1>2, <2>1, <2>3, OwedUntouched, OwedNoMore
<1>4. ASSUME NEW u \in Target, Cancel(u) \/ CloseWindow(u)
      PROVE  Cardinality(Owed(t)') <= posted'[t]
  <2>1. DropTarget(u) /\ UNCHANGED <<job, notifying>>
    BY <1>4 DEF Cancel, CloseWindow, Unregister, requestVars, workerVars
  <2>2. Owed(t)' \subseteq Owed(t) /\ (t = u => Owed(t)' = {})
    BY <2>1 DEF DropTarget, Owed, StoredFor, Stored
  <2>3. CASE t = u
    <3>1. Cardinality(Owed(t)') = 0
      BY <2>2, <2>3, FS_EmptySet
    <3>2. posted'[t] \in Nat
      BY <1>2, <1>4 DEF Cancel, CloseWindow, windowVars
    <3> QED
      BY <3>1, <3>2
  <2>4. CASE t # u
    <3>1. posted'[t] = posted[t]
      BY <1>2, <1>4, <2>4 DEF Cancel, CloseWindow, windowVars
    <3> QED
      BY <1>1, <1>2, <2>2, <3>1, OwedNoMore
  <2> QED
    BY <2>3, <2>4
<1>5. ASSUME NEW u \in Target, HandleComplete(u)
      PROVE  Cardinality(Owed(t)') <= posted'[t]
  <2>1. /\ posted' = [posted EXCEPT ![u] = @ - 1] /\ posted[u] > 0
        /\ UNCHANGED <<job, notifying>>
    BY <1>5 DEF HandleComplete, requestVars, workerVars
  <2>2. \A id \in Ids : place'[id] \in {0, place[id]}
    BY <1>1, <1>5 DEF HandleComplete, TypeOK
  <2>3. Owed(t)' \subseteq Owed(t)
    BY <2>1, <2>2, OwedUntouched
  <2>4. CASE t # u
    BY <1>1, <1>2, <2>1, <2>3, <2>4, OwedNoMore
  <2>5. CASE t = u /\ Owed(t)' = {}
    <3>1. Cardinality(Owed(t)') = 0
      BY <2>5, FS_EmptySet
    <3> QED
      BY <1>2, <2>1, <2>5, <3>1
  <2>6. CASE t = u /\ Owed(t)' # {}
    <3>1. PICK id \in StoredFor(t) : /\ IsFirst(id, StoredFor(t))
                                     /\ place' = [place EXCEPT ![id] = 0]
      <4>1. StoredFor(t) # {}
        BY <2>3, <2>6 DEF Owed
      <4> QED
        BY <1>5, <2>6, <4>1 DEF HandleComplete
    <3>2. id \in Ids /\ place[id] # 0 /\ job[id].target = t
      BY DEF StoredFor, Stored
    <3>3. PICK other \in Owed(t)' : TRUE
      BY <2>6
    <3>4. /\ other \in Ids /\ other # id /\ other \in StoredFor(t)
          /\ place[other] # 0 /\ other \in Owed(t)
      BY <1>1, <2>1, <2>3, <3>1, <3>2 DEF Owed, StoredFor, Stored, TypeOK
    <3>5. place[id] <= place[other] /\ place[id] # place[other] /\ place[other] <= pushes
      BY <1>1, <3>1, <3>2, <3>4 DEF IsFirst, StoreInv
    <3>6. id # notifying
      <4>1. place[id] \in Nat /\ place[other] \in Nat /\ pushes \in Nat
        BY <1>1, <3>2, <3>4 DEF TypeOK
      <4>2. place[id] # pushes
        BY <3>5, <4>1
      <4>3. id # 0
        BY <3>2 DEF Ids
      <4> QED
        BY <1>1, <3>2, <4>2, <4>3 DEF NotifyInv
    <3>7. Owed(t)' = Owed(t) \ {id} /\ id \in Owed(t)
      BY <1>1, <2>1, <3>1, <3>2, <3>6 DEF Owed, StoredFor, Stored, TypeOK
    <3>8. Cardinality(Owed(t)') = Cardinality(Owed(t)) - 1
      BY <3>7, OwedCounted, FS_RemoveElement
    <3>9. posted'[t] = posted[t] - 1
      BY <1>2, <2>1, <2>6
    <3> QED
      BY <1>1, <1>2, <3>8, <3>9, OwedCounted
  <2> QED
    BY <2>4, <2>5, <2>6
<1>6. ASSUME NEW id \in Ids, RouteResponse(id)
      PROVE  Cardinality(Owed(t)') <= posted'[t]
  <2>1. UNCHANGED <<job, posted>> /\ notifying = 0
    BY <1>6 DEF RouteResponse, requestVars, windowVars
  <2>2. Owed(t)' \subseteq Owed(t)
    <3>1. CASE notifying' = notifying
      <4>1. UNCHANGED place
        BY <1>6, <2>1, <3>1 DEF RouteResponse, storeVars, Ids
      <4> QED
        BY <2>1, <3>1, <4>1, OwedUntouched
    <3>2. CASE notifying' # notifying
      <4>1. PushResponse(id) /\ notifying' = id
        BY <1>6, <3>2 DEF RouteResponse
      <4>2. \A r \in Ids : r # id => place'[r] \in {0, place[r]}
        BY <1>1, <4>1, PushPlaces
      <4> QED
        BY <2>1, <4>1, <4>2 DEF Owed, StoredFor, Stored, Ids
    <3> QED
      BY <3>1, <3>2
  <2> QED
    BY <1>1, <1>2, <2>1, <2>2, OwedNoMore
<1>7. ASSUME NEW id \in Ids, NotifyTarget(id)
      PROVE  Cardinality(Owed(t)') <= posted'[t]
  <2>1. /\ notifying = id /\ notifying' = 0 /\ UNCHANGED <<place, job>>
        /\ posted' = [posted EXCEPT ![job[id].target] = @ + 1]
    BY <1>7 DEF NotifyTarget, requestVars, storeVars
  <2>2. CASE t # job[id].target
    <3>1. Owed(t)' \subseteq Owed(t)
      BY <2>1, <2>2 DEF Owed, StoredFor, Stored
    <3>2. posted'[t] = posted[t]
      BY <1>2, <2>1, <2>2
    <3> QED
      BY <1>1, <1>2, <3>1, <3>2, OwedNoMore
  <2>3. CASE t = job[id].target
    <3>1. Owed(t)' \subseteq Owed(t) \union {id} /\ id \notin Owed(t)
      BY <2>1 DEF Owed, StoredFor, Stored
    <3>2. /\ IsFiniteSet(Owed(t) \union {id})
          /\ Cardinality(Owed(t) \union {id}) = Cardinality(Owed(t)) + 1
      BY <3>1, OwedCounted, FS_AddElement
    <3>3. Cardinality(Owed(t)') <= Cardinality(Owed(t)) + 1
      BY <3>1, <3>2, FS_Subset
    <3>4. posted'[t] = posted[t] + 1
      BY <1>2, <2>1, <2>3
    <3> QED
      BY <1>1, <1>2, <3>3, <3>4, OwedCounted
  <2> QED
    BY <2>2, <2>3
<1>8. ASSUME NEW id \in Ids, FailNotify(id)
      PROVE  Cardinality(Owed(t)') <= posted'[t]
  <2>1. /\ notifying = id /\ notifying' = 0 /\ UNCHANGED <<job, posted>>
        /\ place' = [place EXCEPT ![id] = 0]
    BY <1>8 DEF FailNotify, requestVars, windowVars
  <2>2. Owed(t)' \subseteq Owed(t)
    BY <1>1, <2>1 DEF Owed, StoredFor, Stored, TypeOK
  <2> QED
    BY <1>1, <1>2, <2>1, <2>2, OwedNoMore
<1>9. ASSUME UNCHANGED <<place, job, notifying, posted>>
      PROVE  Cardinality(Owed(t)') <= posted'[t]
  BY <1>1, <1>2, <1>9, OwedUntouched, OwedNoMore
<1>10. ASSUME NEW u \in Target, ReuseHandle(u)
       PROVE  UNCHANGED <<place, job, notifying, posted>>
  BY <1>10 DEF ReuseHandle, requestVars, storeVars, workerVars
<1>11. CASE PublishLatest \/ SendJob \/ RefuseJob \/ Shutdown \/ WorkerThread
  <2>1. UNCHANGED <<place, job, notifying, posted>>
    BY <1>11 DEF PublishLatest, SendJob, RefuseJob, Shutdown, WorkerThread, StartWorker,
                 ReceiveJob, StopWorker, requestVars, storeVars, workerVars, windowVars
  <2> QED
    BY <1>9, <2>1
<1>12. ASSUME NEW id \in Ids, StartEngine(id) \/ FinishEngine(id) \/ GiveUp(id)
       PROVE  UNCHANGED <<place, job, notifying, posted>>
  BY <1>12 DEF StartEngine, FinishEngine, GiveUp, requestVars, storeVars, windowVars
<1>13. CASE UNCHANGED vars
  BY <1>9, <1>13 DEF vars, requestVars, storeVars, workerVars, windowVars
<1> QED
  BY <1>3, <1>4, <1>5, <1>6, <1>7, <1>8, <1>9, <1>10, <1>11, <1>12, <1>13
  DEF Next, UiThread, Task

\* At first nothing is stored and nothing is to be notified.
LEMMA InitCompletionInv == Init => CompletionInv
<1> SUFFICES ASSUME Init PROVE CompletionInv
  OBVIOUS
<1>1. NotifyInv
  BY DEF Init, NotifyInv
<1>2. ASSUME NEW t \in Target
      PROVE  Cardinality(Owed(t)) <= posted[t]
  <2>1. Owed(t) = {}
    BY DEF Init, Owed, StoredFor, Stored
  <2>2. Cardinality(Owed(t)) = 0
    BY <2>1, FS_EmptySet
  <2> QED
    BY <2>2 DEF Init
<1> QED
  BY <1>1, <1>2, InitDispatchInv DEF CompletionInv, WakeInv

\* The invariant about completions always holds.
LEMMA SpecCompletionInv == Spec => []CompletionInv
<1>1. CompletionInv /\ [Next]_vars => CompletionInv'
  BY StepDispatchInv, StepNotifyInv, StepWakeInv DEF CompletionInv
<1> QED
  BY <1>1, InitCompletionInv, PTL DEF Spec

(* Every stored response has a completion message on its way, through      *)
(* evictions, failed notifications, cancels and reused handles.            *)
THEOREM EveryResponseWakes == Spec => []WakeupForEveryResponse
<1>1. ASSUME CompletionInv, NEW t \in Target
      PROVE  Cardinality(StoredFor(t)) <=
               posted[t] + (IF notifying # 0 /\ job[notifying].target = t THEN 1 ELSE 0)
  <2>1. Cardinality(Owed(t)) <= posted[t] /\ posted[t] \in Nat
    BY <1>1 DEF CompletionInv, WakeInv, DispatchInv, TypeInv, TypeOK
  <2>2. CASE notifying # 0 /\ job[notifying].target = t
    <3>1. StoredFor(t) \subseteq Owed(t) \union {notifying} /\ notifying \notin Owed(t)
      BY DEF Owed
    <3>2. /\ IsFiniteSet(Owed(t) \union {notifying})
          /\ Cardinality(Owed(t) \union {notifying}) = Cardinality(Owed(t)) + 1
      BY <3>1, OwedCounted, FS_AddElement
    <3>3. Cardinality(StoredFor(t)) <= Cardinality(Owed(t)) + 1
      BY <3>1, <3>2, FS_Subset
    <3>4. Cardinality(StoredFor(t)) \in Nat
      BY IdsFinite DEF StoredFor, Stored
    <3> QED
      BY <2>1, <2>2, <3>3, <3>4, OwedCounted
  <2>3. CASE ~(notifying # 0 /\ job[notifying].target = t)
    <3>1. StoredFor(t) = Owed(t)
      BY <2>3 DEF Owed, StoredFor, Stored, Ids
    <3> QED
      BY <2>1, <2>3, <3>1, OwedCounted
  <2> QED
    BY <2>2, <2>3
<1>2. CompletionInv => WakeupForEveryResponse
  BY <1>1 DEF WakeupForEveryResponse
<1> QED
  BY <1>2, SpecCompletionInv, PTL

-----------------------------------------------------------------------------
(* The dispatcher implements latest-request delivery                       *)

Answered == {id \in Ids : phase[id] \in Responded}

(* What LatestRequest sees does not change. *)
SameAnswers == UNCHANGED taken /\ \A t \in Target : StoredFor(t)' = StoredFor(t)

SameWanted == next_id' = next_id /\ \A t \in Target : WantedBy(t)' = WantedBy(t)

\* A step that changes neither what is wanted nor what is answered is not seen by the consumer.
LEMMA ViewUnchanged ==
  ASSUME SameWanted, SameAnswers, Answered' = Answered
  PROVE  UNCHANGED Abstract!vars
<1>1. [t \in Target |-> WantedBy(t)]' = [t \in Target |-> WantedBy(t)]
  BY DEF SameWanted
<1>2. [t \in Target |-> StoredFor(t)]' = [t \in Target |-> StoredFor(t)]
  BY DEF SameAnswers
<1> QED
  BY <1>1, <1>2 DEF SameWanted, SameAnswers, Answered, Responded, Abstract!vars

(* The registered slots of two targets differ. *)
LEMMA SlotsDiffer ==
  ASSUME TypeOK, SlotInv, NEW t \in Target, NEW u \in Target, t # u, routes[u] # 0
  PROVE  routes[u] # routes[t] /\ routes[u] \in Ids /\ routes[u] < next_id
<1>1. routes[u] \in 0..MaxRequests
  BY DEF TypeOK
<1>2. routes[u] \in Ids
  BY <1>1 DEF Ids
<1>3. routes[u] < next_id /\ job[routes[u]].target = u
  BY DEF SlotInv
<1>4. routes[t] # 0 => job[routes[t]].target = t
  BY DEF SlotInv
<1> QED
  BY <1>2, <1>3, <1>4

\* The start of request() is the abstract request.
LEMMA RequestIsRequest ==
  ASSUME DispatchInv, NEW t \in Target, BeginRequest(t)
  PROVE  Abstract!Request(t)
<1>1. TypeOK /\ PhaseInv /\ JobInv /\ SlotInv
  BY DEF DispatchInv, TypeInv
<1> DEFINE slot == IF routes[t] = 0 THEN next_id ELSE routes[t]
<1>2. /\ next_id \in Ids /\ next_id' = next_id + 1 /\ next_id <= MaxRequests
      /\ routes' = [routes EXCEPT ![t] = slot]
      /\ latest' = [latest EXCEPT ![slot] = next_id]
      /\ phase' = [phase EXCEPT ![next_id] = "calling"]
      /\ job' = [job EXCEPT ![next_id] = [target |-> t, slot |-> slot]]
      /\ UNCHANGED <<place, taken>>
  BY <1>1 DEF BeginRequest, TypeOK, Ids, storeVars, windowVars
<1>3. slot \in Ids /\ slot # 0
  BY <1>1, <1>2 DEF SlotInv, TypeOK, Ids
<1>4. WantedBy(t)' = next_id
  <2>1. routes'[t] = slot /\ latest'[slot] = next_id
    BY <1>1, <1>2, <1>3 DEF TypeOK
  <2> QED
    BY <1>3, <2>1 DEF WantedBy
<1>5. ASSUME NEW u \in Target, u # t
      PROVE  WantedBy(u)' = WantedBy(u)
  <2>1. routes'[u] = routes[u]
    BY <1>1, <1>2, <1>5 DEF TypeOK
  <2>2. routes[u] # 0 => routes[u] # slot /\ routes[u] \in Ids
    BY <1>1, <1>2, <1>5, SlotsDiffer DEF Ids
  <2>3. routes[u] # 0 => latest'[routes[u]] = latest[routes[u]]
    BY <1>1, <1>2, <2>2 DEF TypeOK
  <2> QED
    BY <2>1, <2>3 DEF WantedBy
<1>6. Answered' = Answered
  <2>1. phase[next_id] = "unused"
    BY <1>1, <1>2 DEF PhaseInv, TypeOK, Ids
  <2> QED
    BY <1>1, <1>2, <2>1 DEF Answered, Responded, TypeOK
<1>7. SameAnswers
  <2>1. place[next_id] = 0
    BY <1>1, <1>2 DEF JobInv, Ids
  <2>2. \A id \in Ids : place[id] # 0 => job'[id] = job[id]
    BY <1>1, <1>2, <2>1 DEF TypeOK
  <2> QED
    BY <1>2, <2>2 DEF SameAnswers, StoredFor, Stored
<1>8. [u \in Target |-> WantedBy(u)]'
        = [[u \in Target |-> WantedBy(u)] EXCEPT ![t] = next_id - 1 + 1]
  <2>1. next_id - 1 + 1 = next_id
    BY <1>2 DEF Ids
  <2> QED
    BY <1>4, <1>5, <2>1
<1>9. [u \in Target |-> StoredFor(u)]' = [u \in Target |-> StoredFor(u)]
  BY <1>7 DEF SameAnswers
<1>10. next_id - 1 < MaxRequests /\ (next_id - 1)' = next_id - 1 + 1
  BY <1>2, DispatchAssumption DEF Ids
<1> QED
  BY <1>2, <1>6, <1>8, <1>9, <1>10 DEF Abstract!Request, Answered, Responded

\* A request that finds the channel closed is refused.
LEMMA RefusalIsRefusal ==
  ASSUME DispatchInv, RefuseJob
  PROVE  Abstract!Next
<1>1. TypeOK /\ PhaseInv /\ JobInv /\ SlotInv
  BY DEF DispatchInv, TypeInv
<1>2. /\ phase' = [phase EXCEPT ![Calling] = "refused"]
      /\ latest' = [latest EXCEPT ![job[Calling].slot] = 0]
      /\ UNCHANGED <<next_id, job, routes, place, taken>>
      /\ Calling \in Ids /\ phase[Calling] = "calling"
      /\ latest[job[Calling].slot] = Calling
  BY <1>1 DEF RefuseJob, PhaseInv, SlotInv, requestVars, storeVars, windowVars
<1>3. Calling < next_id /\ Calling # 0
  BY <1>1, <1>2 DEF Calling, TypeOK, Ids
<1>4. PICK t \in Target, slot \in Ids : t = job[Calling].target /\ slot = job[Calling].slot
  <2>1. job[Calling].target \in Target /\ job[Calling].slot \in 1..Calling
    BY <1>1, <1>2, <1>3 DEF JobInv
  <2>2. job[Calling].slot \in Ids
    BY <1>2, <2>1, DispatchAssumption DEF Ids
  <2> QED
    BY <2>1, <2>2
<1>5. routes[t] = slot /\ slot # 0
  BY <1>1, <1>2, <1>3, <1>4 DEF SlotInv, Ids
<1>6. WantedBy(t) = Calling /\ WantedBy(t)' = 0
  BY <1>1, <1>2, <1>4, <1>5 DEF WantedBy, TypeOK
<1>7. ASSUME NEW u \in Target, u # t
      PROVE  WantedBy(u)' = WantedBy(u)
  <2>1. routes[u] # 0 => routes[u] # slot /\ routes[u] \in Ids
    BY <1>1, <1>4, <1>5, <1>7, SlotsDiffer
  <2>2. routes[u] # 0 => latest'[routes[u]] = latest[routes[u]]
    BY <1>1, <1>2, <1>4, <2>1 DEF TypeOK
  <2> QED
    BY <1>2, <2>2 DEF WantedBy
<1>8. [u \in Target |-> WantedBy(u)]' = [[u \in Target |-> WantedBy(u)] EXCEPT ![t] = 0]
  BY <1>4, <1>6, <1>7
<1>9. Answered' = Answered /\ Calling \notin Answered
  BY <1>1, <1>2 DEF Answered, Responded, TypeOK
<1>10. [u \in Target |-> StoredFor(u)]' = [u \in Target |-> StoredFor(u)]
  BY <1>2 DEF StoredFor, Stored
<1>11. Abstract!Refuse(t)
  BY <1>2, <1>4, <1>6, <1>8, <1>9, <1>10
  DEF Abstract!Refuse, Answered, Responded, Calling
<1> QED
  BY <1>4, <1>11 DEF Abstract!Next

\* Cancelling and closing the window are the abstract cancel.
LEMMA CancelIsCancel ==
  ASSUME DispatchInv, NEW t \in Target, Cancel(t) \/ CloseWindow(t)
  PROVE  Abstract!Cancel(t)
<1>1. TypeOK /\ SlotInv
  BY DEF DispatchInv, TypeInv
<1>2. Unregister(t) /\ UNCHANGED <<next_id, job, phase, taken>>
  BY DEF Cancel, CloseWindow, requestVars, windowVars
<1>3. WantedBy(t)' = 0
  BY <1>1, <1>2 DEF Unregister, WantedBy, TypeOK
<1>4. ASSUME NEW u \in Target, u # t
      PROVE  WantedBy(u)' = WantedBy(u)
  <2>1. routes'[u] = routes[u]
    BY <1>1, <1>2, <1>4 DEF Unregister, TypeOK
  <2>2. routes[u] # 0 => routes[u] # routes[t] /\ routes[u] \in Ids
    BY <1>1, <1>4, SlotsDiffer
  <2>3. routes[u] # 0 => latest'[routes[u]] = latest[routes[u]]
    BY <1>2, <2>2 DEF Unregister
  <2> QED
    BY <2>1, <2>3 DEF WantedBy
<1>5. StoredFor(t)' = {} /\ \A u \in Target : u # t => StoredFor(u)' = StoredFor(u)
  BY <1>2 DEF Unregister, DropTarget, StoredFor, Stored
<1>6. [u \in Target |-> WantedBy(u)]' = [[u \in Target |-> WantedBy(u)] EXCEPT ![t] = 0]
  BY <1>3, <1>4
<1>7. [u \in Target |-> StoredFor(u)]' = [[u \in Target |-> StoredFor(u)] EXCEPT ![t] = {}]
  BY <1>5
<1> QED
  BY <1>2, <1>6, <1>7 DEF Abstract!Cancel

\* Handling the message takes the oldest answer of the window, if there is one.
LEMMA HandlingIsTaking ==
  ASSUME DispatchInv, NEW t \in Target, HandleComplete(t)
  PROVE  Abstract!Take(t) \/ UNCHANGED Abstract!vars
<1>1. TypeOK /\ StoreInv
  BY DEF DispatchInv, TypeInv
<1>2. UNCHANGED <<next_id, job, phase, routes, latest>>
  BY DEF HandleComplete, requestVars, slotVars
<1>3. SameWanted /\ Answered' = Answered
  BY <1>2 DEF SameWanted, WantedBy, Answered
<1>4. CASE UNCHANGED <<place, taken>>
  <2>1. SameAnswers
    BY <1>2, <1>4 DEF SameAnswers, StoredFor, Stored
  <2> QED
    BY <1>3, <2>1, ViewUnchanged
<1>5. ASSUME NEW id \in StoredFor(t), IsFirst(id, StoredFor(t)),
             place' = [place EXCEPT ![id] = 0], taken' = [taken EXCEPT ![t] = id]
      PROVE  Abstract!Take(t)
  <2>1. id \in Ids /\ place[id] # 0 /\ job[id].target = t
    BY DEF StoredFor, Stored
  <2>2. id > taken[t]
    BY <1>1, <2>1 DEF StoreInv
  <2>3. ASSUME NEW other \in StoredFor(t)
        PROVE  id <= other
    <3>1. other \in Ids /\ place[other] # 0 /\ job[other].target = t
      BY DEF StoredFor, Stored
    <3>2. other < id => place[other] < place[id]
      BY <1>1, <2>1, <3>1 DEF StoreInv, Ids
    <3>3. place[id] <= place[other]
      BY <1>5 DEF IsFirst
    <3>4. place[id] \in Nat /\ place[other] \in Nat
      BY <1>1, <2>1, <3>1 DEF TypeOK
    <3> QED
      BY <2>1, <3>1, <3>2, <3>3, <3>4 DEF Ids
  <2>4. /\ StoredFor(t)' = StoredFor(t) \ {id}
        /\ \A u \in Target : u # t => StoredFor(u)' = StoredFor(u)
    BY <1>1, <1>2, <1>5, <2>1 DEF StoredFor, Stored, TypeOK
  <2>5. [u \in Target |-> StoredFor(u)]'
          = [[u \in Target |-> StoredFor(u)] EXCEPT ![t] = @ \ {id}]
    BY <2>4
  <2>6. [u \in Target |-> WantedBy(u)]' = [u \in Target |-> WantedBy(u)]
    BY <1>3 DEF SameWanted
  <2> QED
    BY <1>2, <1>3, <1>5, <2>2, <2>3, <2>5, <2>6
    DEF Abstract!Take, Answered, Responded
<1> QED
  BY <1>4, <1>5 DEF HandleComplete

\* A current response that is stored is the abstract answer; the one it displaces is lost.
LEMMA RoutingIsAnswering ==
  ASSUME DispatchInv, NEW id \in Ids, RouteResponse(id), IsCurrent(id)
  PROVE  Abstract!Next
<1>1. TypeOK /\ PhaseInv /\ JobInv
  BY DEF DispatchInv, TypeInv
<1>2. /\ phase[id] = "finished" /\ phase' = [phase EXCEPT ![id] = "notifying"]
      /\ PushResponse(id) /\ UNCHANGED <<next_id, job, routes, latest, taken>>
  BY DEF RouteResponse, requestVars, slotVars, windowVars
<1>3. id < next_id /\ id # 0
  BY <1>1, <1>2 DEF PhaseInv, TypeOK, Ids
<1>4. PICK t \in Target : t = job[id].target
  BY <1>1, <1>3 DEF JobInv
<1>5. WantedBy(t) = id
  BY <1>4 DEF IsCurrent, WantedBy
<1>6. [u \in Target |-> WantedBy(u)]' = [u \in Target |-> WantedBy(u)]
  BY <1>2 DEF WantedBy
<1>7. Answered' = Answered \union {id} /\ id \notin Answered
  BY <1>1, <1>2 DEF Answered, Responded, TypeOK
<1>8. PICK lost \in SUBSET Ids : lost = {r \in Ids : place'[r] = 0}
  OBVIOUS
<1>9. \A r \in Ids : r # id => place'[r] \in {0, place[r]}
  BY <1>1, <1>2, PushPlaces
<1>10. \A r \in Ids \ lost : r # id => place[r] # 0
  BY <1>8, <1>9
<1>11. ASSUME NEW u \in Target
       PROVE  StoredFor(u)' = (StoredFor(u) \union (IF u = t THEN {id} ELSE {})) \ lost
  <2>1. StoredFor(u)' = {r \in Ids \ lost : job[r].target = u}
    BY <1>2, <1>8 DEF StoredFor, Stored
  <2>2. StoredFor(u) = {r \in Ids : place[r] # 0 /\ job[r].target = u}
    BY DEF StoredFor, Stored
  <2> QED
    BY <1>4, <1>10, <2>1, <2>2
<1>12. [u \in Target |-> StoredFor(u)]'
         = [u \in Target |-> ([v \in Target |-> StoredFor(v)][u]
                                \union (IF u = t THEN {id} ELSE {})) \ lost]
  BY <1>11
<1>13. Abstract!Answer(t)
  BY <1>2, <1>3, <1>4, <1>5, <1>6, <1>7, <1>8, <1>12
  DEF Abstract!Answer, Abstract!Ids, Ids, Answered, Responded
<1> QED
  BY <1>4, <1>13 DEF Abstract!Next

\* A notification that fails takes the answer back.
LEMMA FailureIsLoss ==
  ASSUME DispatchInv, NEW id \in Ids, FailNotify(id)
  PROVE  Abstract!Next \/ UNCHANGED Abstract!vars
<1>1. TypeOK /\ PhaseInv /\ JobInv
  BY DEF DispatchInv, TypeInv
<1>2. /\ phase[id] = "notifying" /\ phase' = [phase EXCEPT ![id] = "unnotified"]
      /\ place' = [place EXCEPT ![id] = 0]
      /\ UNCHANGED <<next_id, job, routes, latest, taken>>
  BY <1>1 DEF FailNotify, PhaseInv, Ids, requestVars, slotVars, windowVars
<1>3. SameWanted
  BY <1>2 DEF SameWanted, WantedBy
<1>4. Answered' = Answered
  BY <1>1, <1>2 DEF Answered, Responded, TypeOK
<1>5. CASE place[id] = 0
  <2>1. \A r \in Ids : place'[r] = place[r]
    BY <1>1, <1>2, <1>5 DEF TypeOK
  <2>2. SameAnswers
    BY <1>2, <2>1 DEF SameAnswers, StoredFor, Stored
  <2> QED
    BY <1>3, <1>4, <2>2, ViewUnchanged
<1>6. CASE place[id] # 0
  <2>1. id < next_id
    BY <1>1, <1>2 DEF PhaseInv, TypeOK, Ids
  <2>2. PICK t \in Target : t = job[id].target
    BY <1>1, <2>1 DEF JobInv
  <2>3. id \in StoredFor(t)
    BY <1>6, <2>2 DEF StoredFor, Stored
  <2>4. /\ StoredFor(t)' = StoredFor(t) \ {id}
        /\ \A u \in Target : u # t => StoredFor(u)' = StoredFor(u)
    BY <1>1, <1>2, <2>2 DEF StoredFor, Stored, TypeOK
  <2>5. [u \in Target |-> StoredFor(u)]'
          = [[u \in Target |-> StoredFor(u)] EXCEPT ![t] = @ \ {id}]
    BY <2>4
  <2>6. [u \in Target |-> WantedBy(u)]' = [u \in Target |-> WantedBy(u)]
    BY <1>3 DEF SameWanted
  <2>7. Abstract!Lose(t)
    BY <1>2, <1>4, <2>2, <2>3, <2>5, <2>6 DEF Abstract!Lose, Answered, Responded
  <2> QED
    BY <2>2, <2>7 DEF Abstract!Next
<1> QED
  BY <1>5, <1>6

(* The steps of the worker, of the engines and of the notification are     *)
(* invisible to the consumer.                                              *)
LEMMA InnerStepsHidden ==
  ASSUME DispatchInv, UNCHANGED <<next_id, job, routes, latest, place, taken>>,
         \A id \in Ids : phase'[id] \in Responded <=> phase[id] \in Responded
  PROVE  UNCHANGED Abstract!vars
<1>1. SameWanted
  BY DEF SameWanted, WantedBy
<1>2. SameAnswers
  BY DEF SameAnswers, StoredFor, Stored
<1>3. Answered' = Answered
  BY DEF Answered
<1> QED
  BY <1>1, <1>2, <1>3, ViewUnchanged

\* Every step is an abstract one, or the consumer does not see it.
LEMMA StepImplements ==
  DispatchInv /\ [Next]_vars => [Abstract!Next]_(Abstract!vars)
<1> SUFFICES ASSUME DispatchInv, [Next]_vars
             PROVE  Abstract!Next \/ UNCHANGED Abstract!vars
  OBVIOUS
<1>1. TypeOK /\ PhaseInv
  BY DEF DispatchInv, TypeInv
<1>2. ASSUME NEW t \in Target,
             BeginRequest(t) \/ Cancel(t) \/ CloseWindow(t) \/ HandleComplete(t)
      PROVE  Abstract!Next \/ UNCHANGED Abstract!vars
  BY <1>2, RequestIsRequest, CancelIsCancel, HandlingIsTaking DEF Abstract!Next
<1>3. CASE RefuseJob
  BY <1>3, RefusalIsRefusal
<1>4. ASSUME NEW id \in Ids, RouteResponse(id), IsCurrent(id)
      PROVE  Abstract!Next
  BY <1>4, RoutingIsAnswering
<1>5. ASSUME NEW id \in Ids, FailNotify(id)
      PROVE  Abstract!Next \/ UNCHANGED Abstract!vars
  BY <1>5, FailureIsLoss
<1>6. ASSUME NEW t \in Target, ReuseHandle(t)
      PROVE  UNCHANGED Abstract!vars
  BY <1>6, InnerStepsHidden DEF ReuseHandle, requestVars, slotVars, storeVars
<1>7. CASE PublishLatest \/ SendJob \/ Shutdown
  <2>1. UNCHANGED <<next_id, job, routes, latest, place, taken>>
    BY <1>7 DEF PublishLatest, SendJob, Shutdown, requestVars, slotVars, storeVars,
                windowVars
  <2>2. \A id \in Ids : phase'[id] \in Responded <=> phase[id] \in Responded
    BY <1>1, <1>7 DEF PublishLatest, SendJob, Shutdown, PhaseInv, Responded, TypeOK
  <2> QED
    BY <2>1, <2>2, InnerStepsHidden
<1>8. CASE WorkerThread
  <2>1. UNCHANGED <<next_id, job, routes, latest, place, taken>>
    BY <1>8 DEF WorkerThread, StartWorker, ReceiveJob, StopWorker, requestVars, slotVars,
                storeVars, windowVars
  <2>2. \A id \in Ids : phase'[id] \in Responded <=> phase[id] \in Responded
    BY <1>1, <1>8 DEF WorkerThread, StartWorker, ReceiveJob, StopWorker, Queued, Responded,
                      TypeOK
  <2> QED
    BY <2>1, <2>2, InnerStepsHidden
<1>9. ASSUME NEW id \in Ids,
             \/ StartEngine(id) \/ FinishEngine(id) \/ GiveUp(id) \/ NotifyTarget(id)
             \/ RouteResponse(id) /\ ~IsCurrent(id)
      PROVE  UNCHANGED Abstract!vars
  <2>1. UNCHANGED <<next_id, job, routes, latest, place, taken>>
    BY <1>9 DEF StartEngine, FinishEngine, GiveUp, NotifyTarget, RouteResponse,
                requestVars, slotVars, storeVars, windowVars
  <2>2. PICK p \in Phase : /\ phase' = [phase EXCEPT ![id] = p]
                           /\ p \in Responded <=> phase[id] \in Responded
    BY <1>1, <1>9, PhaseValues DEF StartEngine, FinishEngine, GiveUp, NotifyTarget,
                                   RouteResponse, PhaseInv, Responded, Ids
  <2>3. \A r \in Ids : phase'[r] \in Responded <=> phase[r] \in Responded
    BY <1>1, <2>2 DEF TypeOK
  <2> QED
    BY <2>1, <2>3, InnerStepsHidden
<1>10. CASE UNCHANGED vars
  BY <1>10, InnerStepsHidden DEF vars, requestVars, slotVars, storeVars, windowVars
<1> QED
  BY <1>2, <1>3, <1>4, <1>5, <1>6, <1>7, <1>8, <1>9, <1>10 DEF Next, UiThread, Task

(* Whatever the threads do, consumers see latest-request delivery: only    *)
(* the newest request of a target is answered, at most once, and a target  *)
(* reads its responses in the order of its requests.                       *)
THEOREM DeliversLatestRequests == Spec => ImplementsLatestRequest
<1>1. Init => Abstract!Init
  <2> SUFFICES ASSUME Init PROVE Abstract!Init
    OBVIOUS
  <2>1. [t \in Target |-> WantedBy(t)] = [t \in Target |-> 0]
    BY DEF Init, WantedBy
  <2>2. [t \in Target |-> StoredFor(t)] = [t \in Target |-> {}]
    BY DEF Init, StoredFor, Stored
  <2>3. next_id - 1 = 0 /\ Answered = {}
    BY DEF Init, Answered, Responded
  <2> QED
    BY <2>1, <2>2, <2>3 DEF Init, Abstract!Init, Answered, Responded
<1> QED
  BY <1>1, StepImplements, SpecDispatchInv, PTL
  DEF Spec, ImplementsLatestRequest, Abstract!Spec

=============================================================================
