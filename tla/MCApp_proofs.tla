----------------------------- MODULE MCApp_proofs -----------------------------
(***************************************************************************)
(* Proofs about the parts of the application.  The update flow, for any    *)
(* number of clicks, lost messages and failures: the program survives its  *)
(* update, and what the settings window offers can be done.  The settings, *)
(* for any values, edits and changes from outside while one message to the *)
(* application is lost at most: configuration, window, hotkeys, magnetism  *)
(* and what was applied agree.                                             *)
(***************************************************************************)
EXTENDS MCApp, Integers, WellFoundedInduction, TLAPS

-----------------------------------------------------------------------------
(* Types                                                                   *)

Asked == {"auto", "manual", "download"}
Outcomes == [of : Asked, is : {"available", "up to date", "error", "staged"}]
Texts == {"none", "checking", "downloading", "restarting", "file job", "error", "available",
          "up to date", "staged"}
SettingsStates == [open : BOOLEAN, available : BOOLEAN, enabled : BOOLEAN, text : Texts]

Workers == [at : {"starting", "idle", "serving", "notifying", "dead", "exited"},
            request : Asked \cup {"none"}, chunk : 0..Chunks]
Messages == {"check", "apply", "progress", "result", "close"}
FileStates == [exe : {"old", "new", "none"}, backup : BOOLEAN, staged : BOOLEAN]

Types ==
    /\ worker \in Workers
    /\ worker.at \in {"serving", "notifying"} => worker.request \in Asked
    /\ requests \in Seq(Asked) /\ results \in Seq(Outcomes) /\ batch \in Seq(Outcomes)
    /\ messages \in Seq(Messages)
    /\ settings \in SettingsStates
    /\ ui \in {"idle", "confirm", "results", "apply", "place", "report"}
    /\ app \in {"running", "leaving", "ended", "restarted"}
    /\ in_progress \in BOOLEAN /\ pending \in BOOLEAN /\ fileJob \in BOOLEAN
    /\ restart \in BOOLEAN /\ reported \in BOOLEAN
    /\ disk \in FileStates

-----------------------------------------------------------------------------
(* What is on its way: an automatic check, which was asked for first, and  *)
(* behind it one operation of the user.  They pass from the requests to    *)
(* the worker, its outcomes, and the batch in hand.                        *)

AutoAsked == \E i \in 1..Len(requests) : requests[i] = "auto"
UserAsked == \E i \in 1..Len(requests) : requests[i] # "auto"
Serves(auto) == worker.at = "serving" /\ (worker.request = "auto" <=> auto)
HasAuto(outcomes) == \E i \in 1..Len(outcomes) : outcomes[i].of = "auto"
HasUser(outcomes) == \E i \in 1..Len(outcomes) : outcomes[i].of # "auto"

(* Of two in one place the first is the automatic check and the second the *)
(* user's: there are never more.                                           *)
AutoBeforeUser(outcomes) ==
    \A i, j \in 1..Len(outcomes) :
        i < j => outcomes[i].of = "auto" /\ outcomes[j].of # "auto"
RequestsInOrder ==
    \A i, j \in 1..Len(requests) :
        i < j => requests[i] = "auto" /\ requests[j] # "auto"

(* What is behind the automatic check cannot be ahead of it.               *)
AutoIsFirst ==
    /\ AutoAsked => worker.at # "serving" /\ results = << >> /\ batch = << >>
    /\ Serves(TRUE) => results = << >> /\ batch = << >>
    /\ HasAuto(results) => batch = << >>

OneOfUser ==
    /\ UserAsked => ~Serves(FALSE) /\ ~HasUser(results) /\ ~HasUser(batch)
    /\ Serves(FALSE) => ~HasUser(results) /\ ~HasUser(batch)
    /\ HasUser(results) => ~HasUser(batch)

AutoUnderWay == AutoAsked \/ Serves(TRUE) \/ HasAuto(results) \/ HasAuto(batch)
UserUnderWay == UserAsked \/ Serves(FALSE) \/ HasUser(results) \/ HasUser(batch)

Underway ==
    /\ RequestsInOrder /\ AutoBeforeUser(results) /\ AutoBeforeUser(batch)
    /\ AutoIsFirst /\ OneOfUser
    /\ UserUnderWay => in_progress /\ ~settings.available

(* The window offers an update when there is one, and no check that is     *)
(* still under way can take it back.                                       *)
Offers ==
    /\ settings.available => pending /\ ~AutoUnderWay
    /\ ~settings.enabled => in_progress
    /\ ~settings.open => settings = Closed
    /\ ui = "confirm" => ~in_progress

(* Where the executable is while it is replaced.                           *)
Replacing ==
    /\ ui = "results" => batch # << >>
    /\ app # "running" => ui = "idle"
    /\ ui \in {"place", "report"} => disk.exe = "none"
    /\ disk.exe = "none" => disk.backup /\ (ui \in {"place", "report"} \/ reported)
    /\ restart \/ app = "restarted" => disk.exe = "new"

IInv == Types /\ Underway /\ Offers /\ Replacing

-----------------------------------------------------------------------------
(* What the queues do to what is on its way                                *)

\* What is known of outcomes after the first is taken.
LEMMA TakeOutcome ==
  ASSUME NEW s \in Seq(Outcomes), s # << >>, AutoBeforeUser(s)
  PROVE  /\ Head(s) \in Outcomes /\ Tail(s) \in Seq(Outcomes)
         /\ AutoBeforeUser(Tail(s)) /\ ~HasAuto(Tail(s))
         /\ HasUser(Tail(s)) => HasUser(s)
         /\ Head(s).of = "auto" => HasAuto(s)
         /\ Head(s).of # "auto" => HasUser(s) /\ ~HasUser(Tail(s))
<1>1. Len(s) \in Nat /\ Len(s) >= 1 /\ Len(Tail(s)) = Len(s) - 1
      /\ Head(s) = s[1] /\ Tail(s) \in Seq(Outcomes) /\ s[1] \in Outcomes
  OBVIOUS
<1>2. \A i \in 1..Len(Tail(s)) : Tail(s)[i] = s[i + 1] /\ i + 1 \in 1..Len(s) /\ 1 < i + 1
  BY <1>1
<1>3. \A i \in 1..Len(Tail(s)) : s[1].of = "auto" /\ Tail(s)[i].of # "auto"
  BY <1>1, <1>2 DEF AutoBeforeUser
<1>4. ~HasAuto(Tail(s)) /\ (Head(s).of # "auto" => ~HasUser(Tail(s)))
  BY <1>1, <1>3 DEF HasAuto, HasUser
<1>5. AutoBeforeUser(Tail(s))
  <2>1. ASSUME NEW i \in 1..Len(Tail(s)), NEW j \in 1..Len(Tail(s)), i < j PROVE FALSE
    <3>1. Tail(s)[i].of = "auto"
      BY <1>1, <1>2, <2>1 DEF AutoBeforeUser
    <3> QED
      BY <3>1, <1>3
  <2> QED
    BY <2>1 DEF AutoBeforeUser
<1>6. HasUser(Tail(s)) => HasUser(s)
  BY <1>2 DEF HasUser
<1>7. (Head(s).of = "auto" => HasAuto(s)) /\ (Head(s).of # "auto" => HasUser(s))
  BY <1>1 DEF HasAuto, HasUser
<1> QED
  BY <1>1, <1>4, <1>5, <1>6, <1>7

\* What is known of outcomes after another one is added.
LEMMA PutOutcome ==
  ASSUME NEW s \in Seq(Outcomes), NEW o \in Outcomes, AutoBeforeUser(s),
         o.of = "auto" => s = << >>, o.of # "auto" => ~HasUser(s)
  PROVE  /\ Append(s, o) \in Seq(Outcomes) /\ AutoBeforeUser(Append(s, o))
         /\ HasAuto(Append(s, o)) => HasAuto(s) \/ o.of = "auto"
         /\ HasUser(Append(s, o)) => HasUser(s) \/ o.of # "auto"
<1> DEFINE t == Append(s, o)
<1>1. /\ t \in Seq(Outcomes) /\ Len(s) \in Nat /\ Len(t) = Len(s) + 1
      /\ \A i \in 1..Len(s) : t[i] = s[i]
      /\ t[Len(t)] = o
  OBVIOUS
<1>2. \A i \in 1..Len(t) : i \in 1..Len(s) \/ i = Len(t)
  BY <1>1
<1>3. HasAuto(t) => HasAuto(s) \/ o.of = "auto"
  BY <1>1, <1>2 DEF HasAuto
<1>4. HasUser(t) => HasUser(s) \/ o.of # "auto"
  BY <1>1, <1>2 DEF HasUser
<1>5. AutoBeforeUser(t)
  <2> SUFFICES ASSUME NEW i \in 1..Len(t), NEW j \in 1..Len(t), i < j
               PROVE  t[i].of = "auto" /\ t[j].of # "auto"
    BY DEF AutoBeforeUser
  <2>1. i \in 1..Len(s) /\ t[i] = s[i]
    BY <1>1
  <2>2. CASE j \in 1..Len(s)
    BY <1>1, <2>1, <2>2 DEF AutoBeforeUser
  <2>3. CASE j = Len(t)
    <3>1. s # << >> /\ o.of # "auto"
      BY <2>1
    <3>2. t[i].of = "auto"
      BY <3>1, <2>1 DEF HasUser
    <3> QED
      BY <3>1, <3>2, <2>3, <1>1
  <2> QED
    BY <1>2, <2>2, <2>3
<1> QED
  BY <1>1, <1>3, <1>4, <1>5

\* No outcomes are in order.
LEMMA NoOutcome == ~HasAuto(<< >>) /\ ~HasUser(<< >>) /\ AutoBeforeUser(<< >>)
BY DEF HasAuto, HasUser, AutoBeforeUser

\* What is known of the requests after the first is taken.
LEMMA TakeRequest ==
  ASSUME requests \in Seq(Asked), requests # << >>, RequestsInOrder, requests' = Tail(requests)
  PROVE  /\ Head(requests) \in Asked /\ requests' \in Seq(Asked)
         /\ RequestsInOrder' /\ ~AutoAsked'
         /\ UserAsked' => UserAsked
         /\ Head(requests) = "auto" => AutoAsked
         /\ Head(requests) # "auto" => UserAsked /\ ~UserAsked'
<1>1. Len(requests) \in Nat /\ Len(requests) >= 1 /\ Len(requests') = Len(requests) - 1
      /\ Head(requests) = requests[1] /\ requests' \in Seq(Asked) /\ requests[1] \in Asked
  OBVIOUS
<1>2. \A i \in 1..Len(requests') :
         requests'[i] = requests[i + 1] /\ i + 1 \in 1..Len(requests) /\ 1 < i + 1
  BY <1>1
<1>3. \A i \in 1..Len(requests') : requests[1] = "auto" /\ requests'[i] # "auto"
  BY <1>1, <1>2 DEF RequestsInOrder
<1>4. ~AutoAsked' /\ (Head(requests) # "auto" => ~UserAsked')
  BY <1>1, <1>3 DEF AutoAsked, UserAsked
<1>5. RequestsInOrder'
  <2>1. ASSUME NEW i \in 1..Len(requests'), NEW j \in 1..Len(requests'), i < j PROVE FALSE
    <3>1. requests'[i] = "auto"
      BY <1>1, <1>2, <2>1 DEF RequestsInOrder
    <3> QED
      BY <3>1, <1>3
  <2> QED
    BY <2>1 DEF RequestsInOrder
<1>6. UserAsked' => UserAsked
  BY <1>2 DEF UserAsked
<1>7. (Head(requests) = "auto" => AutoAsked) /\ (Head(requests) # "auto" => UserAsked)
  BY <1>1 DEF AutoAsked, UserAsked
<1> QED
  BY <1>1, <1>4, <1>5, <1>6, <1>7

\* A request of the user goes behind that of the schedule.
LEMMA AskForUser ==
  ASSUME requests \in Seq(Asked), RequestsInOrder, ~UserAsked,
         NEW r \in {"manual", "download"}, Request(r)
  PROVE  requests' \in Seq(Asked) /\ RequestsInOrder' /\ (AutoAsked' => AutoAsked)
<1>1. CASE requests' = requests
  BY <1>1 DEF RequestsInOrder, AutoAsked
<1>2. CASE requests' = Append(requests, r)
  <2>1. /\ requests' \in Seq(Asked) /\ Len(requests) \in Nat
        /\ Len(requests') = Len(requests) + 1
        /\ \A i \in 1..Len(requests) : requests'[i] = requests[i]
        /\ requests'[Len(requests')] = r
    BY <1>2 DEF Asked
  <2>2. \A i \in 1..Len(requests') : i \in 1..Len(requests) \/ i = Len(requests')
    BY <2>1
  <2>3. \A i \in 1..Len(requests) : requests[i] = "auto"
    BY DEF UserAsked
  <2>4. AutoAsked' => AutoAsked
    BY <2>1, <2>2 DEF AutoAsked
  <2>5. RequestsInOrder'
    <3> SUFFICES ASSUME NEW i \in 1..Len(requests'), NEW j \in 1..Len(requests'), i < j
                 PROVE  requests'[i] = "auto" /\ requests'[j] # "auto"
      BY DEF RequestsInOrder
    <3>1. i \in 1..Len(requests) /\ requests'[i] = "auto"
      BY <2>1, <2>3
    <3>2. CASE j \in 1..Len(requests)
      BY <2>1, <3>1, <3>2 DEF RequestsInOrder
    <3>3. CASE j = Len(requests')
      BY <2>1, <3>1, <3>3
    <3> QED
      BY <2>2, <3>1, <3>2, <3>3
  <2> QED
    BY <2>1, <2>4, <2>5
<1> QED
  BY <1>1, <1>2 DEF Request

-----------------------------------------------------------------------------
(* The inductive invariant                                                 *)

\* The invariant holds at first.
LEMMA InitIInv == Init => IInv
<1> SUFFICES ASSUME Init PROVE IInv
  OBVIOUS
<1> USE DEF Init, Idle, Closed
<1>1. Types
  <2>1. requests \in Seq(Asked) /\ results \in Seq(Outcomes) /\ batch \in Seq(Outcomes)
        /\ messages \in Seq(Messages)
    <3>1. CASE requests = <<"auto">>
      BY <3>1 DEF Asked
    <3>2. CASE requests = << >>
      BY <3>2
    <3> QED
      BY <3>1, <3>2
  <2>2. worker \in Workers /\ worker.at = "starting"
    BY ChunksAssumption DEF Workers
  <2>3. settings \in SettingsStates /\ disk \in FileStates
    BY DEF SettingsStates, Texts, FileStates
  <2> QED
    BY <2>1, <2>2, <2>3 DEF Types
<1>2. Len(requests) \in Nat /\ \A i \in 1..Len(requests) : i = 1 /\ requests[i] = "auto"
  <2>1. CASE requests = <<"auto">>
    BY <2>1
  <2>2. CASE requests = << >>
    BY <2>2
  <2> QED
    BY <2>1, <2>2
<1>3. Underway
  BY <1>2, NoOutcome DEF Underway, RequestsInOrder, AutoIsFirst, OneOfUser, UserUnderWay,
     UserAsked, AutoAsked, Serves
<1>4. Offers /\ Replacing
  BY DEF Offers, Replacing
<1> QED
  BY <1>1, <1>3, <1>4 DEF IInv

(* What an unchanged queue holds.                                          *)
LEMMA SameRequests ==
  ASSUME UNCHANGED requests
  PROVE  (AutoAsked' <=> AutoAsked) /\ (UserAsked' <=> UserAsked)
         /\ (RequestsInOrder' <=> RequestsInOrder)
BY DEF AutoAsked, UserAsked, RequestsInOrder

\* Results that are left alone have what they had,
LEMMA SameResults ==
  ASSUME UNCHANGED results
  PROVE  (HasAuto(results)' <=> HasAuto(results)) /\ (HasUser(results)' <=> HasUser(results))
         /\ (AutoBeforeUser(results)' <=> AutoBeforeUser(results))
BY DEF HasAuto, HasUser, AutoBeforeUser

\* and so has the batch.
LEMMA SameBatch ==
  ASSUME UNCHANGED batch
  PROVE  (HasAuto(batch)' <=> HasAuto(batch)) /\ (HasUser(batch)' <=> HasUser(batch))
         /\ (AutoBeforeUser(batch)' <=> AutoBeforeUser(batch))
BY DEF HasAuto, HasUser, AutoBeforeUser

\* A message goes to the end of the queue or is lost.
LEMMA NotifyType ==
  ASSUME messages \in Seq(Messages), NEW m \in Messages, Notify(m)
  PROVE  messages' \in Seq(Messages)
BY DEF Notify

(* A step that leaves the queues alone, and takes nothing new into the     *)
(* worker's hand, puts nothing under way.                                  *)
LEMMA SameQueues ==
  ASSUME Underway, UNCHANGED <<requests, results, batch>>,
         worker'.at = "serving" => worker.at = "serving" /\ worker'.request = worker.request,
         UserUnderWay => in_progress' /\ ~settings'.available
  PROVE  Underway' /\ (AutoUnderWay' => AutoUnderWay)
<1>1. (Serves(TRUE)' => Serves(TRUE)) /\ (Serves(FALSE)' => Serves(FALSE))
  BY DEF Serves
<1>2. (AutoUnderWay' => AutoUnderWay) /\ (UserUnderWay' => UserUnderWay)
  BY <1>1, SameRequests, SameResults, SameBatch DEF AutoUnderWay, UserUnderWay
<1>3. AutoIsFirst' /\ OneOfUser'
  BY <1>1, SameRequests, SameResults, SameBatch DEF Underway, AutoIsFirst, OneOfUser
<1> QED
  BY <1>2, <1>3, SameRequests, SameResults, SameBatch DEF Underway

(* Steps of the worker: they touch neither the window nor the executable. *)
LEMMA StepWorker == IInv /\ Worker => IInv'
<1> SUFFICES ASSUME Types, Underway, Offers, Replacing, Worker PROVE IInv'
  BY DEF IInv
<1> USE DEF uiVars, boundVars, workerVars
\* The window stays as it is, and what is under way does not grow.
<1>0. ASSUME UNCHANGED <<batch, settings, in_progress, pending, ui, app, restart, reported>>,
             disk'.exe = disk.exe, disk'.backup = disk.backup,
             AutoUnderWay' => AutoUnderWay
      PROVE  Offers' /\ Replacing'
  BY <1>0 DEF Offers, Replacing
<1>1. CASE StartWorker
  <2>1. worker' \in Workers /\ worker'.at \in {"idle", "dead"}
    BY <1>1, ChunksAssumption DEF StartWorker, Workers, Idle
  <2>2. Types'
    BY <1>1, <2>1 DEF StartWorker, Types
  <2>3. Underway' /\ (AutoUnderWay' => AutoUnderWay)
    BY <1>1, <2>1, SameQueues DEF StartWorker, Underway
  <2> QED
    BY <1>0, <1>1, <2>2, <2>3 DEF IInv, StartWorker
<1>2. CASE ReceiveRequest
  <2>1. CASE /\ requests # << >> /\ requests' = Tail(requests)
             /\ worker' = [at |-> "serving", request |-> Head(requests), chunk |-> 0]
    <3>1. /\ Head(requests) \in Asked /\ requests' \in Seq(Asked)
          /\ RequestsInOrder' /\ ~AutoAsked'
          /\ UserAsked' => UserAsked
          /\ Head(requests) = "auto" => AutoAsked
          /\ Head(requests) # "auto" => UserAsked /\ ~UserAsked'
      BY <2>1, TakeRequest DEF Types, Underway
    <3>2. worker' \in Workers /\ worker'.at = "serving" /\ worker'.request = Head(requests)
      BY <2>1, <3>1, ChunksAssumption DEF Workers
    <3>3. Types'
      BY <1>2, <3>1, <3>2 DEF ReceiveRequest, Types
    <3>4. (Serves(TRUE)' => AutoAsked) /\ (Serves(FALSE)' => UserAsked /\ ~UserAsked')
      BY <3>1, <3>2 DEF Serves
    <3>5. UNCHANGED <<results, batch, settings, in_progress>>
      BY <1>2 DEF ReceiveRequest
    <3>6. AutoIsFirst'
      BY <3>1, <3>4, <3>5, SameResults, SameBatch DEF Underway, AutoIsFirst
    <3>7. OneOfUser'
      BY <3>1, <3>4, <3>5, SameResults, SameBatch DEF Underway, OneOfUser
    <3>8. (UserUnderWay' => UserUnderWay) /\ (AutoUnderWay' => AutoUnderWay)
      BY <3>1, <3>4, <3>5, SameResults, SameBatch DEF UserUnderWay, AutoUnderWay
    <3>9. Underway'
      BY <3>1, <3>5, <3>6, <3>7, <3>8, SameResults, SameBatch DEF Underway
    <3> QED
      BY <1>0, <1>2, <3>3, <3>8, <3>9 DEF IInv, ReceiveRequest
  <2>2. CASE UNCHANGED requests /\ worker' = [Idle EXCEPT !.at = "exited"]
    <3>1. worker' \in Workers /\ worker'.at = "exited"
      BY <2>2, ChunksAssumption DEF Workers, Idle
    <3>2. Types'
      BY <1>2, <2>2, <3>1 DEF ReceiveRequest, Types
    <3>3. Underway' /\ (AutoUnderWay' => AutoUnderWay)
      BY <1>2, <2>2, <3>1, SameQueues DEF ReceiveRequest, Underway
    <3> QED
      BY <1>0, <1>2, <3>2, <3>3 DEF IInv, ReceiveRequest
  <2> QED
    BY <1>2, <2>1, <2>2 DEF ReceiveRequest
\* An outcome is pushed.
<1>3. ASSUME NEW is \in {"available", "up to date", "error", "staged"}, Push(is),
             worker.at = "serving",
             UNCHANGED <<requests, batch, settings, in_progress>>
      PROVE  /\ worker' \in Workers /\ worker'.at = "notifying" /\ worker'.request \in Asked
             /\ results' \in Seq(Outcomes)
             /\ Underway' /\ (AutoUnderWay' => AutoUnderWay)
  <2> DEFINE o == [of |-> worker.request, is |-> is]
  <2>1. /\ o \in Outcomes /\ results' = Append(results, o)
        /\ worker' \in Workers /\ worker'.at = "notifying" /\ worker'.request = worker.request
    BY <1>3 DEF Push, Outcomes, Types, Workers
  <2>2. (o.of = "auto" => Serves(TRUE)) /\ (o.of # "auto" => Serves(FALSE))
    BY <1>3 DEF Serves
  <2>3. /\ o.of = "auto" => results = << >>
        /\ o.of # "auto" => ~HasUser(results) /\ ~HasUser(batch) /\ ~UserAsked
    BY <2>2 DEF Underway, AutoIsFirst, OneOfUser
  <2>4. /\ results' \in Seq(Outcomes) /\ AutoBeforeUser(results')
        /\ HasAuto(results') => HasAuto(results) \/ o.of = "auto"
        /\ HasUser(results') => HasUser(results) \/ o.of # "auto"
    <3> HIDE DEF o
    <3> QED
      BY <2>1, <2>3, PutOutcome DEF Types, Underway
  <2>5. ~Serves(TRUE)' /\ ~Serves(FALSE)'
    BY <2>1 DEF Serves
  <2>6. (HasAuto(results)' => HasAuto(results) \/ Serves(TRUE))
        /\ (HasUser(results)' => HasUser(results) \/ Serves(FALSE))
        /\ AutoBeforeUser(results)'
    BY <2>2, <2>4 DEF HasAuto, HasUser, AutoBeforeUser
  <2>7. (AutoUnderWay' => AutoUnderWay) /\ (UserUnderWay' => UserUnderWay)
    BY <1>3, <2>5, <2>6, SameRequests, SameBatch DEF AutoUnderWay, UserUnderWay
  <2>8. AutoIsFirst'
    BY <1>3, <2>5, <2>6, SameRequests, SameBatch DEF Underway, AutoIsFirst
  <2>9. OneOfUser'
    BY <1>3, <2>5, <2>6, SameRequests, SameBatch DEF Underway, OneOfUser
  <2>10. Underway'
    BY <1>3, <2>6, <2>7, <2>8, <2>9, SameRequests, SameBatch DEF Underway
  <2> QED
    BY <1>3, <2>1, <2>4, <2>7, <2>10 DEF Types
<1>4. CASE FinishCheck
  <2>1. PICK is \in {"available", "up to date", "error"} : Push(is)
    BY <1>4 DEF FinishCheck
  <2>2. /\ worker' \in Workers /\ worker'.at = "notifying" /\ worker'.request \in Asked
        /\ results' \in Seq(Outcomes)
        /\ Underway' /\ (AutoUnderWay' => AutoUnderWay)
    BY <1>3, <1>4, <2>1 DEF FinishCheck
  <2>3. Types'
    BY <1>4, <2>2 DEF FinishCheck, Types
  <2> QED
    BY <1>0, <1>4, <2>2, <2>3 DEF IInv, FinishCheck
<1>5. CASE ReceiveChunk
  <2>1. /\ worker' \in Workers /\ worker'.at = worker.at /\ worker'.request = worker.request
        /\ disk' \in FileStates /\ disk'.exe = disk.exe /\ disk'.backup = disk.backup
    <3>1. worker' = [worker EXCEPT !.chunk = worker.chunk + 1] /\ worker.chunk < Chunks
          /\ disk' = [disk EXCEPT !.staged = TRUE]
      BY <1>5 DEF ReceiveChunk
    <3>2. worker.chunk + 1 \in 0..Chunks
      BY <3>1, ChunksAssumption DEF Types, Workers
    <3> QED
      BY <3>1, <3>2 DEF Types, Workers, FileStates
  <2>2. messages' \in Seq(Messages)
    BY <1>5, NotifyType DEF ReceiveChunk, Types, Messages
  <2>3. Types'
    BY <1>5, <2>1, <2>2 DEF ReceiveChunk, Types
  <2>4. Underway' /\ (AutoUnderWay' => AutoUnderWay)
    BY <1>5, <2>1, SameQueues DEF ReceiveChunk, Underway
  <2> QED
    BY <1>0, <1>5, <2>1, <2>3, <2>4 DEF IInv, ReceiveChunk
<1>6. CASE FinishDownload
  <2>1. PICK is \in {"staged", "error"} : Push(is)
    BY <1>6 DEF FinishDownload
  <2>2. /\ worker' \in Workers /\ worker'.at = "notifying" /\ worker'.request \in Asked
        /\ results' \in Seq(Outcomes)
        /\ Underway' /\ (AutoUnderWay' => AutoUnderWay)
    BY <1>3, <1>6, <2>1 DEF FinishDownload
  <2>3. disk' \in FileStates /\ disk'.exe = disk.exe /\ disk'.backup = disk.backup
    BY <1>6 DEF FinishDownload, Types, FileStates
  <2>4. messages' \in Seq(Messages)
    BY <1>6, NotifyType DEF FinishDownload, Types, Messages
  <2>5. Types'
    BY <1>6, <2>2, <2>3, <2>4 DEF FinishDownload, Types
  <2> QED
    BY <1>0, <1>6, <2>2, <2>3, <2>5 DEF IInv, FinishDownload
<1>7. CASE NotifyResult
  <2>1. worker' \in Workers /\ worker'.at = "idle"
    BY <1>7, ChunksAssumption DEF NotifyResult, Workers, Idle
  <2>2. messages' \in Seq(Messages)
    BY <1>7, NotifyType DEF NotifyResult, Types, Messages
  <2>3. Types'
    BY <1>7, <2>1, <2>2 DEF NotifyResult, Types
  <2>4. Underway' /\ (AutoUnderWay' => AutoUnderWay)
    BY <1>7, <2>1, SameQueues DEF NotifyResult, Underway
  <2> QED
    BY <1>0, <1>7, <2>3, <2>4 DEF IInv, NotifyResult
<1> QED
  BY <1>1, <1>2, <1>4, <1>5, <1>6, <1>7 DEF Worker

(* What the window shows after a handler.                                  *)
LEMMA ShowsWindow ==
  ASSUME settings \in SettingsStates, NEW a \in BOOLEAN, NEW e \in BOOLEAN, NEW x \in Texts,
         Shows(a, e, x)
  PROVE  /\ settings' \in SettingsStates /\ settings'.open = settings.open
         /\ settings.open => settings'.available = a /\ settings'.enabled = e
         /\ ~settings.open => settings' = settings
BY DEF Shows, SettingsStates

(* Steps of the user: they put nothing under way themselves.               *)
LEMMA StepUser == IInv /\ User => IInv'
<1> SUFFICES ASSUME Types, Underway, Offers, Replacing, User PROVE IInv'
  BY DEF IInv
<1> USE DEF uiVars, boundVars, workerVars, CommandUnchanged
<1>1. /\ UNCHANGED <<worker, requests, results, batch, ui, in_progress, pending, disk, app,
                     restart, reported>>
  BY DEF User, OpenSettings, CloseSettings, ClickUpdateButton, StartFileTranslation,
     EndFileTranslation, CloseWindow
<1>2. /\ settings' \in SettingsStates
      /\ settings' = settings \/ (~settings'.available /\ settings'.enabled)
      /\ ~settings'.open => settings' = Closed
  <2>1. CASE UNCHANGED settings
    BY <2>1 DEF Types, Offers
  <2>2. CASE settings' = [Closed EXCEPT !.open = TRUE] \/ settings' = Closed
    <3>1. \/ settings' = [open |-> TRUE, available |-> FALSE, enabled |-> TRUE, text |-> "none"]
          \/ settings' = [open |-> FALSE, available |-> FALSE, enabled |-> TRUE, text |-> "none"]
             /\ settings' = Closed
      BY <2>2 DEF Closed
    <3>2. settings' \in SettingsStates /\ ~settings'.available /\ settings'.enabled
      <4>1. CASE settings' =
                   [open |-> TRUE, available |-> FALSE, enabled |-> TRUE, text |-> "none"]
        BY <4>1 DEF SettingsStates, Texts
      <4>2. CASE settings' =
                   [open |-> FALSE, available |-> FALSE, enabled |-> TRUE, text |-> "none"]
        BY <4>2 DEF SettingsStates, Texts
      <4> QED
        BY <3>1, <4>1, <4>2
    <3>3. ~settings'.open => settings' = Closed
      BY <3>1
    <3> QED
      BY <3>2, <3>3
  <2> QED
    BY <2>1, <2>2 DEF User, OpenSettings, CloseSettings, ClickUpdateButton,
       StartFileTranslation, EndFileTranslation, CloseWindow
<1>3. messages' \in Seq(Messages)
  <2>1. messages' = messages \/ \E m \in Messages : messages' = Append(messages, m)
    BY DEF User, OpenSettings, CloseSettings, ClickUpdateButton, StartFileTranslation,
       EndFileTranslation, CloseWindow, Messages
  <2>2. ASSUME NEW m \in Messages, messages' = Append(messages, m)
        PROVE  messages' \in Seq(Messages)
    BY <2>2 DEF Types
  <2> QED
    BY <2>1, <2>2 DEF Types
<1>4. fileJob' \in BOOLEAN
  BY DEF User, OpenSettings, CloseSettings, ClickUpdateButton, StartFileTranslation,
     EndFileTranslation, CloseWindow, Types
<1>5. Types'
  BY <1>1, <1>2, <1>3, <1>4 DEF Types
<1>6. Underway' /\ (AutoUnderWay' => AutoUnderWay)
  BY <1>1, <1>2, SameQueues DEF Underway
<1>7. Offers' /\ Replacing'
  BY <1>1, <1>2, <1>6 DEF Offers, Replacing
<1> QED
  BY <1>5, <1>6, <1>7 DEF IInv

(* The handlers of commands and progress.                                  *)
LEMMA StepCommands ==
  ASSUME IInv, StartManualCheck \/ StartUpdateApply \/ Confirm \/ HandleProgress
  PROVE  IInv'
<1> SUFFICES ASSUME Types, Underway, Offers, Replacing PROVE IInv'
  BY DEF IInv
<1> USE DEF uiVars, boundVars, workerVars, HandlerUnchanged
<1>1. ASSUME NEW m \in Messages, Handles(m)
      PROVE  messages' \in Seq(Messages) /\ ui = "idle" /\ app = "running"
  BY <1>1 DEF Handles, Types
\* An operation of the user is asked for.
<1>2. ASSUME NEW r \in {"manual", "download"}, Request(r), ~in_progress, in_progress',
             UNCHANGED <<worker, results, batch>>, ~settings'.available
      PROVE  requests' \in Seq(Asked) /\ Underway' /\ (AutoUnderWay' => AutoUnderWay)
  <2>1. ~UserUnderWay /\ ~UserAsked
    BY <1>2 DEF Underway, UserUnderWay
  <2>2. requests' \in Seq(Asked) /\ RequestsInOrder' /\ (AutoAsked' => AutoAsked)
    BY <1>2, <2>1, AskForUser DEF Types, Underway
  <2>3. (Serves(TRUE)' <=> Serves(TRUE)) /\ (Serves(FALSE)' <=> Serves(FALSE))
    BY <1>2 DEF Serves
  <2>4. AutoIsFirst'
    BY <1>2, <2>2, <2>3, SameResults, SameBatch DEF Underway, AutoIsFirst
  <2>5. OneOfUser'
    BY <1>2, <2>1, <2>3, SameResults, SameBatch DEF OneOfUser, UserUnderWay
  <2>6. AutoUnderWay' => AutoUnderWay
    BY <1>2, <2>2, <2>3, SameResults, SameBatch DEF AutoUnderWay
  <2> QED
    BY <1>2, <2>2, <2>4, <2>5, <2>6, SameResults, SameBatch DEF Underway
<1>3. CASE StartManualCheck
  <2>1. /\ messages' \in Seq(Messages) /\ ui = "idle" /\ app = "running"
        /\ UNCHANGED <<worker, results, batch, ui, app, pending, fileJob, disk, restart, reported>>
    BY <1>1, <1>3 DEF StartManualCheck, Messages
  <2>2. CASE in_progress
    <3>1. UNCHANGED <<in_progress, settings, requests>>
      BY <1>3, <2>2 DEF StartManualCheck
    <3>2. Underway' /\ (AutoUnderWay' => AutoUnderWay)
      BY <2>1, <3>1, SameQueues DEF Underway
    <3>3. Types' /\ Offers' /\ Replacing'
      BY <2>1, <3>1, <3>2 DEF Types, Offers, Replacing
    <3> QED
      BY <3>2, <3>3 DEF IInv
  <2>3. CASE ~in_progress
    <3>1. in_progress' = TRUE /\ Shows(FALSE, FALSE, "checking") /\ Request("manual")
      BY <1>3, <2>3 DEF StartManualCheck
    <3>2. /\ settings' \in SettingsStates /\ settings'.open = settings.open
          /\ ~settings'.open => settings' = Closed
          /\ ~settings'.available
      <4>1. /\ settings' \in SettingsStates /\ settings'.open = settings.open
            /\ settings.open => settings'.available = FALSE
            /\ ~settings.open => settings' = settings
        BY <3>1, ShowsWindow DEF Types, Texts
      <4>2. ~settings.open => settings = Closed /\ ~settings.available
        BY DEF Offers, Closed
      <4> QED
        BY <4>1, <4>2
    <3>3. requests' \in Seq(Asked) /\ Underway' /\ (AutoUnderWay' => AutoUnderWay)
      BY <1>2, <2>1, <2>3, <3>1, <3>2
    <3>4. Types' /\ Offers' /\ Replacing'
      BY <2>1, <3>1, <3>2, <3>3 DEF Types, Offers, Replacing
    <3> QED
      BY <3>3, <3>4 DEF IInv
  <2> QED
    BY <2>2, <2>3 DEF Types
<1>4. CASE StartUpdateApply
  <2>1. /\ messages' \in Seq(Messages) /\ ui = "idle" /\ app = "running"
        /\ UNCHANGED <<worker, requests, results, batch, app, in_progress, pending, fileJob, disk,
                       restart, reported>>
    BY <1>1, <1>4 DEF StartUpdateApply, Messages
  <2>2. (ui' = "idle" \/ (ui' = "confirm" /\ ~in_progress))
        /\ (UNCHANGED settings \/ ShowsText("file job"))
    BY <1>4, <2>1 DEF StartUpdateApply
  <2>3. /\ settings' \in SettingsStates /\ settings'.open = settings.open
        /\ ~settings'.open => settings' = Closed
        /\ settings'.available = settings.available /\ settings'.enabled = settings.enabled
    <3>1. settings.available \in BOOLEAN /\ settings.enabled \in BOOLEAN
      BY DEF Types, SettingsStates
    <3> QED
      BY <2>2, <3>1, ShowsWindow DEF ShowsText, Types, Offers, Texts
  <2>4. Underway' /\ (AutoUnderWay' => AutoUnderWay)
    BY <2>1, <2>3, SameQueues DEF Underway
  <2>5. Types' /\ Offers' /\ Replacing'
    BY <2>1, <2>2, <2>3, <2>4 DEF Types, Offers, Replacing
  <2> QED
    BY <2>4, <2>5 DEF IInv
<1>5. CASE Confirm
  <2>1. /\ ui = "confirm" /\ ui' = "idle" /\ app = "running" /\ ~in_progress
        /\ UNCHANGED <<worker, results, batch, messages, app, fileJob, disk, restart, reported>>
    BY <1>5 DEF Confirm, Offers, Replacing, Types
  <2>2. CASE UNCHANGED <<in_progress, pending, settings, requests>>
    <3>1. Underway' /\ (AutoUnderWay' => AutoUnderWay)
      BY <2>1, <2>2, SameQueues DEF Underway
    <3>2. Types' /\ Offers' /\ Replacing'
      BY <2>1, <2>2, <3>1 DEF Types, Offers, Replacing
    <3> QED
      BY <3>1, <3>2 DEF IInv
  <2>3. CASE /\ in_progress' = TRUE /\ pending' = FALSE
             /\ Shows(FALSE, FALSE, "downloading") /\ Request("download")
    <3>1. /\ settings' \in SettingsStates /\ settings'.open = settings.open
          /\ ~settings'.open => settings' = Closed
          /\ ~settings'.available
      <4>1. /\ settings' \in SettingsStates /\ settings'.open = settings.open
            /\ settings.open => settings'.available = FALSE
            /\ ~settings.open => settings' = settings
        BY <2>3, ShowsWindow DEF Types, Texts
      <4>2. ~settings.open => settings = Closed /\ ~settings.available
        BY DEF Offers, Closed
      <4> QED
        BY <4>1, <4>2
    <3>2. requests' \in Seq(Asked) /\ Underway' /\ (AutoUnderWay' => AutoUnderWay)
      BY <1>2, <2>1, <2>3, <3>1
    <3>3. Types' /\ Offers' /\ Replacing'
      BY <2>1, <2>3, <3>1, <3>2 DEF Types, Offers, Replacing
    <3> QED
      BY <3>2, <3>3 DEF IInv
  <2>4. CASE /\ pending' = FALSE /\ Shows(FALSE, TRUE, "error")
             /\ UNCHANGED <<in_progress, requests>>
    <3>1. /\ settings' \in SettingsStates /\ settings'.open = settings.open
          /\ settings.open => settings'.available = FALSE /\ settings'.enabled
          /\ ~settings.open => settings' = settings
      BY <2>4, ShowsWindow DEF Types, Texts
    <3>2. /\ ~settings'.open => settings' = Closed
          /\ ~settings'.available /\ settings'.enabled
      BY <3>1 DEF Offers, Closed
    <3>3. Underway' /\ (AutoUnderWay' => AutoUnderWay)
      BY <2>1, <2>4, <3>2, SameQueues DEF Underway
    <3>4. Types' /\ Offers' /\ Replacing'
      BY <2>1, <2>4, <3>1, <3>2, <3>3 DEF Types, Offers, Replacing
    <3> QED
      BY <3>3, <3>4 DEF IInv
  <2> QED
    BY <1>5, <2>2, <2>3, <2>4 DEF Confirm
<1>6. CASE HandleProgress
  <2>1. /\ messages' \in Seq(Messages) /\ ui = "idle" /\ app = "running"
        /\ UNCHANGED <<worker, requests, results, batch, ui, app, in_progress, pending, fileJob,
                       disk, restart, reported>>
        /\ UNCHANGED settings \/ ShowsText("downloading")
    BY <1>1, <1>6 DEF HandleProgress, Messages
  <2>2. /\ settings' \in SettingsStates /\ settings'.open = settings.open
        /\ ~settings'.open => settings' = Closed
        /\ settings'.available = settings.available /\ settings'.enabled = settings.enabled
    <3>1. settings.available \in BOOLEAN /\ settings.enabled \in BOOLEAN
      BY DEF Types, SettingsStates
    <3> QED
      BY <2>1, <3>1, ShowsWindow DEF ShowsText, Types, Offers, Texts
  <2>3. Underway' /\ (AutoUnderWay' => AutoUnderWay)
    BY <2>1, <2>2, SameQueues DEF Underway
  <2>4. Types' /\ Offers' /\ Replacing'
    BY <2>1, <2>2, <2>3 DEF Types, Offers, Replacing
  <2> QED
    BY <2>3, <2>4 DEF IInv
<1> QED
  BY <1>3, <1>4, <1>5, <1>6

(* The handlers of outcomes.                                               *)
LEMMA StepOutcomes ==
  ASSUME IInv, HandleResult \/ CheckSettled \/ DownloadSettled
  PROVE  IInv'
<1> SUFFICES ASSUME Types, Underway, Offers, Replacing PROVE IInv'
  BY DEF IInv
<1> USE DEF uiVars, boundVars, workerVars, HandlerUnchanged
<1>1. CASE HandleResult
  <2>1. /\ messages' \in Seq(Messages) /\ ui = "idle" /\ app = "running"
        /\ batch' = results /\ results' = << >>
        /\ ui' = IF results = << >> THEN "idle" ELSE "results"
        /\ UNCHANGED <<worker, requests, settings, in_progress, pending, fileJob, disk, app,
                       restart, reported>>
    BY <1>1 DEF HandleResult, Handles, Drained, Types
  <2>2. results' \in Seq(Outcomes) /\ batch' \in Seq(Outcomes)
    BY <2>1 DEF Types
  <2>3. ~HasAuto(results)' /\ ~HasUser(results)' /\ AutoBeforeUser(results)'
    BY <2>1, NoOutcome DEF HasAuto, HasUser, AutoBeforeUser
  <2>4. /\ HasAuto(batch)' <=> HasAuto(results)
        /\ HasUser(batch)' <=> HasUser(results)
        /\ AutoBeforeUser(batch)' <=> AutoBeforeUser(results)
    BY <2>1 DEF HasAuto, HasUser, AutoBeforeUser
  <2>5. (Serves(TRUE)' <=> Serves(TRUE)) /\ (Serves(FALSE)' <=> Serves(FALSE))
    BY <2>1 DEF Serves
  <2>6. AutoIsFirst' /\ OneOfUser'
    BY <2>1, <2>3, <2>4, <2>5, SameRequests DEF Underway, AutoIsFirst, OneOfUser
  <2>7. (AutoUnderWay' => AutoUnderWay) /\ (UserUnderWay' => UserUnderWay)
    BY <2>1, <2>3, <2>4, <2>5, SameRequests DEF AutoUnderWay, UserUnderWay
  <2>8. Underway'
    BY <2>1, <2>3, <2>4, <2>6, <2>7, SameRequests DEF Underway
  <2>9. Types' /\ Offers' /\ Replacing'
    BY <2>1, <2>2, <2>7 DEF Types, Offers, Replacing
  <2> QED
    BY <2>8, <2>9 DEF IInv
\* The first outcome of the batch is taken.
<1>2. ASSUME ui = "results", batch' = Tail(batch),
             UNCHANGED <<worker, requests, results, app, fileJob, messages>>
      PROVE  /\ Head(batch) \in Outcomes /\ batch' \in Seq(Outcomes)
             /\ Head(batch).of = "auto" => AutoUnderWay
             /\ Head(batch).of # "auto" =>
                   UserUnderWay /\ ~UserUnderWay' /\ ~AutoUnderWay'
             /\ (UserUnderWay' => UserUnderWay) /\ (AutoUnderWay' => AutoUnderWay)
             /\ (UserUnderWay' => in_progress' /\ ~settings'.available) => Underway'
             /\ AfterOutcome \in {"idle", "results"}
             /\ AfterOutcome = "results" => batch' # << >>
             /\ app = "running"
  <2>1. batch # << >> /\ app = "running"
    BY <1>2 DEF Replacing
  <2>2. /\ Head(batch) \in Outcomes /\ batch' \in Seq(Outcomes)
        /\ AutoBeforeUser(batch)' /\ ~HasAuto(batch)'
        /\ HasUser(batch)' => HasUser(batch)
        /\ Head(batch).of = "auto" => HasAuto(batch)
        /\ Head(batch).of # "auto" => HasUser(batch) /\ ~HasUser(batch)'
    <3>1. /\ AutoBeforeUser(Tail(batch)) <=> AutoBeforeUser(batch)'
          /\ HasAuto(Tail(batch)) <=> HasAuto(batch)'
          /\ HasUser(Tail(batch)) <=> HasUser(batch)'
      BY <1>2 DEF AutoBeforeUser, HasAuto, HasUser
    <3>2. batch \in Seq(Outcomes) /\ AutoBeforeUser(batch)
      BY DEF Types, Underway
    <3> QED
      BY <1>2, <2>1, <3>1, <3>2, TakeOutcome
  <2>3. (Serves(TRUE)' <=> Serves(TRUE)) /\ (Serves(FALSE)' <=> Serves(FALSE))
    BY <1>2 DEF Serves
  <2>4. ~AutoAsked /\ ~Serves(TRUE) /\ ~HasAuto(results)
    BY <2>1 DEF Underway, AutoIsFirst
  <2>5. ~AutoUnderWay' /\ (UserUnderWay' => UserUnderWay)
    BY <1>2, <2>2, <2>3, <2>4, SameRequests, SameResults DEF AutoUnderWay, UserUnderWay
  <2>6. Head(batch).of # "auto" => UserUnderWay /\ ~UserUnderWay'
    BY <1>2, <2>2, <2>3, SameRequests, SameResults DEF Underway, OneOfUser, UserUnderWay
  <2>7. Head(batch).of = "auto" => AutoUnderWay
    BY <2>2 DEF AutoUnderWay
  <2>8. AutoIsFirst' /\ OneOfUser'
    BY <1>2, <2>2, <2>3, <2>4, SameRequests, SameResults DEF Underway, AutoIsFirst, OneOfUser
  <2>9. (UserUnderWay' => in_progress' /\ ~settings'.available) => Underway'
    BY <1>2, <2>2, <2>8, SameRequests, SameResults DEF Underway
  <2>10. AfterOutcome \in {"idle", "results"} /\ (AfterOutcome = "results" => batch' # << >>)
    <3>1. Len(batch) \in Nat /\ Len(batch) >= 1 /\ Len(Tail(batch)) = Len(batch) - 1
      BY <2>1 DEF Types
    <3>2. CASE Len(batch) = 1
      BY <3>2 DEF AfterOutcome
    <3>3. CASE Len(batch) # 1
      <4>1. Len(Tail(batch)) # 0
        BY <3>1, <3>3
      <4>2. Tail(batch) # << >>
        <5>1. Len(<< >>) = 0
          OBVIOUS
        <5> QED
          BY <4>1, <5>1
      <4> QED
        BY <1>2, <3>3, <4>2 DEF AfterOutcome
    <3> QED
      BY <3>2, <3>3
  <2> QED
    BY <2>1, <2>2, <2>5, <2>6, <2>7, <2>9, <2>10
<1>3. CASE CheckSettled
  <2>1. PICK of \in {"auto", "manual"} :
           /\ Outcome(of) /\ ui' = AfterOutcome
           /\ pending' = (Head(batch).is = "available")
           /\ IF of = "auto"
                THEN UNCHANGED <<in_progress, settings>>
                ELSE /\ in_progress' = FALSE
                     /\ Shows(settings.available \/ Head(batch).is = "available", TRUE,
                              Head(batch).is)
    BY <1>3 DEF CheckSettled
  <2>2. /\ UNCHANGED <<worker, requests, results, app, fileJob, messages, disk, restart, reported>>
        /\ ui = "results" /\ batch' = Tail(batch) /\ Head(batch).of = of
    BY <1>3, <2>1 DEF CheckSettled, Outcome
  <2>3. /\ Head(batch) \in Outcomes /\ batch' \in Seq(Outcomes)
        /\ Head(batch).of = "auto" => AutoUnderWay
        /\ Head(batch).of # "auto" =>
              UserUnderWay /\ ~UserUnderWay' /\ ~AutoUnderWay'
        /\ (UserUnderWay' => UserUnderWay) /\ (AutoUnderWay' => AutoUnderWay)
        /\ (UserUnderWay' => in_progress' /\ ~settings'.available) => Underway'
        /\ AfterOutcome \in {"idle", "results"}
        /\ AfterOutcome = "results" => batch' # << >>
        /\ app = "running"
    BY <1>2, <2>2
  <2>4. Replacing'
    BY <2>1, <2>2, <2>3 DEF Replacing
  <2>5. CASE of = "auto"
    <3>1. UNCHANGED <<in_progress, settings>> /\ ~settings.available
      BY <2>1, <2>2, <2>3, <2>5 DEF Offers
    <3>2. Underway'
      BY <2>3, <3>1 DEF Underway
    <3>3. Types' /\ Offers'
      BY <2>1, <2>2, <2>3, <3>1 DEF Types, Offers
    <3> QED
      BY <2>4, <3>2, <3>3 DEF IInv
  <2>6. CASE of = "manual"
    <3>1. /\ in_progress' = FALSE
          /\ Shows(settings.available \/ Head(batch).is = "available", TRUE, Head(batch).is)
      BY <2>1, <2>6
    <3>2. ~settings.available /\ ~UserUnderWay' /\ ~AutoUnderWay'
      BY <2>2, <2>3, <2>6 DEF Underway
    <3>3. Head(batch).is \in Texts /\ (settings.available \/ Head(batch).is = "available") \in BOOLEAN
      BY <2>3 DEF Outcomes, Texts
    <3>4. /\ settings' \in SettingsStates /\ settings'.open = settings.open
          /\ settings.open =>
               /\ settings'.available = (settings.available \/ Head(batch).is = "available")
               /\ settings'.enabled = TRUE
          /\ ~settings.open => settings' = settings
      BY <3>1, <3>3, ShowsWindow DEF Types
    <3>5. Offers'
      <4>1. settings'.available => pending'
        BY <2>1, <3>2, <3>4
      <4>2. settings'.enabled /\ (~settings'.open => settings' = Closed)
        BY <3>4 DEF Offers, Closed
      <4> QED
        BY <2>1, <2>3, <3>2, <4>1, <4>2 DEF Offers
    <3>6. Underway'
      BY <2>3, <3>2
    <3>7. Types'
      BY <2>1, <2>2, <2>3, <3>1, <3>4 DEF Types
    <3> QED
      BY <2>4, <3>5, <3>6, <3>7 DEF IInv
  <2> QED
    BY <2>5, <2>6
<1>4. CASE DownloadSettled
  <2>1. /\ UNCHANGED <<worker, requests, results, app, fileJob, messages, pending, disk, restart,
                       reported>>
        /\ ui = "results" /\ batch' = Tail(batch) /\ Head(batch).of = "download"
        /\ in_progress' = FALSE
        /\ \/ ui' = "apply" /\ Shows(settings.available, TRUE, settings.text)
           \/ ui' = AfterOutcome /\ Shows(settings.available, TRUE, "error")
    BY <1>4 DEF DownloadSettled, Outcome
  <2>2. /\ batch' \in Seq(Outcomes) /\ UserUnderWay /\ ~UserUnderWay'
        /\ (UserUnderWay' => in_progress' /\ ~settings'.available) => Underway'
        /\ AfterOutcome \in {"idle", "results"}
        /\ AfterOutcome = "results" => batch' # << >>
        /\ app = "running"
    BY <1>2, <2>1
  <2>3. ~settings.available /\ settings.text \in Texts /\ settings \in SettingsStates
    BY <2>2 DEF Underway, Types, SettingsStates
  <2>4. /\ settings' \in SettingsStates /\ settings'.open = settings.open
        /\ settings.open => settings'.available = settings.available /\ settings'.enabled = TRUE
        /\ ~settings.open => settings' = settings
    <3>1. settings.available \in BOOLEAN /\ "error" \in Texts
      BY <2>3 DEF SettingsStates, Texts
    <3> QED
      BY <2>1, <2>3, <3>1, ShowsWindow
  <2>5. /\ ~settings'.available /\ settings'.enabled
        /\ ~settings'.open => settings' = Closed
    BY <2>3, <2>4 DEF Offers, Closed
  <2>6. Underway'
    BY <2>2
  <2>7. Types' /\ Offers' /\ Replacing'
    BY <2>1, <2>2, <2>4, <2>5 DEF Types, Offers, Replacing
  <2> QED
    BY <2>6, <2>7 DEF IInv
<1> QED
  BY <1>1, <1>3, <1>4

(* The steps that replace the executable, and those that end the process.  *)
LEMMA StepApply ==
  ASSUME IInv, Apply \/ HandleClose \/ EndProcess
  PROVE  IInv'
<1> SUFFICES ASSUME Types, Underway, Offers, Replacing PROVE IInv'
  BY DEF IInv
<1> USE DEF uiVars, boundVars, workerVars, HandlerUnchanged, ApplyUnchanged
\* Only what is shown as a text changes in the window.
<1>1. ASSUME UNCHANGED settings \/ \E x \in Texts : ShowsText(x),
             UNCHANGED <<worker, requests, results, batch, in_progress, pending, fileJob, app>>,
             ui' # "confirm"
      PROVE  settings' \in SettingsStates /\ Underway' /\ Offers'
  <2>1. /\ settings' \in SettingsStates /\ settings'.open = settings.open
        /\ settings'.available = settings.available /\ settings'.enabled = settings.enabled
        /\ ~settings.open => settings' = settings
    <3>1. settings.available \in BOOLEAN /\ settings.enabled \in BOOLEAN /\ settings \in SettingsStates
      BY DEF Types, SettingsStates
    <3>2. CASE UNCHANGED settings
      BY <3>1, <3>2
    <3>3. ASSUME NEW x \in Texts, ShowsText(x)
          PROVE  /\ settings' \in SettingsStates /\ settings'.open = settings.open
                 /\ settings'.available = settings.available
                 /\ settings'.enabled = settings.enabled
                 /\ ~settings.open => settings' = settings
      BY <3>1, <3>3, ShowsWindow DEF ShowsText
    <3> QED
      BY <1>1, <3>2, <3>3
  <2>2. Underway' /\ (AutoUnderWay' => AutoUnderWay)
    BY <1>1, <2>1, SameQueues DEF Underway
  <2>3. Offers'
    BY <1>1, <2>1, <2>2 DEF Offers
  <2> QED
    BY <2>1, <2>2, <2>3
<1>2. Resume \in {"idle", "results"} /\ (Resume = "results" => batch # << >>)
  BY DEF Resume
<1>3. {"error", "restarting"} \subseteq Texts
  BY DEF Texts
<1>4. CASE ApplyFails
  <2>1. settings' \in SettingsStates /\ Underway' /\ Offers'
    BY <1>1, <1>2, <1>3, <1>4 DEF ApplyFails
  <2>2. /\ disk' \in FileStates /\ disk'.exe = disk.exe
        /\ disk.exe # "old" => disk' = disk
    BY <1>4 DEF ApplyFails, Types, FileStates
  <2>3. /\ ui = "apply" /\ ui' = Resume
        /\ UNCHANGED <<worker, requests, results, batch, in_progress, pending, fileJob, app,
                       messages, restart, reported>>
    BY <1>4 DEF ApplyFails
  <2>4. Types'
    BY <1>2, <2>1, <2>2, <2>3 DEF Types
  <2>5. Replacing'
    BY <1>2, <2>2, <2>3 DEF Replacing
  <2> QED
    BY <2>1, <2>4, <2>5 DEF IInv
<1>5. CASE MoveToBackup
  <2>1. settings' \in SettingsStates /\ Underway' /\ Offers'
    BY <1>1, <1>5 DEF MoveToBackup
  <2>2. disk' \in FileStates /\ disk'.exe = "none" /\ disk'.backup /\ disk.exe = "old"
    BY <1>5 DEF MoveToBackup, Types, FileStates
  <2>3. /\ ui = "apply" /\ ui' = "place"
        /\ UNCHANGED <<worker, requests, results, batch, in_progress, pending, fileJob, app,
                       messages, restart, reported>>
    BY <1>5 DEF MoveToBackup
  <2>4. Types' /\ Replacing'
    BY <2>1, <2>2, <2>3 DEF Types, Replacing
  <2> QED
    BY <2>1, <2>4 DEF IInv
<1>6. CASE PlaceStaged
  <2>1. settings' \in SettingsStates /\ Underway' /\ Offers'
    BY <1>1, <1>2, <1>3, <1>6 DEF PlaceStaged
  <2>2. disk' \in FileStates /\ disk'.exe = "new"
    BY <1>6 DEF PlaceStaged, Types, FileStates
  <2>3. /\ ui = "place" /\ ui' = Resume /\ restart' \in BOOLEAN
        /\ UNCHANGED <<worker, requests, results, batch, in_progress, pending, fileJob, app, reported>>
    BY <1>6 DEF PlaceStaged
  <2>4. messages' \in Seq(Messages)
    <3>1. messages' = messages \/ messages' = Append(messages, "close")
      BY <1>6 DEF PlaceStaged
    <3>2. messages \in Seq(Messages) /\ "close" \in Messages
      BY DEF Types, Messages
    <3> QED
      BY <3>1, <3>2
  <2>5. Types' /\ Replacing'
    BY <1>2, <2>1, <2>2, <2>3, <2>4 DEF Types, Replacing
  <2> QED
    BY <2>1, <2>5 DEF IInv
<1>7. CASE PlacingFails
  <2>1. /\ ui = "place"
        /\ UNCHANGED <<worker, requests, results, batch, in_progress, pending, fileJob, app,
                       messages, restart, reported>>
        /\ \/ disk' = [disk EXCEPT !.exe = "old", !.backup = FALSE] /\ ui' = Resume
              /\ ShowsText("error")
           \/ ui' = "report" /\ disk' = disk /\ settings' = settings
    BY <1>7 DEF PlacingFails, Rollback
  <2>2. settings' \in SettingsStates /\ Underway' /\ Offers'
    BY <1>1, <1>2, <1>3, <2>1
  <2>3. disk' \in FileStates /\ ((disk'.exe = "old" /\ ui' = Resume) \/ (disk' = disk /\ ui' = "report"))
    <3>1. disk \in FileStates
      BY DEF Types
    <3>2. CASE disk' = [disk EXCEPT !.exe = "old", !.backup = FALSE] /\ ui' = Resume
      <4>1. disk' \in FileStates /\ disk'.exe = "old"
        BY <3>1, <3>2 DEF FileStates
      <4> QED
        BY <3>2, <4>1
    <3> QED
      BY <2>1, <3>1, <3>2
  <2>4. ~restart /\ app = "running"
    BY <2>1 DEF Replacing, Types
  <2>5. Types' /\ Replacing'
    BY <1>2, <2>1, <2>2, <2>3, <2>4 DEF Types, Replacing
  <2> QED
    BY <2>2, <2>5 DEF IInv
<1>8. CASE ReportBackup
  <2>1. settings' \in SettingsStates /\ Underway' /\ Offers'
    BY <1>1, <1>2, <1>3, <1>8 DEF ReportBackup
  <2>2. /\ ui = "report" /\ ui' = Resume /\ reported' = TRUE
        /\ UNCHANGED <<worker, requests, results, batch, in_progress, pending, fileJob, app,
                       messages, restart, disk>>
    BY <1>8 DEF ReportBackup
  <2>3. Types' /\ Replacing'
    BY <1>2, <2>1, <2>2 DEF Types, Replacing
  <2> QED
    BY <2>1, <2>3 DEF IInv
<1>9. CASE HandleClose
  <2>1. /\ messages' \in Seq(Messages) /\ ui = "idle" /\ app' = "leaving" /\ settings' = Closed
        /\ UNCHANGED <<worker, requests, results, batch, ui, in_progress, pending, fileJob, disk,
                       restart, reported>>
    BY <1>9 DEF HandleClose, Handles, Types
  <2>2. settings' \in SettingsStates /\ ~settings'.available /\ settings'.enabled
    BY <2>1 DEF Closed, SettingsStates, Texts
  <2>3. Underway' /\ (AutoUnderWay' => AutoUnderWay)
    BY <2>1, <2>2, SameQueues DEF Underway
  <2>4. Types' /\ Offers' /\ Replacing'
    BY <2>1, <2>2, <2>3 DEF Types, Offers, Replacing
  <2> QED
    BY <2>3, <2>4 DEF IInv
<1>10. CASE EndProcess
  <2>1. /\ app = "leaving" /\ app' = IF restart THEN "restarted" ELSE "ended"
        /\ worker' = [Idle EXCEPT !.at = "exited"] /\ restart' = FALSE /\ fileJob' = FALSE
        /\ UNCHANGED <<requests, results, messages, ui, batch, settings, in_progress, pending,
                       disk, reported>>
    BY <1>10 DEF EndProcess
  <2>2. worker' \in Workers /\ worker'.at = "exited"
    BY <2>1, ChunksAssumption DEF Workers, Idle
  <2>3. Underway' /\ (AutoUnderWay' => AutoUnderWay)
    BY <2>1, <2>2, SameQueues DEF Underway
  <2>4. Types' /\ Offers' /\ Replacing'
    BY <2>1, <2>2, <2>3 DEF Types, Offers, Replacing
  <2> QED
    BY <2>3, <2>4 DEF IInv
<1> QED
  BY <1>4, <1>5, <1>6, <1>7, <1>8, <1>9, <1>10 DEF Apply

(* Every step preserves the invariant.                                     *)
LEMMA StepIInv == IInv /\ [Next]_vars => IInv'
<1> SUFFICES ASSUME IInv, [Next]_vars PROVE IInv'
  OBVIOUS
<1>1. CASE Worker
  BY <1>1, StepWorker
<1>2. CASE User
  BY <1>2, StepUser
<1>3. CASE Ui
  BY <1>3, StepCommands, StepOutcomes, StepApply DEF Ui
<1>4. CASE UNCHANGED vars
  <2> USE DEF vars, workerVars, uiVars
  <2>1. Underway' /\ (AutoUnderWay' => AutoUnderWay)
    BY <1>4, SameQueues DEF IInv, Underway
  <2>2. Types' /\ Offers' /\ Replacing'
    BY <1>4, <2>1 DEF IInv, Types, Offers, Replacing
  <2> QED
    BY <2>1, <2>2 DEF IInv
<1> QED
  BY <1>1, <1>2, <1>3, <1>4 DEF Next

\* The invariant always holds.
LEMMA SpecIInv == Spec => []IInv
<1> QED
  BY InitIInv, StepIInv, PTL DEF Spec

-----------------------------------------------------------------------------
(* Theorems                                                                *)

(* Every variable keeps its type: the worker's state and its chunk count,  *)
(* where the UI thread is, and the three files beside each other.          *)
THEOREM TypeCorrect == Spec => []TypeOK
<1>1. IInv => TypeOK
  BY DEF IInv, Types, TypeOK, Workers, FileStates, Asked
<1> QED
  BY <1>1, SpecIInv, PTL

(* However checks, downloads, clicks and failures are interleaved, the     *)
(* button that reads "update now" has an update to apply and a disabled    *)
(* one an operation under way; and no failure of replacing the executable, *)
(* and no death of the process while it is replaced, leaves the user       *)
(* without the program (update/worker.rs, app/update.rs, update/apply.rs). *)
THEOREM UpdatesAreSafe == Spec => []UpdateIsSafe
<1>1. IInv => OffersAreBacked
  BY DEF IInv, Offers, OffersAreBacked
<1>2. IInv => ExeSurvives
  BY DEF IInv, Replacing, ExeSurvives
<1>3. IInv => UpdateIsSafe
  BY <1>1, <1>2 DEF UpdateIsSafe
<1> QED
  BY <1>3, SpecIInv, PTL

(* Where a check or a download that the user asked for may be, from the    *)
(* request to the batch in hand.                                           *)
UserOperations ==
    {<<"asked", i>> : i \in {k \in 1..Len(requests) : requests[k] # "auto"}}
    \cup {<<"served", i>> : i \in {k \in {1} : Serves(FALSE)}}
    \cup {<<"answered", i>> : i \in {k \in 1..Len(results) : results[k].of # "auto"}}
    \cup {<<"drained", i>> : i \in {k \in 1..Len(batch) : batch[k].of # "auto"}}

OneOperation ==
    /\ \A a, b \in UserOperations : a = b
    /\ UserOperations # {} => in_progress

\* However clicks, windows that are closed and opened again, automatic checks and lost messages
\* are interleaved: the channel, the worker, its outcomes and those in hand hold one check or
\* download of the user in all, and while there is one the flag is set by which the
\* application refuses another (app/update.rs, update_operation_in_progress).  The button of a
\* window that is opened meanwhile is enabled; its click comes to nothing.
THEOREM OneOperationAtATime == Spec => []OneOperation
<1>1. IInv => OneOperation
  <2> SUFFICES ASSUME Types, Underway PROVE OneOperation
    BY DEF IInv
  <2> DEFINE asked == {k \in 1..Len(requests) : requests[k] # "auto"}
             served == {k \in {1} : Serves(FALSE)}
             answered == {k \in 1..Len(results) : results[k].of # "auto"}
             drained == {k \in 1..Len(batch) : batch[k].of # "auto"}
  <2>1. /\ asked # {} => UserAsked
        /\ served # {} => Serves(FALSE)
        /\ answered # {} => HasUser(results)
        /\ drained # {} => HasUser(batch)
    BY DEF UserAsked, HasUser
  <2>2. /\ asked # {} => served = {} /\ answered = {} /\ drained = {}
        /\ served # {} => answered = {} /\ drained = {}
        /\ answered # {} => drained = {}
    BY <2>1 DEF Underway, OneOfUser
  <2>3. \A i, j \in asked : i = j
    <3> SUFFICES ASSUME NEW i \in asked, NEW j \in asked, i < j PROVE FALSE
      BY DEF Types
    <3> QED
      BY DEF Underway, RequestsInOrder
  <2>4. \A i, j \in answered : i = j
    <3> SUFFICES ASSUME NEW i \in answered, NEW j \in answered, i < j PROVE FALSE
      BY DEF Types
    <3> QED
      BY DEF Underway, AutoBeforeUser
  <2>5. \A i, j \in drained : i = j
    <3> SUFFICES ASSUME NEW i \in drained, NEW j \in drained, i < j PROVE FALSE
      BY DEF Types
    <3> QED
      BY DEF Underway, AutoBeforeUser
  <2>6. \A i, j \in served : i = j
    OBVIOUS
  <2>7. UserOperations = {<<"asked", i>> : i \in asked} \cup {<<"served", i>> : i \in served}
                        \cup {<<"answered", i>> : i \in answered} \cup {<<"drained", i>> : i \in drained}
    BY DEF UserOperations
  <2> HIDE DEF asked, served, answered, drained
  <2>8. \A a, b \in UserOperations : a = b
    BY <2>2, <2>3, <2>4, <2>5, <2>6, <2>7
  <2>9. UserOperations # {} => in_progress
    BY <2>1, <2>7 DEF Underway, UserUnderWay
  <2> QED
    BY <2>8, <2>9 DEF OneOperation
<1> QED
  BY <1>1, SpecIInv, PTL

-----------------------------------------------------------------------------
(* The settings: the actions that wait                                     *)

\* What is sent, and what the steps of the application pass on.
Configs == [look : SettingsLooks, hotkeys : SettingsHotkeys, magnetic : BOOLEAN, outside : Nat]
Opened == [open : BOOLEAN, draft : Configs, last_applied : Configs, unapplied : BOOLEAN,
           picker : SUBSET SettingsLooks, behind : SUBSET {"draft", "applied", "magnetic"}]
Windows == Opened \cup {Settings!NoDialog}
Actions == [kind : {"preview", "commit"}, draft : Configs] \cup {Settings!Closed}
Models == [config : Configs, registered : SettingsHotkeys \cup {Settings!None}, attached : BOOLEAN,
           dialog : Windows, saves : Seq(Configs)]

\* The field f ends at v when the queue is empty, if it is `now` and the actions of these
\* kinds set it: the last of them sets v, and without one it is v.
Settles(q, kinds, f, now, v) ==
    /\ (\A i \in 1..Len(q) : q[i].kind \notin kinds) => now = v
    /\ \A i \in 1..Len(q) :
         q[i].kind \in kinds /\ (\A k \in 1..Len(q) : i < k => q[k].kind \notin kinds) =>
             q[i].draft[f] = v

Shown == {"preview", "commit"}
Silent(q) == \A i \in 1..Len(q) : q[i].kind \notin Shown

\* A message more at the end.
LEMMA SettlesAppend ==
    ASSUME NEW q \in Seq(Actions), NEW kinds, NEW f, NEW now, NEW v, Settles(q, kinds, f, now, v),
           NEW a \in Actions
    PROVE  Settles(Append(q, a), kinds, f, now, IF a.kind \in kinds THEN a.draft[f] ELSE v)
<1> DEFINE r == Append(q, a)
           n == Len(q)
<1>1. Len(r) = n + 1 /\ n \in Nat /\ r[n + 1] = a /\ \A i \in 1..n : r[i] = q[i]
  OBVIOUS
<1> HIDE DEF r, n
<1>2. \A i \in 1..(n + 1) : i \in 1..n \/ i = n + 1
  BY <1>1
<1>3. n + 1 \in 1..(n + 1) /\ \A i \in 1..n : i \in 1..(n + 1) /\ i < n + 1
  BY <1>1
<1>4. CASE a.kind \in kinds
  <2>1. \A i \in 1..n : ~(\A k \in 1..(n + 1) : i < k => r[k].kind \notin kinds)
    BY <1>1, <1>3, <1>4
  <2> QED
    BY <1>1, <1>2, <1>3, <1>4, <2>1 DEF Settles, r
<1>5. CASE a.kind \notin kinds
  <2>1. (\A i \in 1..(n + 1) : r[i].kind \notin kinds) => now = v
    BY <1>1, <1>3 DEF Settles, n
  <2>2. ASSUME NEW i \in 1..(n + 1), r[i].kind \in kinds,
               \A k \in 1..(n + 1) : i < k => r[k].kind \notin kinds
        PROVE  r[i].draft[f] = v
    <3>1. i \in 1..n /\ r[i] = q[i]
      BY <1>1, <1>2, <1>5, <2>2
    <3>2. \A k \in 1..n : i < k => q[k].kind \notin kinds
      BY <1>1, <1>3, <2>2
    <3> QED
      BY <2>2, <3>1, <3>2 DEF Settles, n
  <2> QED
    BY <1>1, <1>5, <2>1, <2>2 DEF Settles, r
<1> QED
  BY <1>4, <1>5

\* A newer preview in the place of the last one.
LEMMA SettlesReplace ==
    ASSUME NEW q \in Seq(Actions), NEW kinds, NEW f, NEW now, NEW v, Settles(q, kinds, f, now, v),
           q # << >>, NEW a \in Actions, a.kind = q[Len(q)].kind
    PROVE  Settles([q EXCEPT ![Len(q)] = a], kinds, f, now, IF a.kind \in kinds THEN a.draft[f] ELSE v)
<1> DEFINE r == [q EXCEPT ![Len(q)] = a]
           n == Len(q)
<1>1. Len(r) = n /\ n \in Nat /\ n \in 1..n /\ r[n] = a /\ \A i \in 1..n : i # n => r[i] = q[i]
  OBVIOUS
<1>2. \A i \in 1..n : r[i].kind = q[i].kind
  BY <1>1
<1>3. \A i \in 1..n : i # n => i < n
  BY <1>1
<1> HIDE DEF r, n
<1>4. CASE a.kind \in kinds
  <2>1. \A i \in 1..n : i # n => ~(\A k \in 1..n : i < k => r[k].kind \notin kinds)
    BY <1>1, <1>3, <1>4
  <2> QED
    BY <1>1, <1>4, <2>1 DEF Settles, r
<1>5. CASE a.kind \notin kinds
  <2>1. (\A i \in 1..n : r[i].kind \notin kinds) => now = v
    BY <1>2 DEF Settles, n
  <2>2. ASSUME NEW i \in 1..n, r[i].kind \in kinds, \A k \in 1..n : i < k => r[k].kind \notin kinds
        PROVE  r[i].draft[f] = v
    <3>1. r[i] = q[i]
      BY <1>1, <1>5, <2>2
    <3>2. \A k \in 1..n : i < k => q[k].kind \notin kinds
      BY <1>2, <2>2
    <3> QED
      BY <2>2, <3>1, <3>2 DEF Settles, n
  <2> QED
    BY <1>1, <1>5, <2>1, <2>2 DEF Settles, r
<1> QED
  BY <1>4, <1>5

\* Actions of one kind are taken from the front, and the last of them has its effect.
LEMMA SettlesDrop ==
    ASSUME NEW q \in Seq(Actions), NEW kinds, NEW f, NEW now, NEW v, Settles(q, kinds, f, now, v),
           NEW n \in 1..Len(q), \A i \in 1..n : q[i].kind = q[n].kind
    PROVE  Settles(SubSeq(q, n + 1, Len(q)), kinds, f,
                   IF q[n].kind \in kinds THEN q[n].draft[f] ELSE now, v)
<1> DEFINE r == SubSeq(q, n + 1, Len(q))
           l == Len(q)
<1>1. Len(r) = l - n /\ l \in Nat /\ n <= l /\ \A i \in 1..(l - n) : r[i] = q[i + n]
  OBVIOUS
<1> HIDE DEF r, l
<1>2. \A i \in 1..l : i \in 1..n \/ (i - n \in 1..(l - n) /\ r[i - n] = q[i])
  <2> TAKE i \in 1..l
  <2>1. CASE i <= n
    BY <2>1
  <2>2. CASE i > n
    <3>1. i - n \in 1..(l - n) /\ (i - n) + n = i
      BY <1>1, <2>2
    <3> QED
      BY <1>1, <3>1
  <2> QED
    BY <1>1, <2>1, <2>2
<1>3. ASSUME \A i \in 1..(l - n) : r[i].kind \notin kinds
      PROVE  (IF q[n].kind \in kinds THEN q[n].draft[f] ELSE now) = v
  <2>1. ASSUME NEW k \in 1..l, n < k PROVE q[k].kind \notin kinds
    <3>1. k \notin 1..n
      BY <2>1
    <3> QED
      BY <1>2, <1>3, <3>1
  <2>2. CASE q[n].kind \in kinds
    BY <2>1, <2>2 DEF Settles, l
  <2>3. CASE q[n].kind \notin kinds
    <3>1. \A i \in 1..l : q[i].kind \notin kinds
      BY <1>2, <1>3, <2>3
    <3> QED
      BY <2>3, <3>1 DEF Settles, l
  <2> QED
    BY <2>2, <2>3
<1>4. ASSUME NEW i \in 1..(l - n), r[i].kind \in kinds,
             \A k \in 1..(l - n) : i < k => r[k].kind \notin kinds
      PROVE  r[i].draft[f] = v
  <2>1. i + n \in 1..l /\ r[i] = q[i + n]
    BY <1>1
  <2>2. ASSUME NEW k \in 1..l, i + n < k PROVE q[k].kind \notin kinds
    <3>1. k \notin 1..n /\ i < k - n
      BY <1>1, <2>2
    <3> QED
      BY <1>2, <1>4, <3>1
  <2> QED
    BY <1>4, <2>1, <2>2 DEF Settles, l
<1> QED
  BY <1>1, <1>3, <1>4 DEF Settles, r

\* Of the numbers of a set there is a least one.
LEMMA LeastNumber ==
    ASSUME NEW T \in SUBSET Nat, T # {}
    PROVE  \E n \in T : \A k \in T : n <= k
<1> DEFINE less == OpToRel(<,Nat)
<1>1. \A x, y \in Nat : y < x => <<y, x>> \in less
  BY DEF OpToRel
<1>2. IsWellFoundedOn(less, Nat)
  BY NatLessThanWellFounded
<1> HIDE DEF less
<1>3. PICK x \in T : \A y \in T : ~ (<<y, x>> \in less)
  BY <1>2, WFMin
<1>4. \A y \in T : ~(y < x)
  BY <1>1, <1>3
<1> QED
  BY <1>4

\* What is taken is one action, or previews that follow each other.
LEMMA FrontTakes ==
    ASSUME NEW q \in Seq(Actions), q # << >>
    PROVE  /\ Settings!Front(q) \in 1..Len(q)
           /\ \A i \in 1..Settings!Front(q) : q[i].kind = q[Settings!Front(q)].kind
<1> DEFINE T == {n \in 0..Len(q) : n < Len(q) => q[n + 1].kind # "preview"}
<1>1. Len(q) \in Nat /\ Len(q) >= 1
  OBVIOUS
<1>2. T \subseteq Nat /\ Len(q) \in T
  BY <1>1
<1>3. PICK n \in T : \A k \in T : n <= k
  BY <1>2, LeastNumber
<1> HIDE DEF T
<1>4. \A i \in 1..n : q[i].kind = "preview"
  <2> SUFFICES ASSUME NEW i \in 1..n, q[i].kind # "preview" PROVE FALSE
    OBVIOUS
  <2>0. n \in 0..Len(q)
    BY DEF T
  <2>1. i - 1 \in T
    BY <1>1, <2>0 DEF T
  <2>2. n \in Nat /\ n <= i - 1 /\ i <= n /\ i \in Nat
    BY <1>3, <2>0, <2>1
  <2> QED
    BY <2>2
<1>5. \E m \in 0..Len(q) : (\A i \in 1..m : q[i].kind = "preview")
                           /\ (m < Len(q) => q[m + 1].kind # "preview")
  BY <1>4 DEF T
<1>6. /\ Settings!Leading(q) \in 0..Len(q)
      /\ \A i \in 1..Settings!Leading(q) : q[i].kind = "preview"
  BY <1>5, Zenon DEF Settings!Leading
<1>7. CASE Settings!Leading(q) > 1
  BY <1>1, <1>6, <1>7 DEF Settings!Front
<1>8. CASE ~(Settings!Leading(q) > 1)
  BY <1>1, <1>8 DEF Settings!Front
<1> QED
  BY <1>7, <1>8

-----------------------------------------------------------------------------
\* Setting magnetism changes what concerns it alone, and they agree.
LEMMA MagneticSets ==
    ASSUME NEW m \in Models, NEW enabled \in BOOLEAN, NEW n \in Settings!MagneticSet(m, enabled)
    PROVE  /\ n \in Models /\ n.config.magnetic = n.attached
           /\ n.config.look = m.config.look /\ n.config.hotkeys = m.config.hotkeys
           /\ n.config.outside = m.config.outside
           /\ n.registered = m.registered /\ n.dialog = m.dialog
<1>1. CASE n = [m EXCEPT !.attached = enabled, !.config.magnetic = enabled]
  BY <1>1 DEF Models, Configs
<1>2. CASE n = [m EXCEPT !.config.magnetic = FALSE] /\ m.attached = FALSE
  BY <1>2 DEF Models, Configs
<1> QED
  BY <1>1, <1>2 DEF Settings!MagneticSet, Models

\* Asking for a save changes nothing else.
LEMMA SaveKeeps ==
    ASSUME NEW m \in Models
    PROVE  /\ Settings!SaveConfig(m) \in Models
           /\ Settings!SaveConfig(m).config = m.config /\ Settings!SaveConfig(m).attached = m.attached
           /\ Settings!SaveConfig(m).registered = m.registered /\ Settings!SaveConfig(m).dialog = m.dialog
BY DEF Settings!SaveConfig, Models

\* A draft that is open knows what holds, or is marked as behind; nothing else changes in it.
Synchronised(d, magnetic) == "magnetic" \notin d.behind => d.draft.magnetic = magnetic
SameWindow(d, e) ==
    /\ d.draft.look = e.draft.look /\ d.last_applied = e.last_applied /\ d.unapplied = e.unapplied
    /\ d.picker = e.picker
    /\ \A p \in {"draft", "applied"} : p \in d.behind <=> p \in e.behind

LEMMA CheckboxTells ==
    ASSUME NEW m \in Models
    PROVE  LET c == Settings!CheckboxSynced(m) IN
           /\ c \in Models /\ c.config = m.config /\ c.attached = m.attached
           /\ c.registered = m.registered
           /\ c.dialog.open = m.dialog.open
           /\ ~m.dialog.open => c.dialog = m.dialog
           /\ m.dialog.open => /\ Synchronised(c.dialog, m.config.magnetic)
                               /\ SameWindow(c.dialog, m.dialog)
<1> DEFINE c == Settings!CheckboxSynced(m)
<1>1. CASE m.dialog.open
  <2>1. m.dialog \in Opened /\ m.config.magnetic \in BOOLEAN
    BY <1>1 DEF Models, Windows, Settings!NoDialog, Configs
  <2>2. CASE m.dialog.picker = {}
    <3>1. c = [m EXCEPT !.dialog.draft.magnetic = m.config.magnetic,
                        !.dialog.behind = @ \ {"magnetic"}]
      BY <1>1, <2>2 DEF Settings!CheckboxSynced
    <3> HIDE DEF c
    <3>2. /\ c.config = m.config /\ c.attached = m.attached /\ c.registered = m.registered
          /\ c.saves = m.saves
          /\ c.dialog = [m.dialog EXCEPT !.draft.magnetic = m.config.magnetic,
                                         !.behind = @ \ {"magnetic"}]
      BY <3>1 DEF Models
    <3>3. /\ c.dialog \in Opened /\ c.dialog.open = m.dialog.open
          /\ c.dialog.draft.magnetic = m.config.magnetic
          /\ c.dialog.draft.look = m.dialog.draft.look
          /\ c.dialog.last_applied = m.dialog.last_applied
          /\ c.dialog.unapplied = m.dialog.unapplied /\ c.dialog.picker = m.dialog.picker
          /\ c.dialog.behind = m.dialog.behind \ {"magnetic"}
      BY <2>1, <3>2 DEF Opened, Configs
    <3>4. c \in Models
      BY <3>1, <3>3 DEF Models, Windows
    <3> QED
      BY <1>1, <3>2, <3>3, <3>4 DEF Synchronised, SameWindow, c
  <2>3. CASE m.dialog.picker # {}
    <3> DEFINE b == IF m.dialog.draft.magnetic = m.config.magnetic
                    THEN m.dialog.behind \ {"magnetic"} ELSE m.dialog.behind \cup {"magnetic"}
    <3>1. c = [m EXCEPT !.dialog.behind = b]
      BY <1>1, <2>3 DEF Settings!CheckboxSynced, Models
    <3>0. /\ b \in SUBSET {"draft", "applied", "magnetic"}
          /\ "magnetic" \notin b => m.dialog.draft.magnetic = m.config.magnetic
          /\ \A p \in {"draft", "applied"} : p \in b <=> p \in m.dialog.behind
      BY <2>1 DEF Opened
    <3> HIDE DEF c, b
    <3>2. /\ c.config = m.config /\ c.attached = m.attached /\ c.registered = m.registered
          /\ c.saves = m.saves /\ c.dialog = [m.dialog EXCEPT !.behind = b]
      BY <3>1 DEF Models
    <3>3. /\ c.dialog \in Opened /\ c.dialog.open = m.dialog.open
          /\ c.dialog.draft = m.dialog.draft
          /\ c.dialog.last_applied = m.dialog.last_applied
          /\ c.dialog.unapplied = m.dialog.unapplied /\ c.dialog.picker = m.dialog.picker
          /\ c.dialog.behind = b
      BY <2>1, <3>0, <3>2 DEF Opened
    <3>4. c \in Models
      BY <3>1, <3>3 DEF Models, Windows
    <3> QED
      BY <1>1, <3>0, <3>2, <3>3, <3>4 DEF Synchronised, SameWindow, c
  <2> QED
    BY <2>2, <2>3
<1>2. CASE ~m.dialog.open
  BY <1>2 DEF Settings!CheckboxSynced
<1> QED
  BY <1>1, <1>2

\* What sync_window_state leaves.
LEMMA SyncAgrees ==
    ASSUME NEW m \in Models, NEW n \in Settings!Synced(m)
    PROVE  /\ n \in Models /\ n.config.magnetic = n.attached
           /\ n.config.look = m.config.look /\ n.config.hotkeys = m.config.hotkeys
           /\ n.config.outside = m.config.outside
           /\ n.registered = m.registered
           /\ n.dialog.open = m.dialog.open
           /\ ~m.dialog.open => n.dialog = m.dialog
           /\ m.dialog.open => /\ Synchronised(n.dialog, n.config.magnetic)
                               /\ SameWindow(n.dialog, m.dialog)
<1>1. m.config.magnetic \in BOOLEAN
  BY DEF Models, Configs
<1>2. PICK k \in Settings!MagneticSet(m, m.config.magnetic) :
         n = Settings!SaveConfig(Settings!CheckboxSynced(k)) \/ n = Settings!CheckboxSynced(k)
  BY DEF Settings!Synced
<1>3. /\ k \in Models /\ k.config.magnetic = k.attached
      /\ k.config.look = m.config.look /\ k.config.hotkeys = m.config.hotkeys
      /\ k.config.outside = m.config.outside
      /\ k.registered = m.registered /\ k.dialog = m.dialog
  BY <1>1, <1>2, MagneticSets
<1> HIDE DEF Models
<1> DEFINE c == Settings!CheckboxSynced(k)
<1>4. /\ c \in Models /\ c.config = k.config /\ c.attached = k.attached
      /\ c.registered = k.registered
      /\ c.dialog.open = k.dialog.open
      /\ ~k.dialog.open => c.dialog = k.dialog
      /\ k.dialog.open => /\ Synchronised(c.dialog, k.config.magnetic)
                          /\ SameWindow(c.dialog, k.dialog)
  BY <1>3, CheckboxTells
<1> HIDE DEF c
<1>5. /\ n \in Models /\ n.config = c.config /\ n.attached = c.attached
      /\ n.registered = c.registered /\ n.dialog = c.dialog
  BY <1>2, <1>4, SaveKeeps DEF c
<1> QED
  BY <1>3, <1>4, <1>5

\* What an action does to the model: a draft that is shown takes effect, one that is applied
\* with its hotkeys, and what comes from outside stays.
LEMMA ActionUpdates ==
    ASSUME NEW m \in Models, NEW a \in Actions, NEW n \in Settings!Updated(m, a),
           m.config.magnetic = m.attached, m.registered \in {m.config.hotkeys, Settings!None}
    PROVE  /\ n \in Models /\ n.config.magnetic = n.attached
           /\ n.config.look = IF a.kind \in Shown THEN a.draft.look ELSE m.config.look
           /\ n.config.hotkeys = IF a.kind \in {"commit"} THEN a.draft.hotkeys ELSE m.config.hotkeys
           /\ n.config.outside = m.config.outside
           /\ n.registered \in {n.config.hotkeys, Settings!None}
           /\ n.dialog.open = m.dialog.open
           /\ ~m.dialog.open => n.dialog = m.dialog
           /\ m.dialog.open => /\ a.kind \in Shown => Synchronised(n.dialog, n.config.magnetic)
                               /\ a.kind \notin Shown => n = m
                               /\ SameWindow(n.dialog, m.dialog)
<1>1. CASE a.kind = "preview"
  <2> DEFINE k == [m EXCEPT !.config = Settings!Previewed(m, a.draft)]
  <2>1. a.draft \in Configs
    BY <1>1 DEF Actions, Settings!Closed
  <2>2. /\ k \in Models /\ k.config.look = a.draft.look /\ k.config.hotkeys = m.config.hotkeys
        /\ k.config.outside = m.config.outside /\ k.registered = m.registered
        /\ k.dialog = m.dialog
    BY <2>1 DEF Settings!Previewed, Models, Configs
  <2>3. n \in Settings!Synced(k)
    BY <1>1 DEF Settings!Updated
  <2> HIDE DEF k, Models
  <2> QED
    BY <1>1, <2>2, <2>3, SyncAgrees DEF Shown
<1>2. CASE a.kind = "commit"
  <2> DEFINE new == Settings!Committed(m, a.draft)
             k == [m EXCEPT !.config = new]
             saved == {Settings!SaveConfig(c) : c \in Settings!Synced(k)}
  <2>1. a.draft \in Configs
    BY <1>2 DEF Actions, Settings!Closed
  <2>2. /\ k \in Models /\ k.config.look = a.draft.look /\ k.config.hotkeys = a.draft.hotkeys
        /\ k.config.outside = m.config.outside /\ k.registered = m.registered
        /\ k.dialog = m.dialog /\ new.hotkeys = a.draft.hotkeys
    BY <2>1 DEF Settings!Committed, Models, Configs
  <2>3. IF new.hotkeys = m.config.hotkeys THEN n \in saved
        ELSE \E s \in saved : n \in Settings!Reregistered(s)
    <3>1. Settings!Updated(m, a) = IF new.hotkeys = m.config.hotkeys THEN saved
                          ELSE UNION {Settings!Reregistered(s) : s \in saved}
      BY <1>2 DEF Settings!Updated
    <3> HIDE DEF new, saved
    <3> QED
      BY <3>1
  <2>4. PICK s \in saved : \/ n = s /\ new.hotkeys = m.config.hotkeys
                           \/ n = [s EXCEPT !.registered = s.config.hotkeys]
                           \/ n = [s EXCEPT !.registered = Settings!None]
    BY <2>3 DEF Settings!Reregistered
  <2>5. PICK c \in Settings!Synced(k) : s = Settings!SaveConfig(c)
    BY <2>4
  <2> HIDE DEF new, k, saved
  <2>6. /\ c \in Models /\ c.config.magnetic = c.attached
        /\ c.config.look = k.config.look /\ c.config.hotkeys = k.config.hotkeys
        /\ c.config.outside = k.config.outside
        /\ c.registered = k.registered
        /\ c.dialog.open = k.dialog.open
        /\ ~k.dialog.open => c.dialog = k.dialog
        /\ k.dialog.open => /\ Synchronised(c.dialog, c.config.magnetic)
                            /\ SameWindow(c.dialog, k.dialog)
    BY <2>2, <2>5, SyncAgrees
  <2>7. /\ s \in Models /\ s.config = c.config /\ s.attached = c.attached
        /\ s.registered = c.registered /\ s.dialog = c.dialog
    BY <2>5, <2>6, SaveKeeps
  <2>8. /\ n \in Models /\ n.config = s.config /\ n.attached = s.attached /\ n.dialog = s.dialog
        /\ n.registered \in {n.config.hotkeys, Settings!None}
    <3>1. CASE n = s /\ new.hotkeys = m.config.hotkeys
      BY <2>2, <2>6, <2>7, <3>1
    <3>2. CASE n = [s EXCEPT !.registered = s.config.hotkeys]
      BY <2>7, <3>2 DEF Models, Configs
    <3>3. CASE n = [s EXCEPT !.registered = Settings!None]
      BY <2>7, <3>3 DEF Models
    <3> QED
      BY <2>4, <3>1, <3>2, <3>3
  <2> QED
    BY <1>2, <2>2, <2>6, <2>7, <2>8 DEF Shown
<1>3. CASE a.kind = "closed"
  BY <1>3 DEF Settings!Updated, Shown, SameWindow
<1> QED
  BY <1>1, <1>2, <1>3 DEF Actions, Settings!Closed

-----------------------------------------------------------------------------
(* The invariant                                                           *)

SettingsTypes ==
    /\ config \in Configs /\ registered \in SettingsHotkeys \cup {Settings!None} /\ attached \in BOOLEAN
    /\ dialog \in Windows /\ saves \in Seq(Configs)
    /\ applied \in [look : SettingsLooks, hotkeys : SettingsHotkeys, undone : BOOLEAN]
    /\ queue \in Seq(Actions) /\ posts \in Nat /\ turn \in Nat
    /\ lostActions \in 0..1

\* Every action that waits was announced, or is the one whose message was lost.
Announced == posts + lostActions >= Len(queue) - (IF turn = 0 THEN 0 ELSE 1)

\* The window, when it is open: what it has not applied, and what it left behind.  Without a
\* command that it took back it has what was applied last, or knows that it has not.
WindowInv ==
    /\ process # "running" => ~dialog.open
    /\ dialog.open =>
         /\ "draft" \in dialog.behind => "applied" \in dialog.behind
         /\ "applied" \in dialog.behind /\ "draft" \notin dialog.behind => applied.undone
         /\ "applied" \notin dialog.behind /\ ~applied.undone => dialog.last_applied.look = applied.look
         /\ ~dialog.unapplied /\ "draft" \notin dialog.behind /\ ~applied.undone =>
              IF dialog.picker = {} THEN dialog.draft.look = applied.look
              ELSE dialog.picker = {applied.look}
         /\ Silent(queue) => Synchronised(dialog, config.magnetic)
    /\ ~dialog.open /\ process = "running" /\ queue # << >> => queue[Len(queue)] = Settings!Closed

\* What the configuration will show: the draft of the open window that is not behind, or else
\* what was applied, unless the window took that back.
Target(look) ==
    IF dialog.open /\ "draft" \notin dialog.behind THEN look = dialog.draft.look
    ELSE ~applied.undone => look = applied.look

EffectsInv ==
    /\ config.magnetic = attached
    /\ registered \in {config.hotkeys, Settings!None}
    /\ Settles(queue, {"commit"}, "hotkeys", config.hotkeys, applied.hotkeys)
    /\ process = "running" =>
         \E look : Settles(queue, Shown, "look", config.look, look) /\ Target(look)

SettingsInv == SettingsTypes /\ Announced /\ WindowInv /\ EffectsInv

\* With an empty queue nothing is under way, and it is what is asked.
LEMMA SettingsAgree == SettingsInv => Settings!Agrees
<1> SUFFICES ASSUME SettingsInv, process = "running", queue = << >> PROVE Settings!Agrees
  BY DEF Settings!Agrees
<1>1. \A i \in 1..Len(queue) : FALSE
  OBVIOUS
<1>2. Target(config.look)
  BY <1>1 DEF SettingsInv, EffectsInv, Settles
<1>3. Silent(queue) /\ config.hotkeys = applied.hotkeys
  BY <1>1 DEF SettingsInv, EffectsInv, Settles, Silent
<1>4. dialog.open => ("magnetic" \notin dialog.behind => dialog.draft.magnetic = config.magnetic)
  BY <1>3 DEF SettingsInv, WindowInv, Synchronised
<1> QED
  BY <1>2, <1>3, <1>4 DEF SettingsInv, EffectsInv, Target, Settings!Agrees

\* It holds at the start.
LEMMA SettingsBegin == Settings!Init => SettingsInv
<1> SUFFICES ASSUME Settings!Init PROVE SettingsInv
  OBVIOUS
<1>0. FALSE \in BOOLEAN /\ 0 \in Nat
  OBVIOUS
<1>1. PICK c \in [look : SettingsLooks, hotkeys : SettingsHotkeys, magnetic : {FALSE}, outside : {0}] :
        /\ config = c /\ applied = [look |-> c.look, hotkeys |-> c.hotkeys, undone |-> FALSE]
        /\ registered \in {c.hotkeys, Settings!None}
        /\ attached = FALSE /\ dialog = Settings!NoDialog
        /\ queue = << >> /\ posts = 0 /\ turn = 0 /\ lostActions = 0
        /\ saves = << >> /\ process = "running"
  BY DEF Settings!Init
<1>2. /\ Len(queue) = 0 /\ \A i \in 1..Len(queue) : FALSE
  BY <1>1
<1>3. c \in Configs /\ c.look \in SettingsLooks /\ c.hotkeys \in SettingsHotkeys /\ c.magnetic = FALSE
  <2>1. c \in [look : SettingsLooks, hotkeys : SettingsHotkeys, magnetic : {FALSE}, outside : {0}]
    BY <1>1
  <2>2. c.look \in SettingsLooks /\ c.hotkeys \in SettingsHotkeys /\ c.magnetic = FALSE /\ c.outside = 0
    BY <2>1, Zenon
  <2>3. c = [look |-> c.look, hotkeys |-> c.hotkeys, magnetic |-> c.magnetic, outside |-> c.outside]
    BY <2>1, Zenon
  <2>4. c.magnetic \in BOOLEAN /\ c.outside \in Nat
    BY <1>0, <2>2, Zenon
  <2> QED
    BY <2>2, <2>3, <2>4, Zenon DEF Configs
<1>4. SettingsTypes
  <2>1. config \in Configs /\ registered \in SettingsHotkeys \cup {Settings!None} /\ attached \in BOOLEAN
    BY <1>1, <1>3
  <2>2. applied \in [look : SettingsLooks, hotkeys : SettingsHotkeys, undone : BOOLEAN]
    BY <1>1, <1>3
  <2> QED
    BY <1>1, <2>1, <2>2 DEF SettingsTypes, Windows
<1>5. Announced /\ WindowInv
  BY <1>1, <1>2, <1>3 DEF Announced, WindowInv, Settings!NoDialog
<1>6. Settles(queue, {"commit"}, "hotkeys", config.hotkeys, applied.hotkeys)
  BY <1>1, <1>2 DEF Settles
<1>7. Settles(queue, Shown, "look", config.look, config.look) /\ Target(config.look)
  BY <1>1, <1>2 DEF Settles, Target, Settings!NoDialog
<1> QED
  BY <1>1, <1>3, <1>4, <1>5, <1>6, <1>7 DEF SettingsInv, EffectsInv

-----------------------------------------------------------------------------
(* Messages to the application                                             *)

\* A message is announced, or its announcement is the one that is lost.
LEMMA OnePosted ==
    ASSUME Settings!Posted, posts \in Nat, lostActions \in 0..1
    PROVE  /\ posts' \in Nat /\ lostActions' \in 0..1
           /\ posts' + lostActions' = posts + lostActions + 1
BY SettingsAssumption DEF Settings!Posted

\* A message at the end, with the value that its fields give.
LEMMA SendKeeps ==
    ASSUME SettingsTypes, Announced, NEW a \in Actions, Settings!Sends(a), turn' = turn
    PROVE  /\ queue' \in Seq(Actions) /\ posts' \in Nat /\ lostActions' \in 0..1
           /\ Announced' /\ queue' # << >> /\ queue'[Len(queue')] = a
           /\ \A kinds, f, now, v : Settles(queue, kinds, f, now, v) =>
                Settles(queue', kinds, f, now, IF a.kind \in kinds THEN a.draft[f] ELSE v)
           /\ Silent(queue') => Silent(queue)
           /\ a.kind \in Shown => ~Silent(queue')
<1>1. queue \in Seq(Actions) /\ queue' = Append(queue, a) /\ Settings!Posted
  BY DEF SettingsTypes, Settings!Sends
<1>2. /\ queue' \in Seq(Actions) /\ queue' # << >> /\ Len(queue') = Len(queue) + 1
      /\ Len(queue) \in Nat
      /\ queue'[Len(queue')] = a /\ \A i \in 1..Len(queue) : queue'[i] = queue[i]
  BY <1>1
<1>3. /\ posts' \in Nat /\ lostActions' \in 0..1 /\ posts' + lostActions' = posts + lostActions + 1
  BY <1>1, OnePosted DEF SettingsTypes
<1>4. Announced'
  <2>1. posts \in Nat /\ lostActions \in Nat /\ lostActions' \in Nat
    BY <1>3 DEF SettingsTypes
  <2>2. posts + lostActions >= Len(queue) - (IF turn = 0 THEN 0 ELSE 1)
    BY DEF Announced
  <2>3. posts' + lostActions' >= Len(queue') - (IF turn = 0 THEN 0 ELSE 1)
    <3>1. Len(queue') = Len(queue) + 1 /\ Len(queue) \in Nat
      BY <1>2
    <3>2. posts' + lostActions' = posts + lostActions + 1
      BY <1>3
    <3> QED
      BY <2>1, <2>2, <3>1, <3>2
  <2> QED
    BY <2>3 DEF Announced
<1>5. Silent(queue') => Silent(queue)
  BY <1>2 DEF Silent
<1>6. a.kind \in Shown => ~Silent(queue')
  BY <1>2 DEF Silent
<1>7. ASSUME NEW kinds, NEW f, NEW now, NEW v, Settles(queue, kinds, f, now, v)
      PROVE  Settles(queue', kinds, f, now, IF a.kind \in kinds THEN a.draft[f] ELSE v)
  BY <1>1, <1>7, SettlesAppend
<1> QED
  BY <1>2, <1>3, <1>4, <1>5, <1>6, <1>7

\* A preview at the end, or in the place of the one that waits there.
LEMMA PreviewKeeps ==
    ASSUME SettingsTypes, Announced, NEW draft \in Configs, Settings!Previews(draft), turn' = turn
    PROVE  /\ queue' \in Seq(Actions) /\ posts' \in Nat /\ lostActions' \in 0..1
           /\ Announced' /\ ~Silent(queue')
           /\ \A kinds, f, now, v : Settles(queue, kinds, f, now, v) =>
                Settles(queue', kinds, f, now, IF "preview" \in kinds THEN draft[f] ELSE v)
<1> DEFINE a == Settings!Preview(draft)
<1>0. a \in Actions /\ a.kind = "preview" /\ a.draft = draft /\ a.kind \in Shown
  BY DEF Settings!Preview, Actions, Shown
<1>1. CASE Settings!Sends(a)
  BY <1>0, <1>1, SendKeeps
<1>2. CASE /\ queue # << >> /\ queue[Len(queue)].kind = "preview"
           /\ queue' = [queue EXCEPT ![Len(queue)] = a] /\ UNCHANGED <<posts, lostActions>>
  <2> HIDE DEF a
  <2>1. queue \in Seq(Actions)
    BY DEF SettingsTypes
  <2>2. /\ queue' \in Seq(Actions) /\ Len(queue') = Len(queue) /\ Len(queue) \in 1..Len(queue)
        /\ queue'[Len(queue)] = a
    BY <1>0, <1>2, <2>1
  <2>3. ~Silent(queue')
    BY <1>0, <2>2 DEF Silent
  <2>4. Announced' /\ posts' \in Nat /\ lostActions' \in 0..1
    BY <1>2, <2>2 DEF Announced, SettingsTypes
  <2>5. ASSUME NEW kinds, NEW f, NEW now, NEW v, Settles(queue, kinds, f, now, v)
        PROVE  Settles(queue', kinds, f, now, IF "preview" \in kinds THEN draft[f] ELSE v)
    BY <1>0, <1>2, <2>1, <2>5, SettlesReplace
  <2> QED
    BY <2>2, <2>3, <2>4, <2>5
<1> QED
  BY <1>1, <1>2 DEF Settings!Previews

-----------------------------------------------------------------------------
(* The steps                                                               *)

\* Nothing that comes from outside is lost.
KeepsOutside == config'.outside >= config.outside

\* What has happened to the open window is known.
LEMMA OpenedWindow == SettingsInv /\ dialog.open => dialog \in Opened /\ dialog.draft \in Configs
BY DEF SettingsInv, SettingsTypes, Windows, Opened, Settings!NoDialog

\* A window opens over an empty queue, or over the one message that was lost: that another
\* window closed.
LEMMA OpenSettingsKeeps == SettingsInv /\ Settings!OpenSettings => SettingsInv' /\ KeepsOutside
<1> SUFFICES ASSUME SettingsInv, Settings!OpenSettings PROVE SettingsInv' /\ KeepsOutside
  OBVIOUS
<1>1. /\ process = "running" /\ ~dialog.open /\ posts = 0 /\ turn = 0
      /\ dialog' = [open |-> TRUE, draft |-> config, last_applied |-> config, unapplied |-> FALSE,
                    picker |-> {}, behind |-> {}]
      /\ UNCHANGED <<turn, config, registered, attached, queue, posts, lostActions, saves, process, applied>>
  BY DEF Settings!OpenSettings, Settings!User
<1>2. queue \in Seq(Actions) /\ Len(queue) \in Nat /\ Len(queue) <= 1
  <2>1. queue \in Seq(Actions) /\ lostActions \in 0..1 /\ posts + lostActions >= Len(queue) - 0
    BY <1>1 DEF SettingsInv, SettingsTypes, Announced
  <2> QED
    BY <1>1, <2>1
<1>3. \A i \in 1..Len(queue) : queue[i].kind = "closed"
  BY <1>1, <1>2 DEF SettingsInv, WindowInv, Settings!Closed
<1>4. /\ Settles(queue, Shown, "look", config.look, config.look)
      /\ ~applied.undone => config.look = applied.look
  BY <1>1, <1>3 DEF SettingsInv, EffectsInv, Settles, Target, Shown
<1>5. SettingsTypes'
  BY <1>1 DEF SettingsInv, SettingsTypes, Windows, Opened
<1>6. Announced' /\ WindowInv'
  <2>1. Announced'
    BY <1>1 DEF SettingsInv, Announced
  <2>2. WindowInv'
    BY <1>1, <1>4 DEF WindowInv, Synchronised
  <2> QED
    BY <2>1, <2>2
<1>7. EffectsInv'
  <2>1. Target(config.look)'
    BY <1>1 DEF Target
  <2>2. Settles(queue, {"commit"}, "hotkeys", config.hotkeys, applied.hotkeys)
    BY DEF SettingsInv, EffectsInv
  <2> QED
    BY <1>1, <1>4, <2>1, <2>2 DEF SettingsInv, EffectsInv
<1> QED
  BY <1>1, <1>5, <1>6, <1>7 DEF SettingsInv, SettingsTypes, Configs, KeepsOutside

\* What the window previews is its draft.
LEMMA PreviewShows ==
    ASSUME SettingsInv, NEW draft \in Configs, Settings!Previews(draft),
           process = "running", UNCHANGED <<turn, config, registered, attached, process>>,
           dialog' \in Windows, dialog'.open, "draft" \notin dialog'.behind, dialog'.draft = draft,
           applied' \in [look : SettingsLooks, hotkeys : SettingsHotkeys, undone : BOOLEAN],
           applied'.hotkeys = applied.hotkeys, saves' = saves
    PROVE  SettingsTypes' /\ Announced' /\ EffectsInv' /\ ~Silent(queue') /\ KeepsOutside
<1>1. /\ queue' \in Seq(Actions) /\ posts' \in Nat /\ lostActions' \in 0..1
      /\ Announced' /\ ~Silent(queue')
      /\ \A kinds, f, now, v : Settles(queue, kinds, f, now, v) =>
           Settles(queue', kinds, f, now, IF "preview" \in kinds THEN draft[f] ELSE v)
  BY PreviewKeeps DEF SettingsInv
<1>2. SettingsTypes'
  BY <1>1 DEF SettingsInv, SettingsTypes
<1>3. Settles(queue', {"commit"}, "hotkeys", config.hotkeys, applied.hotkeys)
  BY <1>1 DEF SettingsInv, EffectsInv
<1>4. PICK v : Settles(queue, Shown, "look", config.look, v)
  BY DEF SettingsInv, EffectsInv
<1>5. Settles(queue', Shown, "look", config.look, draft.look)
  BY <1>1, <1>4 DEF Shown
<1>6. Target(draft.look)'
  BY DEF Target
<1>7. EffectsInv'
  BY <1>3, <1>5, <1>6 DEF SettingsInv, EffectsInv
<1>8. KeepsOutside
  BY DEF SettingsInv, SettingsTypes, Configs, KeepsOutside
<1> QED
  BY <1>1, <1>2, <1>7, <1>8

\* An edit changes the draft, and the last preview shows it.
LEMMA EditKeeps ==
    ASSUME SettingsInv, dialog.open, ~Settings!Lent, NEW draft \in Configs, Settings!Edit(draft)
    PROVE  SettingsInv' /\ KeepsOutside
<1>1. /\ process = "running"
      /\ dialog' = [dialog EXCEPT !.draft = draft, !.unapplied = TRUE, !.behind = @ \ {"draft"}]
      /\ applied' = [applied EXCEPT !.undone = @ \/ "applied" \in dialog.behind]
      /\ Settings!Previews(draft)
      /\ UNCHANGED <<turn, config, registered, attached, saves, process>>
  BY DEF Settings!Edit, Settings!User, Settings!Taken
<1>2. dialog \in Opened
  BY OpenedWindow
<1>3. /\ dialog' \in Opened /\ dialog'.open /\ dialog'.draft = draft
      /\ dialog'.last_applied = dialog.last_applied /\ dialog'.unapplied
      /\ dialog'.picker = dialog.picker /\ dialog'.behind = dialog.behind \ {"draft"}
  BY <1>1, <1>2 DEF Opened
<1>4. /\ applied' \in [look : SettingsLooks, hotkeys : SettingsHotkeys, undone : BOOLEAN]
      /\ applied'.look = applied.look /\ applied'.hotkeys = applied.hotkeys
      /\ applied'.undone <=> applied.undone \/ "applied" \in dialog.behind
  BY <1>1 DEF SettingsInv, SettingsTypes
<1>5. SettingsTypes' /\ Announced' /\ EffectsInv' /\ ~Silent(queue') /\ KeepsOutside
  BY <1>1, <1>3, <1>4, PreviewShows DEF Windows
<1>6. WindowInv'
  BY <1>1, <1>3, <1>4, <1>5 DEF SettingsInv, WindowInv
<1> QED
  BY <1>5, <1>6 DEF SettingsInv

\* What the controls make of the draft is a configuration.
LEMMA ControlKeeps == SettingsInv /\ Settings!ControlChanged => SettingsInv' /\ KeepsOutside
<1> SUFFICES ASSUME SettingsInv, Settings!ControlChanged PROVE SettingsInv' /\ KeepsOutside
  OBVIOUS
<1>1. dialog.open /\ ~Settings!Lent /\ dialog.draft \in Configs
  BY OpenedWindow DEF Settings!ControlChanged
<1>2. \E draft \in Configs : Settings!Edit(draft)
  <2>1. ASSUME NEW look \in SettingsLooks PROVE [dialog.draft EXCEPT !.look = look] \in Configs
    BY <1>1 DEF Configs
  <2>2. ASSUME NEW hotkeys \in SettingsHotkeys PROVE [dialog.draft EXCEPT !.hotkeys = hotkeys] \in Configs
    BY <1>1 DEF Configs
  <2>3. [dialog.draft EXCEPT !.magnetic = ~dialog.draft.magnetic] \in Configs
    BY <1>1 DEF Configs
  <2> QED
    BY <2>1, <2>2, <2>3 DEF Settings!ControlChanged
<1> QED
  BY <1>1, <1>2, EditKeeps

\* The colour dialog starts with the colour of the draft.
LEMMA OpenPickerKeeps == SettingsInv /\ Settings!OpenPicker => SettingsInv' /\ KeepsOutside
<1> SUFFICES ASSUME SettingsInv, Settings!OpenPicker PROVE SettingsInv' /\ KeepsOutside
  OBVIOUS
<1>1. /\ dialog.open /\ dialog.picker = {}
      /\ dialog' = [dialog EXCEPT !.picker = {dialog.draft.look}]
      /\ UNCHANGED <<turn, config, registered, attached, queue, posts, lostActions, saves, process, applied>>
  BY DEF Settings!OpenPicker, Settings!Lent
<1>2. dialog \in Opened /\ dialog.draft.look \in SettingsLooks
  BY <1>1, OpenedWindow DEF Configs
<1>3. /\ dialog' \in Opened /\ dialog'.open /\ dialog'.draft = dialog.draft
      /\ dialog'.last_applied = dialog.last_applied /\ dialog'.unapplied = dialog.unapplied
      /\ dialog'.picker = {dialog.draft.look} /\ dialog'.behind = dialog.behind
  BY <1>1, <1>2 DEF Opened
<1>4. SettingsTypes' /\ Announced' /\ KeepsOutside
  BY <1>1, <1>3 DEF SettingsInv, SettingsTypes, Windows, Announced, Configs, KeepsOutside
<1>5. WindowInv'
  BY <1>1, <1>3 DEF SettingsInv, WindowInv, Synchronised
<1>6. EffectsInv'
  BY <1>1, <1>3 DEF SettingsInv, EffectsInv, Target
<1> QED
  BY <1>4, <1>5, <1>6 DEF SettingsInv

\* A colour is picked, or the dialog ends with one: whatever the draft has then is shown, and
\* without a colour that was picked it is the one of the beginning.
LEMMA ColourKeeps ==
    ASSUME SettingsInv, dialog.open, NEW look \in SettingsLooks, Settings!Takes(look),
           process = "running", UNCHANGED <<turn, config, registered, attached, process, saves>>,
           NEW picker \in SUBSET SettingsLooks, NEW unapplied \in BOOLEAN,
           dialog' = [dialog EXCEPT !.draft.look = look, !.behind = Settings!StillBehind(look),
                                    !.unapplied = unapplied, !.picker = picker],
           dialog.picker # {},
           \/ picker = dialog.picker /\ unapplied = dialog.unapplied
           \/ picker = {} /\ unapplied = (dialog.unapplied \/ look \notin dialog.picker)
    PROVE  SettingsInv' /\ KeepsOutside
<1>1. dialog \in Opened /\ dialog.draft \in Configs
  BY OpenedWindow
<1>2. /\ dialog' \in Opened /\ dialog'.open /\ dialog'.draft = [dialog.draft EXCEPT !.look = look]
      /\ dialog'.last_applied = dialog.last_applied /\ dialog'.unapplied = unapplied
      /\ dialog'.picker = picker /\ dialog'.behind = Settings!StillBehind(look)
  <2>1. [dialog.draft EXCEPT !.look = look] \in Configs
    BY <1>1 DEF Configs
  <2>2. Settings!StillBehind(look) \in SUBSET {"draft", "applied", "magnetic"}
    BY <1>1 DEF Settings!StillBehind, Opened
  <2>3. dialog' = [dialog EXCEPT !.draft = [dialog.draft EXCEPT !.look = look],
                                 !.behind = Settings!StillBehind(look),
                                 !.unapplied = unapplied, !.picker = picker]
    BY <1>1 DEF Opened
  <2> QED
    BY <1>1, <2>1, <2>2, <2>3 DEF Opened
<1>3. CASE look = dialog.draft.look
  <2>1. /\ UNCHANGED <<queue, posts, lostActions, applied>> /\ dialog'.behind = dialog.behind
        /\ dialog'.draft = dialog.draft
    BY <1>1, <1>2, <1>3 DEF Settings!Takes, Settings!StillBehind, Configs
  <2>2. SettingsTypes' /\ Announced' /\ KeepsOutside
    BY <1>2, <2>1 DEF SettingsInv, SettingsTypes, Windows, Announced, Configs, KeepsOutside
  <2>3. EffectsInv'
    BY <1>2, <2>1 DEF SettingsInv, EffectsInv, Target
  <2>4. WindowInv'
    BY <1>2, <1>3, <2>1 DEF SettingsInv, WindowInv, Synchronised
  <2> QED
    BY <2>2, <2>3, <2>4 DEF SettingsInv
<1>4. CASE look # dialog.draft.look
  <2> DEFINE draft == [dialog.draft EXCEPT !.look = look]
  <2>1. /\ Settings!Previews(draft) /\ dialog'.behind = dialog.behind \ {"draft"}
        /\ applied' = [applied EXCEPT !.undone = @ \/ "applied" \in dialog.behind]
    BY <1>2, <1>4 DEF Settings!Takes, Settings!Taken, Settings!StillBehind
  <2>2. /\ applied' \in [look : SettingsLooks, hotkeys : SettingsHotkeys, undone : BOOLEAN]
        /\ applied'.look = applied.look /\ applied'.hotkeys = applied.hotkeys
        /\ applied'.undone <=> applied.undone \/ "applied" \in dialog.behind
    BY <2>1 DEF SettingsInv, SettingsTypes
  <2>3. draft \in Configs /\ dialog'.draft = draft /\ draft.look = look
    BY <1>1, <1>2 DEF Opened, Configs
  <2> HIDE DEF draft
  <2>4. SettingsTypes' /\ Announced' /\ EffectsInv' /\ ~Silent(queue') /\ KeepsOutside
    BY <1>2, <2>1, <2>2, <2>3, PreviewShows DEF Windows
  <2>5. WindowInv'
    BY <1>2, <1>4, <2>1, <2>2, <2>3, <2>4 DEF SettingsInv, WindowInv
  <2> QED
    BY <2>4, <2>5 DEF SettingsInv
<1> QED
  BY <1>3, <1>4

LEMMA PickerKeeps ==
    SettingsInv /\ (Settings!PickColour \/ Settings!EndPicker) => SettingsInv' /\ KeepsOutside
<1> SUFFICES ASSUME SettingsInv, Settings!PickColour \/ Settings!EndPicker
             PROVE  SettingsInv' /\ KeepsOutside
  OBVIOUS
<1>1. /\ dialog.open /\ dialog.picker # {} /\ process = "running"
      /\ UNCHANGED <<turn, config, registered, attached, process, saves>>
  BY DEF Settings!PickColour, Settings!EndPicker, Settings!User, Settings!Lent
<1>2. dialog \in Opened /\ dialog.draft.look \in SettingsLooks
  BY <1>1, OpenedWindow DEF Configs
<1>3. CASE Settings!PickColour
  <2>1. PICK look \in SettingsLooks :
          /\ Settings!Takes(look)
          /\ dialog' = [dialog EXCEPT !.draft.look = look, !.behind = Settings!StillBehind(look)]
    BY <1>3 DEF Settings!PickColour
  <2>2. dialog' = [dialog EXCEPT !.draft.look = look, !.behind = Settings!StillBehind(look),
                                 !.unapplied = dialog.unapplied, !.picker = dialog.picker]
    BY <1>2, <2>1 DEF Opened
  <2>3. dialog.picker \in SUBSET SettingsLooks /\ dialog.unapplied \in BOOLEAN
    BY <1>2 DEF Opened
  <2> QED
    BY <1>1, <2>1, <2>2, <2>3, ColourKeeps
<1>4. CASE Settings!EndPicker
  <2>1. PICK look \in {dialog.draft.look} \cup dialog.picker :
          /\ Settings!Takes(look)
          /\ dialog' = [dialog EXCEPT !.draft.look = look, !.behind = Settings!StillBehind(look),
                                      !.unapplied = @ \/ look \notin dialog.picker, !.picker = {}]
    BY <1>4 DEF Settings!EndPicker
  <2> DEFINE unapplied == dialog.unapplied \/ look \notin dialog.picker
  <2>2. dialog' = [dialog EXCEPT !.draft.look = look, !.behind = Settings!StillBehind(look),
                                 !.unapplied = unapplied, !.picker = {}]
    BY <1>2, <2>1 DEF Opened
  <2>3. look \in SettingsLooks /\ unapplied \in BOOLEAN /\ {} \in SUBSET SettingsLooks
    BY <1>2, <2>1 DEF Opened
  <2> QED
    BY <1>1, <2>1, <2>2, <2>3, ColourKeeps
<1> QED
  BY <1>3, <1>4

\* What is applied is the draft, and the last action carries it.
LEMMA ApplyKeeps == SettingsInv /\ Settings!Apply => SettingsInv' /\ KeepsOutside
<1> SUFFICES ASSUME SettingsInv, Settings!Apply PROVE SettingsInv' /\ KeepsOutside
  OBVIOUS
<1> DEFINE a == Settings!Commit(dialog.draft)
<1>1. /\ process = "running" /\ dialog.open /\ dialog.picker = {}
      /\ dialog' = [dialog EXCEPT !.last_applied = dialog.draft, !.unapplied = FALSE,
                                  !.behind = @ \ {"draft", "applied"}]
      /\ applied' = [look |-> dialog.draft.look, hotkeys |-> dialog.draft.hotkeys, undone |-> FALSE]
      /\ Settings!Sends(a)
      /\ UNCHANGED <<turn, config, registered, attached, saves, process>>
  BY DEF Settings!Apply, Settings!User, Settings!Lent
<1>2. dialog \in Opened /\ dialog.draft \in Configs
  BY <1>1, OpenedWindow
<1>3. /\ dialog' \in Opened /\ dialog'.open /\ dialog'.draft = dialog.draft
      /\ dialog'.last_applied = dialog.draft /\ dialog'.picker = {}
      /\ dialog'.behind = dialog.behind \ {"draft", "applied"}
  BY <1>1, <1>2 DEF Opened
<1>4. a \in Actions /\ a.kind = "commit" /\ a.draft = dialog.draft
  BY <1>2 DEF Settings!Commit, Actions
<1>5. applied' \in [look : SettingsLooks, hotkeys : SettingsHotkeys, undone : BOOLEAN]
  BY <1>1, <1>2 DEF Configs
<1> HIDE DEF a
<1>6. /\ queue' \in Seq(Actions) /\ posts' \in Nat /\ lostActions' \in 0..1
      /\ Announced' /\ ~Silent(queue')
      /\ \A kinds, f, now, v : Settles(queue, kinds, f, now, v) =>
           Settles(queue', kinds, f, now, IF "commit" \in kinds THEN dialog.draft[f] ELSE v)
  BY <1>1, <1>4, SendKeeps DEF SettingsInv, Shown
<1>7. SettingsTypes'
  BY <1>1, <1>3, <1>5, <1>6 DEF SettingsInv, SettingsTypes, Windows
<1>8. WindowInv'
  BY <1>1, <1>3, <1>6 DEF WindowInv
<1>9. Settles(queue', {"commit"}, "hotkeys", config.hotkeys, dialog.draft.hotkeys)
  BY <1>6 DEF SettingsInv, EffectsInv
<1>10. PICK v : Settles(queue, Shown, "look", config.look, v)
  BY <1>1 DEF SettingsInv, EffectsInv
<1>11. Settles(queue', Shown, "look", config.look, dialog.draft.look)
  BY <1>6, <1>10 DEF Shown
<1>12. Target(dialog.draft.look)'
  BY <1>1, <1>3 DEF Target
<1>13. EffectsInv'
  BY <1>1, <1>3, <1>9, <1>11, <1>12 DEF SettingsInv, EffectsInv
<1> QED
  BY <1>1, <1>6, <1>7, <1>8, <1>13 DEF SettingsInv, SettingsTypes, Configs, KeepsOutside

\* Closing shows again what was applied.
LEMMA CloseKeeps == SettingsInv /\ Settings!CloseSettings => SettingsInv' /\ KeepsOutside
<1> SUFFICES ASSUME SettingsInv, Settings!CloseSettings PROVE SettingsInv' /\ KeepsOutside
  OBVIOUS
<1>1. /\ process = "running" /\ dialog.open /\ Settings!Previews(dialog.last_applied)
      /\ dialog.picker = {}
      /\ dialog' = [dialog EXCEPT !.draft = dialog.last_applied, !.unapplied = FALSE,
                                  !.behind = @ \ {"draft"}]
      /\ applied' = [applied EXCEPT !.undone = @ \/ "applied" \in dialog.behind]
      /\ UNCHANGED <<turn, config, registered, attached, saves, process>>
  BY DEF Settings!CloseSettings, Settings!User, Settings!Discarded, Settings!Taken, Settings!Lent
<1>2. dialog \in Opened
  BY <1>1, OpenedWindow
<1>3. /\ dialog' \in Opened /\ dialog'.open /\ dialog'.draft = dialog.last_applied
      /\ dialog'.last_applied = dialog.last_applied /\ dialog.last_applied \in Configs
      /\ dialog'.picker = {} /\ dialog'.behind = dialog.behind \ {"draft"}
  BY <1>1, <1>2 DEF Opened
<1>4. /\ applied' \in [look : SettingsLooks, hotkeys : SettingsHotkeys, undone : BOOLEAN]
      /\ applied'.look = applied.look /\ applied'.hotkeys = applied.hotkeys
      /\ applied'.undone <=> applied.undone \/ "applied" \in dialog.behind
  BY <1>1 DEF SettingsInv, SettingsTypes
<1>5. SettingsTypes' /\ Announced' /\ EffectsInv' /\ ~Silent(queue') /\ KeepsOutside
  BY <1>1, <1>3, <1>4, PreviewShows DEF Windows
<1>6. WindowInv'
  BY <1>1, <1>3, <1>4, <1>5 DEF SettingsInv, WindowInv
<1> QED
  BY <1>5, <1>6 DEF SettingsInv

\* The window that goes has nothing that was not applied.
LEMMA DestroyKeepsSettings == SettingsInv /\ Settings!DestroySettings => SettingsInv' /\ KeepsOutside
<1> SUFFICES ASSUME SettingsInv, Settings!DestroySettings PROVE SettingsInv' /\ KeepsOutside
  OBVIOUS
<1>1. /\ process = "running" /\ dialog.open /\ ~dialog.unapplied /\ dialog.picker = {}
      /\ dialog' = Settings!NoDialog /\ Settings!Sends(Settings!Closed)
      /\ UNCHANGED <<turn, config, registered, attached, saves, process, applied>>
  BY DEF Settings!DestroySettings, Settings!Lent
<1>2. Settings!Closed \in Actions /\ Settings!Closed.kind = "closed"
  BY DEF Actions, Settings!Closed
<1>3. /\ queue' \in Seq(Actions) /\ posts' \in Nat /\ lostActions' \in 0..1
      /\ Announced' /\ queue'[Len(queue')] = Settings!Closed
      /\ \A kinds, f, now, v : Settles(queue, kinds, f, now, v) =>
           Settles(queue', kinds, f, now, IF "closed" \in kinds THEN Settings!Closed.draft[f] ELSE v)
  BY <1>1, <1>2, SendKeeps DEF SettingsInv
<1>4. SettingsTypes'
  BY <1>1, <1>3 DEF SettingsInv, SettingsTypes, Windows
<1>5. WindowInv'
  BY <1>1, <1>3 DEF WindowInv, Settings!NoDialog
<1>6. Settles(queue', {"commit"}, "hotkeys", config.hotkeys, applied.hotkeys)
  BY <1>3 DEF SettingsInv, EffectsInv
<1>7. PICK v : Settles(queue, Shown, "look", config.look, v) /\ Target(v)
  BY <1>1 DEF SettingsInv, EffectsInv
<1>8. Settles(queue', Shown, "look", config.look, v)
  BY <1>3, <1>7 DEF Shown
<1>9. Target(v)'
  BY <1>1, <1>7 DEF SettingsInv, WindowInv, Target, Settings!NoDialog
<1>10. EffectsInv'
  BY <1>1, <1>6, <1>8, <1>9 DEF SettingsInv, EffectsInv
<1> QED
  BY <1>1, <1>3, <1>4, <1>5, <1>10 DEF SettingsInv, SettingsTypes, Configs, KeepsOutside

\* A turn uses up one announcement.
LEMMA BeginTurnKeeps == SettingsInv /\ Settings!BeginTurn => SettingsInv' /\ KeepsOutside
<1> SUFFICES ASSUME SettingsInv, Settings!BeginTurn PROVE SettingsInv' /\ KeepsOutside
  OBVIOUS
<1>1. /\ turn = 0 /\ posts > 0 /\ turn' = (IF queue = << >> THEN 0 ELSE SettingsBatch)
      /\ posts' = posts - 1
      /\ UNCHANGED <<config, registered, attached, dialog, queue, lostActions, saves, process, applied>>
  BY DEF Settings!BeginTurn
<1>2. SettingsTypes'
  BY <1>1, SettingsAssumption DEF SettingsInv, SettingsTypes
<1>3. Announced'
  <2>1. posts \in Nat /\ lostActions \in Nat /\ Len(queue) \in Nat
    BY DEF SettingsInv, SettingsTypes
  <2>2. posts + lostActions >= Len(queue)
    BY <1>1, <2>1 DEF SettingsInv, Announced
  <2>3. CASE queue = << >>
    BY <1>1, <2>1, <2>3 DEF Announced
  <2>4. CASE queue # << >>
    BY <1>1, <2>1, <2>2, <2>4, SettingsAssumption DEF Announced
  <2> QED
    BY <2>3, <2>4
<1>4. WindowInv'
  BY <1>1 DEF SettingsInv, WindowInv
<1>5. EffectsInv'
  BY <1>1 DEF SettingsInv, EffectsInv, Target
<1> QED
  BY <1>1, <1>2, <1>3, <1>4, <1>5 DEF SettingsInv, SettingsTypes, Configs, KeepsOutside

\* What is left of the queue, and of its announcements.
LEMMA TurnTakes ==
    ASSUME SettingsTypes, Announced, Settings!ProcessAction
    PROVE  /\ queue' \in Seq(Actions) /\ turn' \in Nat /\ posts' \in Nat /\ lostActions' \in 0..1
           /\ Announced'
           /\ queue' # << >> => queue'[Len(queue')] = queue[Len(queue)]
<1> DEFINE n == Settings!Front(queue)
<1>1. /\ turn > 0 /\ queue # << >> /\ queue' = SubSeq(queue, n + 1, Len(queue))
      /\ IF queue' = << >> THEN turn' = 0 /\ UNCHANGED <<posts, lostActions>>
         ELSE turn' = turn - 1 /\ IF turn = 1 THEN Settings!Posted ELSE UNCHANGED <<posts, lostActions>>
  BY DEF Settings!ProcessAction
<1>2. /\ queue \in Seq(Actions) /\ posts \in Nat /\ turn \in Nat /\ lostActions \in 0..1
      /\ posts + lostActions >= Len(queue) - 1 /\ Len(queue) \in Nat
  BY <1>1 DEF SettingsTypes, Announced
<1>3. n \in 1..Len(queue)
  BY <1>1, <1>2, FrontTakes
<1> HIDE DEF n
<1>4. /\ queue' \in Seq(Actions) /\ Len(queue') = Len(queue) - n
      /\ \A i \in 1..Len(queue') : queue'[i] = queue[i + n]
  BY <1>1, <1>2, <1>3
<1>5. queue' # << >> => queue'[Len(queue')] = queue[Len(queue)]
  <2> HAVE queue' # << >>
  <2>1. Len(queue') \in 1..Len(queue') /\ Len(queue') + n = Len(queue)
    BY <1>2, <1>3, <1>4
  <2> QED
    BY <1>4, <2>1
<1>6. Len(queue') \in Nat /\ posts + lostActions >= Len(queue')
  BY <1>2, <1>3, <1>4
<1>7. CASE queue' = << >>
  BY <1>1, <1>2, <1>4, <1>6, <1>7 DEF Announced
<1>8. CASE queue' # << >> /\ turn = 1
  <2>1. posts' \in Nat /\ lostActions' \in 0..1 /\ posts' + lostActions' = posts + lostActions + 1
    BY <1>1, <1>2, <1>8, OnePosted
  <2>2. turn' = 0
    BY <1>1, <1>2, <1>8
  <2>3. posts' + lostActions' >= Len(queue') - 0
    <3>1. posts \in Nat /\ lostActions \in Nat
      BY <1>2
    <3>2. posts' + lostActions' = posts + lostActions + 1
      BY <2>1
    <3> QED
      BY <1>6, <3>1, <3>2
  <2> QED
    BY <1>4, <1>5, <2>1, <2>2, <2>3 DEF Announced
<1>9. CASE queue' # << >> /\ turn # 1
  <2>1. turn' \in Nat /\ turn' # 0 /\ UNCHANGED <<posts, lostActions>>
    BY <1>1, <1>2, <1>9
  <2>2. posts + lostActions \in Nat
    BY <1>2
  <2>3. posts + lostActions >= Len(queue') - 1
    BY <1>6, <2>2
  <2>4. Announced'
    BY <2>1, <2>3 DEF Announced
  <2> QED
    BY <1>2, <1>4, <1>5, <2>1, <2>4
<1> QED
  BY <1>7, <1>8, <1>9

\* Taking an action, or the last of the previews at the front.
LEMMA ProcessKeeps == SettingsInv /\ Settings!ProcessAction => SettingsInv' /\ KeepsOutside
<1> SUFFICES ASSUME SettingsInv, Settings!ProcessAction PROVE SettingsInv' /\ KeepsOutside
  OBVIOUS
<1> DEFINE n == Settings!Front(queue)
           a == queue[n]
<1>0. /\ queue \in Seq(Actions) /\ queue # << >> /\ Len(queue) \in Nat
      /\ process = "running" /\ queue' = SubSeq(queue, n + 1, Len(queue))
      /\ UNCHANGED <<process, applied>>
  BY DEF Settings!ProcessAction, SettingsInv, SettingsTypes
<1>1. n \in 1..Len(queue) /\ \A i \in 1..n : queue[i].kind = a.kind
  BY <1>0, FrontTakes
<1> HIDE DEF n
<1>2. a \in Actions
  BY <1>0, <1>1
<1>3. PICK m \in Settings!Updated(Settings!Model, a) : Settings!Leaves(m)
  BY DEF Settings!ProcessAction, n
<1>4. /\ Settings!Model \in Models /\ Settings!Model.config.magnetic = Settings!Model.attached
      /\ Settings!Model.registered \in {Settings!Model.config.hotkeys, Settings!None}
  BY DEF Settings!Model, Models, SettingsInv, SettingsTypes, EffectsInv
<1> HIDE DEF a
<1>5. /\ m \in Models /\ m.config.magnetic = m.attached
      /\ m.config.look = IF a.kind \in Shown THEN a.draft.look ELSE Settings!Model.config.look
      /\ m.config.hotkeys = IF a.kind \in {"commit"} THEN a.draft.hotkeys ELSE Settings!Model.config.hotkeys
      /\ m.config.outside = Settings!Model.config.outside
      /\ m.registered \in {m.config.hotkeys, Settings!None}
      /\ m.dialog.open = Settings!Model.dialog.open
      /\ ~Settings!Model.dialog.open => m.dialog = Settings!Model.dialog
      /\ Settings!Model.dialog.open =>
           /\ a.kind \in Shown => Synchronised(m.dialog, m.config.magnetic)
           /\ a.kind \notin Shown => m = Settings!Model
           /\ SameWindow(m.dialog, Settings!Model.dialog)
  BY <1>2, <1>3, <1>4, ActionUpdates
<1>6. /\ config' = m.config /\ registered' = m.registered /\ attached' = m.attached
      /\ dialog' = m.dialog /\ saves' = m.saves
      /\ Settings!Model.config = config /\ Settings!Model.dialog = dialog
  BY <1>3 DEF Settings!Leaves, Settings!Model
<1>7. /\ config'.look = IF a.kind \in Shown THEN a.draft.look ELSE config.look
      /\ config'.hotkeys = IF a.kind \in {"commit"} THEN a.draft.hotkeys ELSE config.hotkeys
      /\ config'.outside = config.outside /\ config'.magnetic = attached'
      /\ registered' \in {config'.hotkeys, Settings!None}
      /\ dialog'.open = dialog.open
      /\ dialog.open => /\ a.kind \in Shown => Synchronised(dialog', config'.magnetic)
                        /\ a.kind \notin Shown => config' = config /\ dialog' = dialog
                        /\ SameWindow(dialog', dialog)
  BY <1>5, <1>6
<1>8. /\ config' \in Configs /\ registered' \in SettingsHotkeys \cup {Settings!None} /\ attached' \in BOOLEAN
      /\ dialog' \in Windows /\ saves' \in Seq(Configs)
  <2>1. m \in Models
    BY <1>5
  <2> QED
    BY <1>6, <2>1 DEF Models
<1>9. /\ queue' \in Seq(Actions) /\ turn' \in Nat /\ posts' \in Nat /\ lostActions' \in 0..1
      /\ Announced'
      /\ queue' # << >> => queue'[Len(queue')] = queue[Len(queue)]
  BY TurnTakes DEF SettingsInv
<1>10. SettingsTypes'
  BY <1>0, <1>8, <1>9 DEF SettingsInv, SettingsTypes
<1>11. Silent(queue') /\ a.kind \notin Shown => Silent(queue)
  <2> SUFFICES ASSUME Silent(queue'), a.kind \notin Shown, NEW i \in 1..Len(queue)
               PROVE  queue[i].kind \notin Shown
    BY DEF Silent
  <2>1. CASE i <= n
    BY <1>1, <2>1
  <2>2. CASE i > n
    <3>1. i - n \in 1..Len(queue') /\ queue'[i - n] = queue[i]
      BY <1>0, <1>1, <2>2
    <3> QED
      BY <3>1 DEF Silent
  <2> QED
    BY <1>0, <1>1, <2>1, <2>2
<1>12. WindowInv'
  BY <1>0, <1>7, <1>9, <1>11 DEF SettingsInv, WindowInv, SameWindow, Synchronised
<1>13. Settles(queue', {"commit"}, "hotkeys", config'.hotkeys, applied.hotkeys)
  BY <1>0, <1>1, <1>7, SettlesDrop DEF SettingsInv, EffectsInv, a
<1>14. PICK v : Settles(queue, Shown, "look", config.look, v) /\ Target(v)
  BY <1>0 DEF SettingsInv, EffectsInv
<1>15. Settles(queue', Shown, "look", config'.look, v)
  BY <1>0, <1>1, <1>7, <1>14, SettlesDrop DEF a
<1>18. Target(v)'
  BY <1>0, <1>7, <1>14 DEF Target, SameWindow
<1>16. EffectsInv'
  BY <1>0, <1>7, <1>13, <1>15, <1>18 DEF EffectsInv
<1>17. KeepsOutside
  BY <1>7, <1>8 DEF KeepsOutside, Configs
<1> QED
  BY <1>9, <1>10, <1>12, <1>16, <1>17 DEF SettingsInv

\* The command tells the draft.
LEMMA ToggleKeeps == SettingsInv /\ Settings!ToggleMagnetic => SettingsInv' /\ KeepsOutside
<1> SUFFICES ASSUME SettingsInv, Settings!ToggleMagnetic PROVE SettingsInv' /\ KeepsOutside
  OBVIOUS
<1>1. /\ Settings!Model \in Models /\ (~config.magnetic) \in BOOLEAN /\ config.outside \in Nat
      /\ Settings!Model.config = config /\ Settings!Model.dialog = dialog
      /\ Settings!Model.registered = registered
  <2>1. Settings!Model \in Models
    BY DEF Settings!Model, Models, SettingsInv, SettingsTypes
  <2>2. config.outside \in Nat /\ (~config.magnetic) \in BOOLEAN
    BY DEF SettingsInv, SettingsTypes, Configs
  <2> QED
    BY <2>1, <2>2 DEF Settings!Model
<1>2. PICK m \in Settings!MagneticSet(Settings!Model, ~config.magnetic) :
         Settings!Leaves(Settings!SaveConfig(Settings!CheckboxSynced(m)))
  BY DEF Settings!ToggleMagnetic
<1>3. /\ m \in Models /\ m.config.magnetic = m.attached
      /\ m.config.look = config.look /\ m.config.hotkeys = config.hotkeys
      /\ m.config.outside = config.outside
      /\ m.registered = registered /\ m.dialog = dialog
  BY <1>1, <1>2, MagneticSets
<1> DEFINE c == Settings!CheckboxSynced(m)
           s == Settings!SaveConfig(c)
<1>4. /\ c \in Models /\ c.config = m.config /\ c.attached = m.attached
      /\ c.registered = m.registered
      /\ c.dialog.open = m.dialog.open
      /\ ~m.dialog.open => c.dialog = m.dialog
      /\ m.dialog.open => /\ Synchronised(c.dialog, m.config.magnetic)
                          /\ SameWindow(c.dialog, m.dialog)
  BY <1>3, CheckboxTells
<1> HIDE DEF c
<1>5. /\ s \in Models /\ s.config = c.config /\ s.attached = c.attached
      /\ s.registered = c.registered /\ s.dialog = c.dialog
  BY <1>4, SaveKeeps
<1>6. /\ config' = s.config /\ registered' = s.registered /\ attached' = s.attached
      /\ dialog' = s.dialog /\ saves' = s.saves
      /\ UNCHANGED <<turn, queue, posts, lostActions, process, applied>>
  BY <1>2 DEF Settings!Leaves, Settings!ToggleMagnetic, c
<1> HIDE DEF s
<1>7. SettingsTypes'
  BY <1>5, <1>6 DEF SettingsInv, SettingsTypes, Models
<1>8. Announced' /\ WindowInv'
  BY <1>3, <1>4, <1>5, <1>6 DEF SettingsInv, Announced, WindowInv, SameWindow
<1>9. EffectsInv'
  BY <1>3, <1>4, <1>5, <1>6 DEF SettingsInv, EffectsInv, Target, SameWindow
<1> QED
  BY <1>1, <1>3, <1>4, <1>5, <1>6, <1>7, <1>8, <1>9 DEF SettingsInv, KeepsOutside

\* The command does not tell the draft, and what it changed is what was asked for last.
LEMMA ChangeLookKeeps == SettingsInv /\ Settings!ChangeLook => SettingsInv' /\ KeepsOutside
<1> SUFFICES ASSUME SettingsInv, Settings!ChangeLook PROVE SettingsInv' /\ KeepsOutside
  OBVIOUS
<1>1. PICK look \in SettingsLooks :
        /\ config' = [config EXCEPT !.look = look]
        /\ applied' = [applied EXCEPT !.look = look, !.undone = queue # << >>]
  BY DEF Settings!ChangeLook
<1>2. /\ process = "running"
      /\ dialog' = IF dialog.open THEN [dialog EXCEPT !.behind = @ \cup {"draft", "applied"}] ELSE dialog
      /\ UNCHANGED <<turn, registered, attached, queue, posts, lostActions, saves, process>>
  BY DEF Settings!ChangeLook, Settings!User
<1>3. /\ config' \in Configs /\ config'.look = look /\ config'.hotkeys = config.hotkeys
      /\ config'.magnetic = config.magnetic /\ config'.outside = config.outside
      /\ config.outside \in Nat
  BY <1>1 DEF SettingsInv, SettingsTypes, Configs
<1>4. /\ applied' \in [look : SettingsLooks, hotkeys : SettingsHotkeys, undone : BOOLEAN]
      /\ applied'.look = look /\ applied'.hotkeys = applied.hotkeys
      /\ applied'.undone <=> queue # << >>
  BY <1>1 DEF SettingsInv, SettingsTypes
<1>5. /\ dialog' \in Windows /\ dialog'.open = dialog.open
      /\ dialog.open => /\ dialog'.draft = dialog.draft /\ "applied" \in dialog'.behind
                        /\ "draft" \in dialog'.behind
                        /\ "magnetic" \in dialog'.behind <=> "magnetic" \in dialog.behind
  <2>1. CASE dialog.open
    <3>1. dialog \in Opened
      BY <2>1, OpenedWindow
    <3> QED
      BY <1>2, <2>1, <3>1 DEF Opened, Windows
  <2>2. CASE ~dialog.open
    BY <1>2, <2>2 DEF SettingsInv, SettingsTypes
  <2> QED
    BY <2>1, <2>2
<1>6. SettingsTypes' /\ Announced' /\ KeepsOutside
  BY <1>2, <1>3, <1>4, <1>5 DEF SettingsInv, SettingsTypes, Announced, KeepsOutside
<1>7. WindowInv'
  BY <1>2, <1>3, <1>4, <1>5 DEF SettingsInv, WindowInv, Synchronised
<1>8. PICK v : Settles(queue, Shown, "look", config.look, v)
  BY <1>2 DEF SettingsInv, EffectsInv
<1>9. \E w : Settles(queue, Shown, "look", look, w) /\ (queue = << >> => w = look)
  <2>1. CASE Silent(queue)
    <3>1. Settles(queue, Shown, "look", look, look)
      BY <2>1 DEF Silent, Settles
    <3> QED
      BY <3>1
  <2>2. CASE ~Silent(queue)
    <3>1. Settles(queue, Shown, "look", look, v)
      BY <1>8, <2>2 DEF Silent, Settles
    <3>2. queue # << >>
      BY <2>2 DEF Silent
    <3> QED
      BY <3>1, <3>2
  <2> QED
    BY <2>1, <2>2
<1>10. PICK w : Settles(queue, Shown, "look", look, w) /\ (queue = << >> => w = look)
  BY <1>9
<1>11. Target(w)'
  BY <1>4, <1>5, <1>10 DEF Target
<1>12. Settles(queue, {"commit"}, "hotkeys", config.hotkeys, applied.hotkeys)
  BY DEF SettingsInv, EffectsInv
<1>13. EffectsInv'
  BY <1>2, <1>3, <1>4, <1>10, <1>11, <1>12 DEF SettingsInv, EffectsInv
<1> QED
  BY <1>6, <1>7, <1>13 DEF SettingsInv

\* A change from outside touches nothing that the window edits.
LEMMA OutsideKeepsSettings == SettingsInv /\ Settings!ChangeOutside => SettingsInv' /\ KeepsOutside
<1> SUFFICES ASSUME SettingsInv, Settings!ChangeOutside PROVE SettingsInv' /\ KeepsOutside
  OBVIOUS
<1> DEFINE m == [Settings!Model EXCEPT !.config.outside = @ + 1]
           s == Settings!SaveConfig(m)
<1>1. config \in Configs /\ config.outside \in Nat
  BY DEF SettingsInv, SettingsTypes, Configs
<1>2. /\ m \in Models /\ m.config = [config EXCEPT !.outside = @ + 1] /\ m.attached = attached
      /\ m.registered = registered /\ m.dialog = dialog
  <2>1. [config EXCEPT !.outside = @ + 1] \in Configs
    BY <1>1 DEF Configs
  <2> QED
    BY <2>1 DEF Settings!Model, Models, SettingsInv, SettingsTypes
<1> HIDE DEF m
<1>3. /\ s \in Models /\ s.config = m.config /\ s.attached = m.attached
      /\ s.registered = m.registered /\ s.dialog = m.dialog
  BY <1>2, SaveKeeps
<1>4. /\ config' = s.config /\ registered' = s.registered /\ attached' = s.attached
      /\ dialog' = s.dialog /\ saves' = s.saves
      /\ UNCHANGED <<turn, queue, posts, lostActions, process, applied>>
  BY DEF Settings!Leaves, Settings!ChangeOutside, m
<1> HIDE DEF s
<1>5. /\ config'.look = config.look /\ config'.hotkeys = config.hotkeys
      /\ config'.magnetic = config.magnetic /\ config'.outside = config.outside + 1
  BY <1>1, <1>2, <1>3, <1>4 DEF Configs
<1>6. SettingsTypes'
  BY <1>3, <1>4 DEF SettingsInv, SettingsTypes, Models
<1>7. Announced' /\ WindowInv'
  BY <1>2, <1>3, <1>4, <1>5 DEF SettingsInv, Announced, WindowInv
<1>8. EffectsInv'
  BY <1>2, <1>3, <1>4, <1>5 DEF SettingsInv, EffectsInv, Target
<1> QED
  BY <1>1, <1>5, <1>6, <1>7, <1>8 DEF SettingsInv, KeepsOutside

\* The save worker and leaving touch nothing of it but the window.
LEMMA LeavingKeeps ==
    ASSUME SettingsInv, Settings!Saver \/ Settings!Exit \/ Settings!SaveLast
    PROVE  SettingsInv' /\ KeepsOutside
<1>0. config.outside \in Nat
  BY DEF SettingsInv, SettingsTypes, Configs
<1>1. CASE Settings!Saver
  <2>1. /\ saves' \in {saves, << >>}
        /\ UNCHANGED <<turn, config, registered, attached, dialog, queue, posts, lostActions, process, applied>>
    BY <1>1 DEF Settings!Saver, Settings!Receive, Settings!Save, Settings!SaverEnds
  <2>2. SettingsTypes'
    <3>1. SettingsTypes
      BY DEF SettingsInv
    <3>2. << >> \in Seq(Configs) /\ saves \in Seq(Configs)
      BY <3>1 DEF SettingsTypes
    <3> QED
      BY <2>1, <3>1, <3>2 DEF SettingsTypes
  <2>3. Announced' /\ WindowInv' /\ EffectsInv'
    BY <2>1 DEF SettingsInv, Announced, WindowInv, EffectsInv, Target
  <2> QED
    BY <1>0, <2>1, <2>2, <2>3 DEF SettingsInv, KeepsOutside
<1>2. CASE Settings!Exit
  <2>1. /\ process' = "joining" /\ dialog' = [dialog EXCEPT !.open = FALSE]
        /\ UNCHANGED <<turn, config, registered, attached, queue, posts, lostActions, saves, applied>>
    BY <1>2 DEF Settings!Exit
  <2>2. dialog' \in Windows /\ ~dialog'.open
    BY <2>1 DEF SettingsInv, SettingsTypes, Windows, Opened, Settings!NoDialog
  <2>3. SettingsTypes'
    BY <2>1, <2>2 DEF SettingsInv, SettingsTypes
  <2>4. Announced' /\ WindowInv' /\ EffectsInv'
    BY <2>1, <2>2 DEF SettingsInv, Announced, WindowInv, EffectsInv
  <2> QED
    BY <1>0, <2>1, <2>3, <2>4 DEF SettingsInv, KeepsOutside
<1>3. CASE Settings!SaveLast
  <2>1. /\ process = "joining" /\ process' # "running" /\ registered' = Settings!None
        /\ UNCHANGED <<turn, config, attached, dialog, queue, posts, lostActions, saves, applied>>
    BY <1>3 DEF Settings!SaveLast
  <2>2. SettingsTypes'
    <3>1. SettingsTypes /\ registered' \in SettingsHotkeys \cup {Settings!None}
      BY <2>1 DEF SettingsInv
    <3> QED
      BY <2>1, <3>1 DEF SettingsTypes
  <2>3. Announced' /\ WindowInv' /\ EffectsInv'
    BY <2>1 DEF SettingsInv, Announced, WindowInv, EffectsInv
  <2> QED
    BY <1>0, <2>1, <2>2, <2>3 DEF SettingsInv, KeepsOutside
<1> QED
  BY <1>1, <1>2, <1>3

\* Every step keeps it.
LEMMA SettingsStep == SettingsInv /\ [Settings!Next]_Settings!vars => SettingsInv' /\ KeepsOutside
<1>1. SettingsInv /\ UNCHANGED Settings!vars => SettingsInv' /\ KeepsOutside
  <2> SUFFICES ASSUME SettingsInv, UNCHANGED Settings!vars PROVE SettingsInv' /\ KeepsOutside
    OBVIOUS
  <2>1. UNCHANGED <<turn, config, registered, attached, dialog, queue, posts, lostActions, saves, process, applied>>
    BY DEF Settings!vars
  <2>2. config.outside \in Nat
    BY DEF SettingsInv, SettingsTypes, Configs
  <2> QED
    BY <2>1, <2>2 DEF SettingsInv, SettingsTypes, Announced, WindowInv, EffectsInv, Target,
                      KeepsOutside
<1> QED
  BY <1>1, OpenSettingsKeeps, ControlKeeps, OpenPickerKeeps, PickerKeeps, ChangeLookKeeps, ApplyKeeps, CloseKeeps, DestroyKeepsSettings,
     BeginTurnKeeps, ProcessKeeps, ToggleKeeps, OutsideKeepsSettings, LeavingKeeps DEF Settings!Next, Settings!App

\* Whatever the settings are at the start, and however edits, picked colours, applied drafts,
\* discarded ones, commands, failures and one lost message follow each other: once the queue is
\* empty the configuration is what the open window shows or what the user asked for last, its
\* hotkeys and its magnetism are the ones in force, and no change from outside is undone.  The
\* window stays behind the commands that it is not told of, and its next preview undoes them
\* (app/action.rs, app/state.rs, dialogs/settings).
THEOREM SettingsFollowEachOther == Settings!Spec => ConfigAgrees
<1>1. SettingsInv /\ [Settings!Next]_Settings!vars => SettingsInv'
  BY SettingsStep
<1>2. SettingsInv /\ SettingsInv' /\ [Settings!Next]_Settings!vars
        => [Settings!Agrees' /\ config'.outside >= config.outside]_Settings!vars
  <2>1. SettingsInv' => Settings!Agrees'
    BY SettingsAgree, PTL
  <2> QED
    BY <2>1, SettingsStep DEF KeepsOutside
<1> QED
  BY <1>1, <1>2, SettingsBegin, PTL DEF Settings!Spec, ConfigAgrees, Settings!ConfigAgrees

\* So it is beside the other parts of the application.
THEOREM SettingsAgreeInApp == AppSpec => ConfigAgrees
<1>1. AppInit => SettingsInv
  BY SettingsBegin DEF AppInit, SettingsRest, SettingsStart
<1>2. [AppNext]_allVars => [Settings!Next]_Settings!vars
  BY DEF AppNext, allVars, settingsVars, Settings!vars
<1>3. SettingsInv /\ [AppNext]_allVars => SettingsInv'
  BY <1>2, SettingsStep
<1>4. SettingsInv /\ SettingsInv' /\ [AppNext]_allVars
        => [Settings!Agrees' /\ config'.outside >= config.outside]_Settings!vars
  <2>1. SettingsInv' => Settings!Agrees'
    BY SettingsAgree, PTL
  <2> QED
    BY <1>2, <2>1, SettingsStep DEF KeepsOutside
<1> QED
  BY <1>1, <1>3, <1>4, PTL DEF AppSpec, ConfigAgrees, Settings!ConfigAgrees
=============================================================================
