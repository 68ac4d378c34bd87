------------------------ MODULE TranslationUi_proofs ------------------------
(***************************************************************************)
(* Proofs about the overlay's use of the dispatcher, for any dialogs and   *)
(* any number of texts, requests, commands and failures: what is shown as  *)
(* a translation is one of the original shown, a game sentence in flight   *)
(* is not replaced, and the clipboard is captured when it should be.       *)
(***************************************************************************)
EXTENDS TranslationUi, SequenceTheorems, TLAPS

-----------------------------------------------------------------------------
(* The inductive invariant                                                 *)

HookState == [session : BOOLEAN, live : BOOLEAN, timer : BOOLEAN,
              merging : Text, queue : Seq(Text), attaches : 0..MaxAttaches]

FlowOK ==
    /\ D!TypeOK
    /\ askedFor \in Seq(Text) /\ Len(askedFor) = issued
    /\ screen \in [text : Text, translated : Text]
    /\ pending \in Request

(* The pending request is one that was issued, for the original shown.     *)
Fits ==
    /\ screen.translated # 0 => screen.translated = screen.text
    /\ pending.id # 0 => /\ pending.id <= issued
                         /\ askedFor[pending.id] = pending.text
                         /\ screen.text = pending.text
    /\ pending.from = "hook" => pending.id # 0

(* No clipboard text is delayed into a hook session.                       *)
NoneDelayed == hook.session /\ failures = 0 => debounce = 0

(* The listener is in line with what is wanted, except inside the handlers *)
(* that will bring it there.                                               *)
InLine ==
    /\ ui \notin {"resume", "magnetic", "listener"} =>
          /\ configured /\ ~Paused => watching
          /\ failures = 0 /\ watching => configured /\ ~Paused
    /\ ui = "resume" => failures > 0

(* An end that was reported is that of an earlier window than the one open *)
(* now, as every window has a session number of its own.                   *)
EndsAreOld ==
    /\ sessions <= commands
    /\ \A d \in Dialogs : dialog[d].window <= sessions
    /\ \A i \in 1..Len(actions) :
          actions[i].kind = "dialog closed" =>
              /\ actions[i].session <= sessions
              /\ actions[i].session # dialog[actions[i].of].window
    /\ failures = 0 =>
          \A d \in Dialogs : dialog[d].window # 0 => dialog[d].session = dialog[d].window

IInv == TypeOK /\ Fits /\ NoneDelayed /\ InLine /\ EndsAreOld

-----------------------------------------------------------------------------
(* What the operators do to the request and the screen                     *)

\* No request is one with id 0, of nobody.
LEMMA NoRequestOK == NoRequest \in Request /\ NoRequest.id = 0 /\ NoRequest.from = "none"
BY UiBounds DEF NoRequest, Request, Text

(* A request that is dropped leaves nothing to fit.                        *)
LEMMA DroppedFits ==
  ASSUME pending' = NoRequest, screen'.translated # 0 => screen'.translated = screen'.text
  PROVE  Fits'
BY NoRequestOK DEF Fits

\* Cancelling keeps the types of the dispatcher.
LEMMA CancelKeepsType == D!TypeOK /\ D!Cancel(Window) => D!TypeOK'
BY UiBounds DEF D!TypeOK, D!Cancel, D!Ids

\* A step that leaves the translation alone keeps its types and its fit.
LEMMA FlowKept ==
  ASSUME FlowOK, Fits, UNCHANGED translation
  PROVE  FlowOK' /\ Fits'
<1>1. D!TypeOK'
  BY DEF FlowOK, translation, dispatcher, D!TypeOK
<1>2. FlowOK'
  BY <1>1 DEF FlowOK, translation, dispatcher
<1> QED
  BY <1>2 DEF Fits, translation, dispatcher

(* Giving up the request leaves the screen as it is.                       *)
LEMMA Cancelled ==
  ASSUME FlowOK, Fits, CancelTranslation
  PROVE  FlowOK' /\ Fits' /\ debounce' = 0 /\ screen' = screen
<1>1. D!TypeOK' /\ issued' = issued
  BY CancelKeepsType DEF FlowOK, CancelTranslation, D!Cancel
<1>2. FlowOK'
  BY <1>1, NoRequestOK DEF FlowOK, CancelTranslation
<1>3. Fits'
  BY DroppedFits DEF Fits, CancelTranslation
<1> QED
  BY <1>2, <1>3 DEF CancelTranslation

\* What is shown is typed, and is what was to be shown.
LEMMA ShownOK ==
  ASSUME NEW t \in Text, NEW translated \in Text, Shows(t, translated)
  PROVE  /\ screen' \in [text : Text, translated : Text]
         /\ screen'.text = t /\ screen'.translated = translated
BY DEF Shows

(* A text is asked for under a new id, or shown without a request.         *)
LEMMA Requested ==
  ASSUME FlowOK, Fits, NEW t \in Text, NEW from \in {"hook", "clipboard"},
         RequestTranslation(t, from)
  PROVE  FlowOK' /\ Fits'
<1>0. 0 \in Text
  BY UiBounds DEF Text
<1>1. CASE CaptureWithoutTranslation(t)
  <2>1. D!TypeOK' /\ askedFor' = askedFor /\ issued' = issued
    BY <1>1 DEF CaptureWithoutTranslation, dispatcher, FlowOK, D!TypeOK
  <2>2. screen' \in [text : Text, translated : Text] /\ screen'.translated = 0
    BY <1>0, <1>1, ShownOK DEF CaptureWithoutTranslation
  <2>3. pending' = NoRequest
    BY <1>1 DEF CaptureWithoutTranslation
  <2> QED
    BY <2>1, <2>2, <2>3, NoRequestOK, DroppedFits DEF FlowOK
<1>2. CASE D!Cancel(Window) /\ pending' = NoRequest /\ Shows(t, t) /\ UNCHANGED askedFor
  <2>1. D!TypeOK' /\ issued' = issued
    BY <1>2, CancelKeepsType DEF FlowOK, D!Cancel
  <2>2. screen' \in [text : Text, translated : Text]
        /\ screen'.text = t /\ screen'.translated = t
    BY <1>2, ShownOK
  <2> QED
    BY <1>2, <2>1, <2>2, NoRequestOK, DroppedFits DEF FlowOK
<1>3. CASE /\ D!Request(Window)
           /\ pending' = [id |-> issued', text |-> t, from |-> from, overdue |-> FALSE]
           /\ Shows(t, 0)
           /\ askedFor' = Append(askedFor, t)
  <2>1. /\ D!TypeOK' /\ issued' = issued + 1 /\ issued' \in 0..MaxRequests
        /\ issued \in Nat
    BY <1>3, UiBounds DEF FlowOK, D!TypeOK, D!Request, D!Ids
  <2>2. /\ askedFor' \in Seq(Text) /\ Len(askedFor') = issued'
        /\ askedFor'[issued'] = t
    BY <1>3, <2>1 DEF FlowOK
  <2>3. /\ screen' \in [text : Text, translated : Text]
        /\ screen'.text = t /\ screen'.translated = 0
    BY <1>0, <1>3, ShownOK
  <2>4. /\ pending' \in Request /\ pending'.id = issued'
        /\ pending'.text = t /\ pending'.id # 0
    BY <1>3, <2>1 DEF Request
  <2>5. FlowOK'
    BY <2>1, <2>2, <2>3, <2>4 DEF FlowOK
  <2>6. pending'.id <= issued'
    BY <2>1, <2>4
  <2> QED
    BY <2>2, <2>3, <2>4, <2>5, <2>6 DEF Fits
<1>4. CASE RefusedRequest(t)
  <2>1. D!TypeOK' /\ issued' = issued + 1
    BY <1>4, UiBounds DEF RefusedRequest, FlowOK, D!TypeOK, D!Ids
  <2>2. askedFor' \in Seq(Text) /\ Len(askedFor') = issued'
    BY <1>4, <2>1 DEF FlowOK, RefusedRequest
  <2>3. screen' \in [text : Text, translated : Text] /\ screen'.translated = 0
    BY <1>0, <1>4, ShownOK DEF RefusedRequest
  <2>4. pending' = NoRequest
    BY <1>4 DEF RefusedRequest
  <2> QED
    BY <2>1, <2>2, <2>3, <2>4, NoRequestOK, DroppedFits DEF FlowOK
<1> QED
  BY <1>1, <1>2, <1>3, <1>4 DEF RequestTranslation

(* A response read is the pending request's or leaves all as it is.        *)
LEMMA Taken ==
  ASSUME FlowOK, Fits, HandleComplete
  PROVE  FlowOK' /\ Fits'
<1>1. PICK id \in answers[Window] :
        /\ id > read[Window]
        /\ answers' = [answers EXCEPT ![Window] = @ \ {id}]
        /\ read' = [read EXCEPT ![Window] = id]
        /\ UNCHANGED <<issued, wanted, answered, askedFor>>
  BY DEF HandleComplete, D!Take
<1>2. id \in 1..MaxRequests
  BY <1>1 DEF FlowOK, D!TypeOK, D!Ids
<1>3. D!TypeOK' /\ read'[Window] = id
  BY <1>1, <1>2 DEF FlowOK, D!TypeOK, D!Ids
<1>4. CASE Correlates(id)
  <2>1. pending.id = id /\ id # 0 /\ pending.text \in Text
    BY <1>2, <1>4 DEF Correlates, FlowOK, Request
  <2>2. pending' = NoRequest /\ (Shows(pending.text, askedFor[id]) \/ Shows(pending.text, 0))
    BY <1>3, <1>4 DEF HandleComplete
  <2>3. askedFor[id] = pending.text
    BY <2>1 DEF Fits
  <2>4. 0 \in Text
    BY UiBounds DEF Text
  <2>5. /\ screen' \in [text : Text, translated : Text]
        /\ screen'.translated # 0 => screen'.translated = screen'.text
    BY <2>1, <2>2, <2>3, <2>4, ShownOK
  <2> QED
    BY <1>1, <1>3, <2>2, <2>5, NoRequestOK, DroppedFits DEF FlowOK
<1>5. CASE ~Correlates(id)
  <2>1. UNCHANGED <<pending, screen>>
    BY <1>3, <1>5 DEF HandleComplete
  <2> QED
    BY <1>1, <1>3, <2>1 DEF FlowOK, Fits
<1> QED
  BY <1>4, <1>5

\* What the dispatcher does by itself changes no request of the UI.
LEMMA Dispatched ==
  ASSUME FlowOK, Fits, Dispatch
  PROVE  FlowOK' /\ Fits'
<1>1. issued' = issued /\ UNCHANGED <<askedFor, screen, pending>>
  BY DEF Dispatch, D!Answer, D!Lose
<1>2. CASE D!Answer(Window)
  <2>1. PICK lost \in SUBSET (1..MaxRequests) :
           answers' = [u \in {Window} |->
                         (answers[u] \union (IF u = Window THEN {wanted[Window]} ELSE {}))
                           \ lost]
    BY <1>2 DEF D!Answer, D!Ids
  <2>2. wanted[Window] \in 1..MaxRequests
    BY <1>2, UiBounds DEF FlowOK, D!TypeOK, D!Answer
  <2>3. answers' \in [{Window} -> SUBSET (1..MaxRequests)]
    BY <2>1, <2>2 DEF FlowOK, D!TypeOK, D!Ids
  <2>4. D!TypeOK'
    BY <1>2, <2>2, <2>3 DEF FlowOK, D!TypeOK, D!Ids, D!Answer
  <2> QED
    BY <1>1, <2>4 DEF FlowOK, Fits
<1>3. CASE D!Lose(Window)
  BY <1>1, <1>3 DEF FlowOK, D!TypeOK, D!Ids, D!Lose, Fits
<1> QED
  BY <1>2, <1>3 DEF Dispatch

\* Time that passes makes a request overdue and changes nothing else of it.
LEMMA Overtaken ==
  ASSUME FlowOK, Fits, Overtakes
  PROVE  FlowOK' /\ Fits'
<1>1. /\ UNCHANGED <<dispatcher, askedFor, screen>>
      /\ pending' = [pending EXCEPT !.overdue = TRUE]
  BY DEF Overtakes
<1>2. D!TypeOK' /\ issued' = issued
  BY <1>1 DEF FlowOK, D!TypeOK, dispatcher
<1>3. /\ pending' \in Request /\ pending'.id = pending.id
      /\ pending'.text = pending.text /\ pending'.from = pending.from
  BY <1>1 DEF FlowOK, Request
<1> QED
  BY <1>1, <1>2, <1>3 DEF FlowOK, Fits

-----------------------------------------------------------------------------
(* Sentences in the merge window and the queue                             *)

HookFits(h) == h \in HookState /\ Len(h.queue) <= MaxQueued

\* The queue of sentences keeps its limit.
LEMMA QueuedFits ==
  ASSUME NEW q \in Seq(Text), Len(q) <= MaxQueued, NEW t \in Text
  PROVE  Queued(q, t) \in Seq(Text) /\ Len(Queued(q, t)) <= MaxQueued
<1>1. Len(q) \in Nat /\ MaxQueued \in Nat /\ MaxQueued >= 1
  BY UiBounds
<1>2. CASE Len(q) >= MaxQueued
  <2>1. q # <<>>
    BY <1>1, <1>2
  <2>2. Tail(q) \in Seq(Text) /\ Len(Tail(q)) = Len(q) - 1
    BY <2>1
  <2>3. Append(Tail(q), t) \in Seq(Text) /\ Len(Append(Tail(q), t)) = Len(q)
    BY <1>1, <2>2
  <2> QED
    BY <1>2, <2>3 DEF Queued
<1>3. CASE ~(Len(q) >= MaxQueued)
  BY <1>1, <1>3 DEF Queued
<1> QED
  BY <1>2, <1>3

\* What the merger emits keeps the types and the session.
LEMMA EmissionsFit ==
  ASSUME NEW g, HookFits(g), NEW h \in {g} \union Emissions(g)
  PROVE  HookFits(h) /\ h.session = g.session
<1>1. CASE h = g
  BY <1>1
<1>2. CASE h # g
  <2>1. PICK q \in {g.queue, Queued(g.queue, g.merging)} :
           h = [g EXCEPT !.merging = 0, !.queue = q]
    BY <1>2 DEF Emissions
  <2>2. g.queue \in Seq(Text) /\ g.merging \in Text /\ Len(g.queue) <= MaxQueued
    BY DEF HookFits, HookState
  <2>3. q \in Seq(Text) /\ Len(q) <= MaxQueued
    BY <2>1, <2>2, QueuedFits
  <2>4. 0 \in Text
    BY UiBounds DEF Text
  <2>5. h \in HookState /\ h.queue = q /\ h.session = g.session
    BY <2>1, <2>3, <2>4 DEF HookFits, HookState
  <2> QED
    BY <2>3, <2>5 DEF HookFits
<1> QED
  BY <1>1, <1>2

\* Clearing what waits keeps the types.
LEMMA ClearedFits ==
  ASSUME NEW g, HookFits(g)
  PROVE  HookFits(ClearHookPending(g))
<1>1. 0 \in Text /\ <<>> \in Seq(Text) /\ Len(<<>>) = 0
  BY UiBounds DEF Text
<1>2. /\ ClearHookPending(g) \in HookState
      /\ ClearHookPending(g).queue = <<>>
  BY <1>1 DEF HookFits, HookState, ClearHookPending
<1> QED
  BY <1>1, <1>2, UiBounds DEF HookFits

(* The last sentence of a queue is asked for, unless one is waited for.    *)
LEMMA Pumped ==
  ASSUME FlowOK, Fits, NEW h, HookFits(h), Pump(h)
  PROVE  /\ FlowOK' /\ Fits'
         /\ HookFits(hook')
         /\ hook'.session = h.session
         /\ Waits => UNCHANGED translation
<1>1. CASE h.queue = <<>> \/ Waits
  <2>1. hook' = h /\ UNCHANGED translation
    BY <1>1 DEF Pump
  <2>2. FlowOK' /\ Fits'
    BY <2>1, FlowKept
  <2> QED
    BY <2>1, <2>2
<1>2. CASE ~(h.queue = <<>> \/ Waits)
  <2>1. /\ hook' = [h EXCEPT !.queue = <<>>]
        /\ RequestTranslation(h.queue[Len(h.queue)], "hook")
    BY <1>2 DEF Pump
  <2>2. h.queue \in Seq(Text) /\ h.queue # <<>>
    BY <1>2 DEF HookFits, HookState
  <2>3. h.queue[Len(h.queue)] \in Text
    BY <2>2, EmptySeq
  <2>4. FlowOK' /\ Fits'
    BY <2>1, <2>3, Requested
  <2>5. <<>> \in Seq(Text) /\ Len(<<>>) = 0
    OBVIOUS
  <2>6. hook' \in HookState /\ hook'.queue = <<>> /\ hook'.session = h.session
    BY <2>1, <2>5 DEF HookFits, HookState
  <2> QED
    BY <1>2, <2>4, <2>5, <2>6, UiBounds DEF HookFits
<1> QED
  BY <1>1, <1>2

-----------------------------------------------------------------------------
(* What a step does to the request and the screen                          *)

(* Most handlers give the request up or do not touch it.                   *)
Calm == CancelTranslation \/ UNCHANGED <<debounce, translation>>

\* A calm step keeps the translation and its fit, and may only stop the debounce.
LEMMA CalmFits ==
  ASSUME FlowOK, Fits, Calm
  PROVE  FlowOK' /\ Fits' /\ screen' = screen /\ debounce' \in {0, debounce}
<1>1. CASE CancelTranslation
  BY <1>1, Cancelled
<1>2. CASE UNCHANGED <<debounce, translation>>
  BY <1>2, FlowKept DEF translation
<1> QED
  BY <1>1, <1>2 DEF Calm

\* Pauses, notices and the magnetic mode are calm,
LEMMA CalmOperators ==
  /\ PauseSucceeds \/ PauseFails \/ ShowFails => Calm
  /\ \A kind : ShowNotice(kind) => Calm
  /\ \A enabled : SetMagnetic(enabled) => Calm
BY DEF Calm, PauseSucceeds, PauseFails, ShowFails, ShowNotice, SetMagnetic

\* and so are the steps that only pause, resume, open, close or switch.
LEMMA CalmSteps ==
  ASSUME \/ HookAttached \/ HookDetached
         \/ OpenMenu \/ ResumeLast \/ ToggleWatch \/ StopHook \/ OpenSettings
         \/ \E d \in Dialogs : ActivateDialog(d) \/ OpenDialog(d) \/ CloseDialog(d)
         \/ ToggleMagnetic \/ MagneticTargetSelected \/ NoticeTimer
         \/ CloseSettings \/ SendCommit \/ SendPreview
         \/ SettingsClosed \/ DialogClosed \/ ApplyDraft \/ SyncMagnetic \/ SyncListener
         \/ UNCHANGED vars
  PROVE  Calm
<1>1. HookAttached \/ OpenMenu \/ OpenSettings \/ ToggleMagnetic \/ MagneticTargetSelected
        \/ SyncMagnetic
      => Calm
  <2>1. HookAttached \/ OpenMenu \/ OpenSettings => Calm
    BY CalmOperators DEF HookAttached, OpenMenu, OpenSettings
  <2>2. ToggleMagnetic \/ SyncMagnetic => Calm
    BY CalmOperators DEF ToggleMagnetic, SyncMagnetic
  <2>3. MagneticTargetSelected => Calm
    BY CalmOperators DEF MagneticTargetSelected, Calm
  <2> QED
    BY <2>1, <2>2, <2>3
<1>2. HookDetached \/ ResumeLast \/ StopHook \/ NoticeTimer \/ CloseSettings
        \/ SendCommit \/ SendPreview
      => Calm
  BY DEF HookDetached, ResumeLast, StopHook, NoticeTimer, CloseSettings, SendCommit,
         SendPreview, Calm
<1>3. SettingsClosed \/ DialogClosed \/ ApplyDraft => Calm
  BY DEF SettingsClosed, DialogClosed, ApplyDraft, Process, Calm
<1>4. ToggleWatch => Calm
  BY DEF ToggleWatch, Calm
<1>5. SyncListener => Calm
  BY CalmOperators DEF SyncListener, Calm
<1>6. UNCHANGED vars => Calm
  BY DEF vars, Calm
<1>7. ASSUME NEW d \in Dialogs, ActivateDialog(d) \/ OpenDialog(d) \/ CloseDialog(d)
      PROVE  Calm
  <2>1. ActivateDialog(d) \/ OpenDialog(d) => Calm
    BY CalmOperators DEF ActivateDialog, OpenDialog
  <2>2. CloseDialog(d) => Calm
    BY DEF CloseDialog, Calm
  <2> QED
    BY <1>7, <2>1, <2>2
<1> QED
  BY <1>1, <1>2, <1>3, <1>4, <1>5, <1>6, <1>7

(* The texts handled are 0 or texts that arrived.                          *)
LEMMA FlowStep ==
  ASSUME FlowOK, Fits, HookFits(hook), texts \in Text, debounce \in Text, [Next]_vars
  PROVE  FlowOK' /\ Fits'
<1>1. ASSUME HandleComplete PROVE FlowOK' /\ Fits'
  BY <1>1, Taken
<1>2. ASSUME PumpAfterCompletion \/ DrainMerger \/ MergeTimer PROVE FlowOK' /\ Fits'
  <2>1. PICK h \in {hook} \union Emissions(hook) : Pump(h)
    BY <1>2 DEF PumpAfterCompletion, DrainMerger, MergeTimer
  <2> QED
    BY <2>1, EmissionsFit, Pumped
<1>3. ASSUME HookText PROVE FlowOK' /\ Fits'
  <2>1. PICK h \in {hook} \union Emissions(hook) : Pump([h EXCEPT !.merging = texts + 1])
    BY <1>3 DEF HookText
  <2>2. texts + 1 \in Text
    BY <1>3, UiBounds DEF HookText, Text
  <2>3. HookFits([h EXCEPT !.merging = texts + 1])
    BY <2>1, <2>2, EmissionsFit DEF HookFits, HookState
  <2> QED
    BY <2>1, <2>3, Pumped
<1>4. ASSUME Overtakes PROVE FlowOK' /\ Fits'
  BY <1>4, Overtaken
<1>5. ASSUME ClipboardChanged PROVE FlowOK' /\ Fits'
  <2>1. texts + 1 \in Text
    BY <1>5, UiBounds DEF ClipboardChanged, Text
  <2>2. CASE ShowUntranslated(texts + 1)
    <3>1. D!TypeOK' /\ issued' = issued
      BY <2>2, CancelKeepsType DEF ShowUntranslated, FlowOK, D!Cancel
    <3>2. screen' \in [text : Text, translated : Text]
          /\ screen'.text = texts + 1 /\ screen'.translated = texts + 1
      BY <2>1, <2>2, ShownOK DEF ShowUntranslated
    <3> QED
      BY <2>2, <3>1, <3>2, NoRequestOK, DroppedFits DEF FlowOK, ShowUntranslated
  <2>3. CASE UNCHANGED translation
    BY <2>3, FlowKept
  <2>4. CASE RequestTranslation(texts + 1, "clipboard")
    BY <2>1, <2>4, Requested
  <2> QED
    BY <1>5, <2>2, <2>3, <2>4 DEF ClipboardChanged
<1>6. ASSUME ClipboardDebounceTimer PROVE FlowOK' /\ Fits'
  BY <1>6, Requested DEF ClipboardDebounceTimer
<1>7. ASSUME Dispatch PROVE FlowOK' /\ Fits'
  BY <1>7, Dispatched
<1>8. ASSUME Calm PROVE FlowOK' /\ Fits'
  BY <1>8, CalmFits
<1> QED
  BY <1>1, <1>2, <1>3, <1>4, <1>5, <1>6, <1>7, <1>8, CalmSteps DEF Next

-----------------------------------------------------------------------------
(* What a step does to the types of the rest                               *)

Places == {"idle", "pump", "drain", "menu", "closing", "resume", "actions", "magnetic",
           "listener"}

TextsOK == texts \in Text /\ debounce \in Text
CaptureOK == configured \in BOOLEAN /\ watching \in BOOLEAN /\ failures \in 0..MaxFailures
DialogsOK ==
    /\ dialog \in [Dialogs -> [session : 0..MaxCommands, window : 0..MaxCommands]]
    /\ sessions \in 0..MaxCommands
    /\ commands \in 0..MaxCommands
NoticesOK ==
    /\ magnetic \in BOOLEAN
    /\ notice \in {"none", "select", "attached"}
    /\ settings \in [active : BOOLEAN, window : BOOLEAN]
InboxOK ==
    /\ actions \in Seq(Action) /\ Len(actions) <= MaxActions
    /\ wake \in BOOLEAN

\* The type invariant in parts.
LEMMA TypeParts ==
  TypeOK <=> /\ FlowOK /\ ui \in Places /\ TextsOK /\ HookFits(hook)
             /\ CaptureOK /\ DialogsOK /\ NoticesOK /\ InboxOK
BY DEF TypeOK, FlowOK, Places, TextsOK, HookFits, HookState, CaptureOK, DialogsOK, NoticesOK,
       InboxOK

\* Every action leads to a place that a handler has.
LEMMA PlacesStep ==
  ASSUME ui \in Places, [Next]_vars
  PROVE  ui' \in Places
<1>1. ASSUME HandleComplete \/ PumpAfterCompletion \/ HookText \/ DrainMerger \/ MergeTimer
               \/ HookAttached \/ HookDetached \/ Overtakes \/ ClipboardChanged
               \/ ClipboardDebounceTimer \/ Dispatch
      PROVE  ui' \in Places
  BY <1>1 DEF HandleComplete, PumpAfterCompletion, HookText, DrainMerger, MergeTimer, HookAttached,
       HookDetached, Overtakes, ClipboardChanged, ClipboardDebounceTimer, Dispatch, Places
<1>2. ASSUME OpenMenu \/ ResumeLast \/ ToggleWatch \/ StopHook \/ OpenSettings
               \/ (\E d \in Dialogs : ActivateDialog(d) \/ OpenDialog(d) \/ CloseDialog(d))
               \/ ToggleMagnetic \/ MagneticTargetSelected \/ NoticeTimer
      PROVE  ui' \in Places
  BY <1>2 DEF OpenMenu, ResumeLast, ToggleWatch, StopHook, OpenSettings, ActivateDialog,
       OpenDialog, CloseDialog, ToggleMagnetic, MagneticTargetSelected, NoticeTimer,
       AfterCommand, ShowFails, Places
<1>3. ASSUME CloseSettings \/ SendCommit \/ SendPreview \/ SettingsClosed \/ DialogClosed
               \/ ApplyDraft \/ SyncMagnetic \/ SyncListener \/ UNCHANGED vars
      PROVE  ui' \in Places
  BY <1>3 DEF CloseSettings, SendCommit, SendPreview, SettingsClosed, DialogClosed, ApplyDraft,
       SyncMagnetic, SyncListener, AfterAction, Places, vars
<1> QED
  BY <1>1, <1>2, <1>3 DEF Next

\* Every action keeps the texts typed, and only a change of the clipboard debounces one.
LEMMA TextsStep ==
  ASSUME FlowOK, Fits, HookFits(hook), TextsOK, [Next]_vars
  PROVE  TextsOK' /\ (debounce' \in {0, debounce} \/ ClipboardChanged)
<1>1. ASSUME HandleComplete \/ PumpAfterCompletion \/ DrainMerger \/ MergeTimer \/ Overtakes
               \/ Dispatch
      PROVE  TextsOK' /\ debounce' = debounce
  BY <1>1 DEF HandleComplete, PumpAfterCompletion, DrainMerger, MergeTimer, Overtakes, Dispatch,
       TextsOK
<1>2. ASSUME HookText \/ ClipboardChanged \/ ClipboardDebounceTimer
      PROVE  TextsOK' /\ (debounce' \in {0, debounce} \/ ClipboardChanged)
  BY <1>2, UiBounds DEF HookText, ClipboardChanged, ClipboardDebounceTimer, ShowUntranslated,
       TextsOK, Text
<1>3. ASSUME \/ HookAttached \/ HookDetached
             \/ OpenMenu \/ ResumeLast \/ ToggleWatch \/ StopHook \/ OpenSettings
             \/ \E d \in Dialogs : ActivateDialog(d) \/ OpenDialog(d) \/ CloseDialog(d)
             \/ ToggleMagnetic \/ MagneticTargetSelected \/ NoticeTimer
             \/ CloseSettings \/ SendCommit \/ SendPreview
             \/ SettingsClosed \/ DialogClosed \/ ApplyDraft \/ SyncMagnetic \/ SyncListener
             \/ UNCHANGED vars
      PROVE  TextsOK' /\ debounce' \in {0, debounce}
  <2>1. debounce' \in {0, debounce}
    BY <1>3, CalmSteps, CalmFits
  <2>2. texts' = texts
    <3>1. HookAttached \/ HookDetached \/ OpenMenu \/ ResumeLast \/ ToggleWatch \/ StopHook
            \/ OpenSettings
            \/ (\E d \in Dialogs : ActivateDialog(d) \/ OpenDialog(d) \/ CloseDialog(d))
          => texts' = texts
      BY DEF HookAttached, HookDetached, OpenMenu, ResumeLast, ToggleWatch, StopHook,
         OpenSettings, ActivateDialog, OpenDialog, CloseDialog
    <3>2. ToggleMagnetic \/ MagneticTargetSelected \/ NoticeTimer \/ CloseSettings
            \/ SendCommit \/ SendPreview
          => texts' = texts
      BY DEF ToggleMagnetic, MagneticTargetSelected, NoticeTimer, CloseSettings, SendCommit,
         SendPreview
    <3>3. SettingsClosed \/ DialogClosed \/ ApplyDraft \/ SyncMagnetic \/ SyncListener
            \/ UNCHANGED vars
          => texts' = texts
      BY DEF SettingsClosed, DialogClosed, ApplyDraft, SyncMagnetic, SyncListener, Process, vars
    <3> QED
      BY <1>3, <3>1, <3>2, <3>3
  <2> QED
    BY <2>1, <2>2, UiBounds DEF TextsOK, Text
<1> QED
  BY <1>1, <1>2, <1>3 DEF Next

\* Steps that emit sentences keep the types and the session.
LEMMA SentencesStep ==
  ASSUME FlowOK, Fits, HookFits(hook), TextsOK,
         HookText \/ PumpAfterCompletion \/ DrainMerger \/ MergeTimer
  PROVE  HookFits(hook') /\ hook'.session = hook.session
<1>1. CASE PumpAfterCompletion \/ DrainMerger \/ MergeTimer
  <2>1. PICK h \in {hook} \union Emissions(hook) : Pump(h)
    BY <1>1 DEF PumpAfterCompletion, DrainMerger, MergeTimer
  <2> QED
    BY <2>1, EmissionsFit, Pumped
<1>2. CASE HookText
  <2>1. PICK h \in {hook} \union Emissions(hook) : Pump([h EXCEPT !.merging = texts + 1])
    BY <1>2 DEF HookText
  <2>2. texts + 1 \in Text
    BY <1>2, UiBounds DEF HookText, TextsOK, Text
  <2>3. HookFits([h EXCEPT !.merging = texts + 1])
        /\ [h EXCEPT !.merging = texts + 1].session = hook.session
    BY <2>1, <2>2, EmissionsFit DEF HookFits, HookState
  <2> QED
    BY <2>1, <2>3, Pumped
<1> QED
  BY <1>1, <1>2

\* Every action keeps the state of the hook typed, and only an attach begins a session.
LEMMA HookStep ==
  ASSUME FlowOK, Fits, HookFits(hook), TextsOK, [Next]_vars
  PROVE  HookFits(hook') /\ (hook'.session => hook.session \/ HookAttached)
<1>1. ASSUME HookText \/ PumpAfterCompletion \/ DrainMerger \/ MergeTimer
      PROVE  HookFits(hook') /\ hook'.session = hook.session
  BY <1>1, SentencesStep
<1>2. ASSUME HookAttached PROVE HookFits(hook')
  <2>1. PICK t \in {hook.timer, TRUE} :
           hook' = [hook EXCEPT !.session = TRUE, !.live = TRUE, !.timer = t,
                                !.attaches = @ + 1]
    BY <1>2 DEF HookAttached
  <2>2. t \in BOOLEAN
    BY <2>1 DEF HookFits, HookState
  <2>3. hook.attaches + 1 \in 0..MaxAttaches
    BY <1>2, UiBounds DEF HookAttached, HookFits, HookState
  <2> QED
    BY <2>1, <2>2, <2>3 DEF HookFits, HookState
<1>3. ASSUME HookDetached \/ StopHook PROVE HookFits(hook') /\ hook'.session = FALSE
  BY <1>3, ClearedFits DEF HookDetached, StopHook, HookFits, HookState
<1>4. ASSUME HandleComplete \/ Overtakes \/ Dispatch \/ ClipboardChanged
               \/ ClipboardDebounceTimer
      PROVE  hook' = hook
  BY <1>4 DEF HandleComplete, Overtakes, Dispatch, ClipboardChanged, ClipboardDebounceTimer
<1>5. ASSUME \/ OpenMenu \/ ResumeLast \/ ToggleWatch \/ OpenSettings
             \/ \E d \in Dialogs : ActivateDialog(d) \/ OpenDialog(d) \/ CloseDialog(d)
             \/ ToggleMagnetic \/ MagneticTargetSelected \/ NoticeTimer
             \/ CloseSettings \/ SendCommit \/ SendPreview
      PROVE  hook' = hook
  BY <1>5 DEF OpenMenu, ResumeLast, ToggleWatch, OpenSettings, ActivateDialog, OpenDialog,
       CloseDialog, ToggleMagnetic, MagneticTargetSelected, NoticeTimer, CloseSettings,
       SendCommit, SendPreview
<1>6. ASSUME SettingsClosed \/ DialogClosed \/ ApplyDraft \/ SyncMagnetic \/ SyncListener
               \/ UNCHANGED vars
      PROVE  hook' = hook
  BY <1>6 DEF SettingsClosed, DialogClosed, ApplyDraft, SyncMagnetic, SyncListener, Process, vars
<1> QED
  BY <1>1, <1>2, <1>3, <1>4, <1>5, <1>6 DEF Next

(* Which steps leave the windows, the notices, and the inbox alone.        *)
LEMMA QuietSteps ==
  ASSUME \/ HandleComplete \/ PumpAfterCompletion \/ HookText \/ DrainMerger \/ MergeTimer
         \/ HookAttached \/ HookDetached \/ Overtakes \/ ClipboardChanged
         \/ ClipboardDebounceTimer \/ OpenMenu \/ ResumeLast \/ Dispatch \/ UNCHANGED vars
  PROVE  UNCHANGED <<pauses, inbox, commands>>
<1>1. HandleComplete \/ PumpAfterCompletion \/ HookText \/ DrainMerger \/ MergeTimer
        \/ HookAttached \/ HookDetached
      => UNCHANGED <<pauses, inbox, commands>>
  BY DEF HandleComplete, PumpAfterCompletion, HookText, DrainMerger, MergeTimer, HookAttached,
     HookDetached
<1>2. Overtakes \/ ClipboardChanged \/ ClipboardDebounceTimer \/ OpenMenu \/ ResumeLast
        \/ Dispatch \/ UNCHANGED vars
      => UNCHANGED <<pauses, inbox, commands>>
  BY DEF Overtakes, ClipboardChanged, ClipboardDebounceTimer, OpenMenu, ResumeLast, Dispatch, vars
<1> QED
  BY <1>1, <1>2

\* Every action keeps the dialogs typed and their sessions counted.
LEMMA DialogsStep ==
  ASSUME DialogsOK, InboxOK, sessions <= commands, [Next]_vars
  PROVE  DialogsOK' /\ sessions' <= commands'
<1> USE UiBounds DEF DialogsOK
<1>1. ASSUME UNCHANGED <<pauses, inbox, commands>> PROVE DialogsOK' /\ sessions' <= commands'
  BY <1>1 DEF pauses
<1>2. ASSUME ToggleWatch \/ StopHook \/ OpenSettings \/ ToggleMagnetic
      PROVE  DialogsOK' /\ sessions' <= commands'
  BY <1>2 DEF ToggleWatch, StopHook, OpenSettings, ToggleMagnetic, Command, pauses
<1>3. ASSUME MagneticTargetSelected \/ NoticeTimer \/ CloseSettings \/ SendCommit \/ SendPreview
      PROVE  DialogsOK' /\ sessions' <= commands'
  BY <1>3 DEF MagneticTargetSelected, NoticeTimer, CloseSettings, SendCommit, SendPreview, pauses
<1>4. ASSUME SettingsClosed \/ ApplyDraft \/ SyncMagnetic \/ SyncListener
      PROVE  DialogsOK' /\ sessions' <= commands'
  BY <1>4 DEF SettingsClosed, ApplyDraft, SyncMagnetic, SyncListener, Process, pauses
<1>5. ASSUME DialogClosed PROVE DialogsOK' /\ sessions' <= commands'
  <2>1. sessions' = sessions /\ commands' = commands
    BY <1>5 DEF DialogClosed, Process
  <2>2. dialog' = dialog \/ dialog' = [dialog EXCEPT ![Head(actions).of].session = 0]
    BY <1>5 DEF DialogClosed
  <2> QED
    BY <2>1, <2>2
<1>6. ASSUME NEW d \in Dialogs, ActivateDialog(d) PROVE DialogsOK' /\ sessions' <= commands'
  <2>1. /\ sessions' = sessions /\ commands' = commands + 1 /\ commands < MaxCommands
        /\ dialog' = [dialog EXCEPT ![d].session = dialog[d].window]
    BY <1>6 DEF ActivateDialog, Command
  <2>2. dialog[d].window \in 0..MaxCommands
    OBVIOUS
  <2> QED
    BY <2>1, <2>2
<1>7. ASSUME NEW d \in Dialogs, OpenDialog(d) PROVE DialogsOK' /\ sessions' <= commands'
  <2>1. /\ sessions' \in {sessions, sessions + 1}
        /\ commands' = commands + 1 /\ commands < MaxCommands
        /\ \/ dialog' = [dialog EXCEPT ![d].session = 0]
           \/ dialog' = [dialog EXCEPT ![d] = [session |-> sessions + 1, window |-> sessions + 1]]
    BY <1>7 DEF OpenDialog, Command
  <2>2. sessions + 1 \in 0..MaxCommands /\ sessions' <= commands' /\ sessions' \in 0..MaxCommands
        /\ commands' \in 0..MaxCommands
    BY <2>1
  <2> QED
    BY <2>1, <2>2
<1>8. ASSUME NEW d \in Dialogs, CloseDialog(d) PROVE DialogsOK' /\ sessions' <= commands'
  <2>1. /\ sessions' = sessions /\ commands' = commands
        /\ dialog' = [dialog EXCEPT ![d].window = 0]
    BY <1>8 DEF CloseDialog
  <2> QED
    BY <2>1
<1> QED
  BY <1>1, <1>2, <1>3, <1>4, <1>5, <1>6, <1>7, <1>8, QuietSteps DEF Next

\* Steps of the magnetic mode keep its types.
LEMMA MagneticTypes ==
  ASSUME NoticesOK,
         \/ \E enabled : SetMagnetic(enabled)
         \/ \E kind \in {"select", "attached"} : ShowNotice(kind)
         \/ ClearNotice /\ magnetic' \in BOOLEAN
  PROVE  magnetic' \in BOOLEAN /\ notice' \in {"none", "select", "attached"}
BY DEF NoticesOK, SetMagnetic, ShowNotice, ClearNotice

\* Every action keeps the notices typed.
LEMMA NoticesStep ==
  ASSUME NoticesOK, [Next]_vars
  PROVE  NoticesOK'
<1>1. ASSUME UNCHANGED <<pauses, inbox, commands>> PROVE NoticesOK'
  BY <1>1 DEF pauses, NoticesOK
<1>2. ASSUME ToggleMagnetic \/ SyncMagnetic PROVE NoticesOK'
  BY <1>2, MagneticTypes DEF ToggleMagnetic, SyncMagnetic, NoticesOK
<1>3. ASSUME MagneticTargetSelected PROVE NoticesOK'
  <2>1. settings' = settings
    BY <1>3 DEF MagneticTargetSelected
  <2>2. magnetic' \in BOOLEAN /\ notice' \in {"none", "select", "attached"}
    BY <1>3, MagneticTypes DEF MagneticTargetSelected, NoticesOK
  <2> QED
    BY <2>1, <2>2 DEF NoticesOK
<1>4. ASSUME NoticeTimer PROVE NoticesOK'
  BY <1>4 DEF NoticeTimer, ClearNotice, NoticesOK
<1>5. ASSUME ToggleWatch \/ StopHook \/ SendCommit \/ SendPreview PROVE NoticesOK'
  BY <1>5 DEF ToggleWatch, StopHook, SendCommit, SendPreview, pauses, NoticesOK
<1>6. ASSUME OpenSettings \/ CloseSettings \/ SettingsClosed PROVE NoticesOK'
  <2>1. magnetic' = magnetic /\ notice' = notice
    BY <1>6 DEF OpenSettings, CloseSettings, SettingsClosed, Process
  <2>2. \/ settings' = [active |-> TRUE, window |-> TRUE]
        \/ settings' = [settings EXCEPT !.active = FALSE]
        \/ settings' = [settings EXCEPT !.window = FALSE]
    BY <1>6 DEF OpenSettings, CloseSettings, SettingsClosed
  <2>3. settings' \in [active : BOOLEAN, window : BOOLEAN]
    <3>1. CASE settings' = [active |-> TRUE, window |-> TRUE]
      BY <3>1
    <3>2. CASE settings' = [settings EXCEPT !.active = FALSE]
      BY <3>2 DEF NoticesOK
    <3>3. CASE settings' = [settings EXCEPT !.window = FALSE]
      BY <3>3 DEF NoticesOK
    <3> QED
      BY <2>2, <3>1, <3>2, <3>3
  <2> QED
    BY <2>1, <2>3 DEF NoticesOK
<1>7. ASSUME ApplyDraft \/ SyncListener \/ DialogClosed PROVE NoticesOK'
  BY <1>7 DEF ApplyDraft, SyncListener, DialogClosed, Process, pauses, NoticesOK
<1>8. ASSUME NEW d \in Dialogs, ActivateDialog(d) \/ OpenDialog(d) \/ CloseDialog(d)
      PROVE  NoticesOK'
  BY <1>8 DEF ActivateDialog, OpenDialog, CloseDialog, NoticesOK
<1> QED
  BY <1>1, <1>2, <1>3, <1>4, <1>5, <1>6, <1>7, <1>8, QuietSteps DEF Next

\* An action that is sent is typed, posted or not.
LEMMA InboxSend ==
  ASSUME InboxOK, NEW a \in Action, Send(a)
  PROVE  InboxOK'
<1>1. actions' \in Seq(Action) /\ Len(actions') <= MaxActions
  BY UiBounds DEF InboxOK, Send
<1>2. wake' \in BOOLEAN
  BY DEF InboxOK, Send
<1> QED
  BY <1>1, <1>2 DEF InboxOK

\* The first action is taken from the queue.
LEMMA InboxProcess ==
  ASSUME InboxOK, NEW kinds, Process(kinds)
  PROVE  /\ InboxOK' /\ Head(actions) \in Action /\ Head(actions) = actions[1]
         /\ actions' = Tail(actions) /\ Len(actions) \in Nat /\ Len(actions) > 0
         /\ Len(actions') = Len(actions) - 1
         /\ \A i \in 1..Len(actions') : actions'[i] = actions[i + 1]
<1>1. actions \in Seq(Action) /\ actions # <<>> /\ actions' = Tail(actions) /\ wake' = FALSE
      /\ Len(actions) <= MaxActions
  BY DEF InboxOK, Process
<1>2. /\ Head(actions) \in Action /\ Head(actions) = actions[1]
      /\ actions' \in Seq(Action) /\ Len(actions) \in Nat /\ Len(actions) > 0
      /\ Len(actions') = Len(actions) - 1
      /\ \A i \in 1..Len(actions') : actions'[i] = actions[i + 1]
  BY <1>1, EmptySeq
<1>3. Len(actions') <= MaxActions
  BY <1>1, <1>2, UiBounds
<1>4. wake' \in BOOLEAN
  BY <1>1
<1> QED
  BY <1>1, <1>2, <1>3, <1>4 DEF InboxOK

\* All of a sequence but its last element.
LEMMA FrontOfSeq ==
  ASSUME NEW S, NEW s \in Seq(S), s # <<>>
  PROVE  /\ Front(s) \in Seq(S) /\ Len(Front(s)) = Len(s) - 1
         /\ \A i \in 1..Len(Front(s)) : Front(s)[i] = s[i]
<1> DEFINE n == Len(s) - 1
<1>1. Len(s) \in Nat /\ n \in Nat /\ \A i \in 1..n : s[i] \in S
  BY EmptySeq
<1>2. /\ SubSeq(s, 1, n) \in Seq(S)
      /\ Len(SubSeq(s, 1, n)) = IF 1 <= n THEN n - 1 + 1 ELSE 0
      /\ \A i \in 1..(n - 1 + 1) : SubSeq(s, 1, n)[i] = s[1 + i - 1]
  BY <1>1, SubSeqProperties
<1>3. Len(SubSeq(s, 1, n)) = n
  <2> HIDE DEF n
  <2>1. n = 0 \/ 1 <= n
    BY <1>1
  <2>2. n - 1 + 1 = n
    BY <1>1
  <2> QED
    BY <1>2, <2>1, <2>2
<1>4. \A i \in 1..n : i \in 1..(n - 1 + 1) /\ 1 + i - 1 = i
  BY <1>1
<1>5. \A i \in 1..n : SubSeq(s, 1, n)[i] = s[i]
  BY <1>2, <1>4
<1> QED
  BY <1>2, <1>3, <1>5 DEF Front

\* What the settings window sends are actions.
LEMMA DraftsAreActions ==
  ASSUME NEW enabled \in BOOLEAN
  PROVE  /\ [kind |-> "preview", watch |-> enabled] \in Action
         /\ [kind |-> "commit", watch |-> enabled] \in Action
BY DEF Action

\* Every action keeps the queue of actions typed.
LEMMA InboxStep ==
  ASSUME InboxOK, DialogsOK, [Next]_vars
  PROVE  InboxOK'
<1>1. ASSUME UNCHANGED <<pauses, inbox, commands>> PROVE InboxOK'
  BY <1>1 DEF inbox, InboxOK
<1>2. ASSUME \/ ToggleWatch \/ StopHook \/ OpenSettings \/ ToggleMagnetic
             \/ MagneticTargetSelected \/ NoticeTimer \/ SyncMagnetic \/ SyncListener
             \/ \E d \in Dialogs : ActivateDialog(d) \/ OpenDialog(d)
      PROVE  InboxOK'
  BY <1>2 DEF ToggleWatch, StopHook, OpenSettings, ToggleMagnetic, MagneticTargetSelected,
       NoticeTimer, SyncMagnetic, SyncListener, ActivateDialog, OpenDialog, inbox, InboxOK
<1>3. ASSUME CloseSettings PROVE InboxOK'
  <2>1. [kind |-> "settings closed"] \in Action
    BY DEF Action
  <2> QED
    BY <1>3, <2>1, InboxSend DEF CloseSettings
<1>4. ASSUME NEW d \in Dialogs, CloseDialog(d) PROVE InboxOK'
  <2>1. dialog[d].window \in 1..MaxCommands
    <3>1. dialog[d].window \in 0..MaxCommands
      BY DEF DialogsOK
    <3>2. dialog[d].window # 0
      BY <1>4 DEF CloseDialog
    <3> QED
      BY <3>1, <3>2, UiBounds
  <2>2. [kind |-> "dialog closed", of |-> d, session |-> dialog[d].window] \in Action
    BY <2>1 DEF Action
  <2> QED
    BY <1>4, <2>2, InboxSend DEF CloseDialog
<1>5. ASSUME SendCommit PROVE InboxOK'
  BY <1>5, DraftsAreActions, InboxSend DEF SendCommit
<1>6. ASSUME SendPreview PROVE InboxOK'
  <2>1. PICK enabled \in BOOLEAN :
          LET preview == [kind |-> "preview", watch |-> enabled] IN
          \/ Send(preview)
          \/ /\ actions # <<>>
             /\ actions' = Append(Front(actions), preview)
             /\ wake' = wake
    BY <1>6 DEF SendPreview
  <2> DEFINE preview == [kind |-> "preview", watch |-> enabled]
  <2>2. preview \in Action
    BY DraftsAreActions
  <2>3. CASE Send(preview)
    BY <2>2, <2>3, InboxSend
  <2>4. CASE actions # <<>> /\ actions' = Append(Front(actions), preview) /\ wake' = wake
    <3>1. /\ actions \in Seq(Action) /\ Len(actions) \in Nat /\ Len(actions) > 0
          /\ Len(actions) <= MaxActions
      BY <2>4, EmptySeq DEF InboxOK
    <3>2. Front(actions) \in Seq(Action) /\ Len(Front(actions)) = Len(actions) - 1
      BY <2>4, <3>1, FrontOfSeq
    <3> HIDE DEF preview
    <3>3. actions' \in Seq(Action) /\ Len(actions') = Len(actions)
      BY <2>2, <2>4, <3>1, <3>2
    <3> QED
      BY <2>4, <3>1, <3>3 DEF InboxOK
  <2> QED
    BY <2>1, <2>3, <2>4
<1>7. ASSUME SettingsClosed \/ DialogClosed \/ ApplyDraft PROVE InboxOK'
  BY <1>7, InboxProcess DEF SettingsClosed, DialogClosed, ApplyDraft
<1> QED
  BY <1>1, <1>2, <1>3, <1>4, <1>5, <1>6, <1>7, QuietSteps DEF Next

\* Pauses and notices keep the capture typed and the failures counted,
LEMMA CaptureTypes ==
  ASSUME CaptureOK,
         \/ PauseSucceeds \/ PauseFails \/ ShowFails \/ Resume \/ ClearNotice
         \/ (\E kind : ShowNotice(kind)) \/ (\E enabled : SetMagnetic(enabled))
         \/ (\E a : Send(a) /\ UNCHANGED capture)
  PROVE  CaptureOK' /\ failures <= failures'
<1>1. Fails => failures <= failures' /\ failures' \in 0..MaxFailures
  BY UiBounds DEF Fails, CaptureOK
<1>2. UNCHANGED failures => failures <= failures' /\ failures' \in 0..MaxFailures
  BY UiBounds DEF CaptureOK
<1>3. PauseSucceeds \/ PauseFails \/ ShowFails => CaptureOK' /\ failures <= failures'
  <2> SUFFICES ASSUME PauseSucceeds \/ PauseFails \/ ShowFails
               PROVE  CaptureOK' /\ failures <= failures'
    OBVIOUS
  <2>1. configured' = configured /\ watching' \in {FALSE, watching}
    BY DEF PauseSucceeds, PauseFails, ShowFails, capture
  <2>2. Fails \/ UNCHANGED failures
    BY DEF PauseSucceeds, PauseFails, ShowFails
  <2>3. configured' \in BOOLEAN /\ watching' \in BOOLEAN
    BY <2>1 DEF CaptureOK
  <2> QED
    BY <1>1, <1>2, <2>2, <2>3 DEF CaptureOK
<1>4. Resume => CaptureOK' /\ failures <= failures'
  <2> SUFFICES ASSUME Resume PROVE CaptureOK' /\ failures <= failures'
    OBVIOUS
  <2>1. configured' \in {FALSE, configured} /\ watching' \in {TRUE, watching}
    BY DEF Resume, capture
  <2>2. Fails \/ UNCHANGED failures
    BY DEF Resume
  <2>3. configured' \in BOOLEAN /\ watching' \in BOOLEAN
    BY <2>1 DEF CaptureOK
  <2> QED
    BY <1>1, <1>2, <2>2, <2>3 DEF CaptureOK
<1>5. UNCHANGED capture /\ (Fails \/ UNCHANGED failures) => CaptureOK' /\ failures <= failures'
  BY <1>1, <1>2 DEF CaptureOK, capture
<1>6. ClearNotice => CaptureOK' /\ failures <= failures'
  BY <1>4, <1>5 DEF ClearNotice
<1>7. (\E kind : ShowNotice(kind)) => CaptureOK' /\ failures <= failures'
  BY <1>3 DEF ShowNotice
<1>8. (\E enabled : SetMagnetic(enabled)) => CaptureOK' /\ failures <= failures'
  BY <1>5, <1>6, <1>7 DEF SetMagnetic, capture
<1>9. (\E a : Send(a) /\ UNCHANGED capture) => CaptureOK' /\ failures <= failures'
  BY <1>5 DEF Send
<1> QED
  BY <1>3, <1>4, <1>6, <1>7, <1>8, <1>9

\* and so does every action.
LEMMA CaptureStep ==
  ASSUME CaptureOK, InboxOK, [Next]_vars
  PROVE  CaptureOK' /\ failures <= failures'
<1>1. ASSUME UNCHANGED <<capture, failures>> PROVE CaptureOK' /\ failures <= failures'
  BY <1>1 DEF capture, CaptureOK
<1>2. HandleComplete \/ PumpAfterCompletion \/ HookText \/ DrainMerger \/ MergeTimer \/ Overtakes
        \/ ClipboardChanged \/ ClipboardDebounceTimer \/ Dispatch \/ UNCHANGED vars
      => UNCHANGED <<capture, failures>>
  BY DEF HandleComplete, PumpAfterCompletion, HookText, DrainMerger, MergeTimer, Overtakes,
     ClipboardChanged, ClipboardDebounceTimer, Dispatch, vars
<1>3. ASSUME HookAttached \/ OpenMenu \/ OpenSettings
               \/ (\E d \in Dialogs : ActivateDialog(d) \/ OpenDialog(d))
      PROVE  CaptureOK' /\ failures <= failures'
  BY <1>3, CaptureTypes DEF HookAttached, OpenMenu, OpenSettings, ActivateDialog, OpenDialog
<1>4. ASSUME HookDetached \/ ResumeLast \/ StopHook \/ SettingsClosed \/ NoticeTimer
      PROVE  CaptureOK' /\ failures <= failures'
  BY <1>4, CaptureTypes DEF HookDetached, ResumeLast, StopHook, SettingsClosed, NoticeTimer
<1>5. ASSUME ToggleMagnetic \/ SyncMagnetic \/ MagneticTargetSelected
      PROVE  CaptureOK' /\ failures <= failures'
  BY <1>5, CaptureTypes DEF ToggleMagnetic, SyncMagnetic, MagneticTargetSelected
<1>6. ASSUME CloseSettings \/ SendCommit \/ SendPreview \/ (\E d \in Dialogs : CloseDialog(d))
      PROVE  CaptureOK' /\ failures <= failures'
  BY <1>1, <1>6, CaptureTypes DEF CloseSettings, SendCommit, SendPreview, CloseDialog
<1>7. ASSUME DialogClosed PROVE CaptureOK' /\ failures <= failures'
  BY <1>1, <1>7, CaptureTypes DEF DialogClosed
<1>8. Fails => failures' = failures + 1 /\ failures' \in 0..MaxFailures
  BY UiBounds DEF Fails, CaptureOK
<1>9. ASSUME ToggleWatch PROVE CaptureOK' /\ failures <= failures'
  <2>1. configured' \in BOOLEAN
    BY <1>9 DEF ToggleWatch, capture, CaptureOK
  <2>2. watching' \in BOOLEAN
    BY <1>9 DEF ToggleWatch, capture, CaptureOK
  <2>3. failures' \in 0..MaxFailures /\ failures <= failures'
    BY <1>8, <1>9 DEF ToggleWatch, CaptureOK
  <2> QED
    BY <2>1, <2>2, <2>3 DEF CaptureOK
<1>10. ASSUME ApplyDraft PROVE CaptureOK' /\ failures <= failures'
  <2>1. Head(actions).kind \in {"preview", "commit"} /\ configured' = Head(actions).watch
        /\ UNCHANGED <<watching, failures>>
    BY <1>10 DEF ApplyDraft, Process
  <2>2. Head(actions) \in Action
    BY <1>10, InboxProcess DEF ApplyDraft
  <2>3. Head(actions).watch \in BOOLEAN
    BY <2>1, <2>2 DEF Action
  <2> QED
    BY <2>1, <2>3 DEF CaptureOK
<1>11. ASSUME SyncListener PROVE CaptureOK' /\ failures <= failures'
  <2>1. configured' \in BOOLEAN
    BY <1>11 DEF SyncListener, PauseSucceeds, capture, CaptureOK
  <2>2. watching' \in BOOLEAN
    BY <1>11 DEF SyncListener, PauseSucceeds, capture, CaptureOK
  <2>3. failures' \in 0..MaxFailures /\ failures <= failures'
    BY <1>8, <1>11 DEF SyncListener, PauseSucceeds, CaptureOK
  <2> QED
    BY <2>1, <2>2, <2>3 DEF CaptureOK
<1> QED
  BY <1>1, <1>2, <1>3, <1>4, <1>5, <1>6, <1>7, <1>9, <1>10, <1>11 DEF Next

\* The types and the fit hold at first,
LEMMA TypeInit == Init => TypeOK /\ Fits
<1> SUFFICES ASSUME Init PROVE TypeOK /\ Fits
  OBVIOUS
<1> USE UiBounds DEF Init
<1>1. D!TypeOK /\ issued = 0
  BY DEF D!Init, D!TypeOK
<1>2. 0 \in Text /\ <<>> \in Seq(Text) /\ Len(<<>>) = 0 /\ <<>> \in Seq(Action)
  BY DEF Text
<1>3. FlowOK
  BY <1>1, <1>2, NoRequestOK DEF FlowOK
<1>4. ui \in Places /\ TextsOK /\ HookFits(hook)
  BY <1>2 DEF Places, TextsOK, HookFits, HookState, NoHook
<1>5. configured \in BOOLEAN /\ watching \in BOOLEAN /\ magnetic \in BOOLEAN /\ wake \in BOOLEAN
  OBVIOUS
<1>6. CaptureOK /\ NoticesOK
  BY <1>5 DEF CaptureOK, NoticesOK
<1>7. DialogsOK
  BY DEF DialogsOK
<1>8. InboxOK
  BY <1>2, <1>5 DEF InboxOK
<1>9. Fits
  BY NoRequestOK DEF Fits
<1> QED
  BY <1>3, <1>4, <1>6, <1>7, <1>8, <1>9, TypeParts

\* and every action keeps them.
LEMMA TypeStep ==
  ASSUME TypeOK, Fits, sessions <= commands, [Next]_vars
  PROVE  TypeOK' /\ Fits' /\ sessions' <= commands'
<1>1. /\ FlowOK /\ ui \in Places /\ TextsOK /\ HookFits(hook)
      /\ CaptureOK /\ DialogsOK /\ NoticesOK /\ InboxOK
  BY TypeParts
<1>2. FlowOK' /\ Fits'
  BY <1>1, FlowStep DEF TextsOK
<1>3. ui' \in Places /\ TextsOK' /\ HookFits(hook')
  BY <1>1, PlacesStep, TextsStep, HookStep
<1>4. CaptureOK' /\ NoticesOK' /\ InboxOK'
  BY <1>1, CaptureStep, NoticesStep, InboxStep
<1>5. DialogsOK' /\ sessions' <= commands'
  BY <1>1, DialogsStep
<1>6. (FlowOK /\ ui \in Places /\ TextsOK /\ HookFits(hook)
         /\ CaptureOK /\ DialogsOK /\ NoticesOK /\ InboxOK => TypeOK)'
  BY TypeParts, PTL
<1> QED
  BY <1>2, <1>3, <1>4, <1>5, <1>6

-----------------------------------------------------------------------------
(* No clipboard text waits into a hook session                             *)

\* No step delays a clipboard text into a hook session.
LEMMA DelayStep ==
  ASSUME TypeOK, Fits, NoneDelayed, [Next]_vars
  PROVE  NoneDelayed'
<1>1. /\ FlowOK /\ TextsOK /\ HookFits(hook) /\ CaptureOK /\ InboxOK
      /\ failures \in 0..MaxFailures
  BY TypeParts DEF CaptureOK
<1>2. /\ failures <= failures' /\ failures' \in 0..MaxFailures
      /\ hook'.session => hook.session \/ HookAttached
      /\ debounce' \in {0, debounce} \/ ClipboardChanged
  BY <1>1, CaptureStep, HookStep, TextsStep DEF CaptureOK
<1>3. failures' = 0 => failures = 0
  BY <1>1, <1>2, UiBounds
<1>4. CASE HookAttached
  <2>1. PauseSucceeds \/ Fails
    BY <1>4 DEF HookAttached, PauseFails
  <2>2. Fails => failures' # 0
    BY <1>1, UiBounds DEF Fails
  <2> QED
    BY <2>1, <2>2 DEF PauseSucceeds, CancelTranslation, NoneDelayed
<1>5. CASE ClipboardChanged
  <2>1. hook' = hook /\ ~Paused
    BY <1>5 DEF ClipboardChanged
  <2>2. ~hook.session
    BY <2>1 DEF Paused, Reasons
  <2> QED
    BY <2>1, <2>2 DEF NoneDelayed
<1>6. CASE ~HookAttached /\ ~ClipboardChanged
  BY <1>2, <1>3, <1>6 DEF NoneDelayed
<1> QED
  BY <1>4, <1>5, <1>6

-----------------------------------------------------------------------------
(* Windows and the ends they report                                        *)

WindowsCounted == \A d \in Dialogs : dialog[d].window <= sessions

(* The end a is not that of a window open now: w of n windows so far.      *)
OldEnd(a, w, n) == a.kind = "dialog closed" => a.session <= n /\ a.session # w[a.of].window

EndsOld == \A i \in 1..Len(actions) : OldEnd(actions[i], dialog, sessions)

OpenPauses ==
    failures = 0 =>
       \A d \in Dialogs : dialog[d].window # 0 => dialog[d].session = dialog[d].window

\* The ends of windows in parts.
LEMMA EndsParts == EndsAreOld <=> sessions <= commands /\ WindowsCounted /\ EndsOld /\ OpenPauses
BY DEF EndsAreOld, WindowsCounted, EndsOld, OldEnd, OpenPauses

\* What is known of a sequence with another element.
LEMMA Appended ==
  ASSUME NEW S, NEW s \in Seq(S), NEW e \in S, NEW r, r = Append(s, e)
  PROVE  /\ Len(s) \in Nat /\ Len(r) = Len(s) + 1 /\ r[Len(s) + 1] = e
         /\ \A i \in 1..Len(s) : r[i] = s[i] /\ s[i] \in S
         /\ \A i \in 1..Len(r) : i \in 1..Len(s) \/ i = Len(s) + 1
OBVIOUS

\* A notice that a window closed names the window and its session.
LEMMA ClosedIsAction ==
  ASSUME NEW a \in Action, a.kind = "dialog closed"
  PROVE  a.of \in Dialogs /\ a.session \in 1..MaxCommands
BY DEF Action

(* An end stays old when windows close and when new ones open.             *)
LEMMA EndStaysOld ==
  ASSUME NEW e \in Action, NEW w, NEW v, NEW n \in Nat, NEW m \in Nat, n <= m,
         OldEnd(e, w, n),
         \A d \in Dialogs : v[d].window \in {0, w[d].window} \/ v[d].window > n
  PROVE  OldEnd(e, v, m)
<1>1. SUFFICES ASSUME e.kind = "dialog closed"
               PROVE  e.session <= m /\ e.session # v[e.of].window
  BY DEF OldEnd
<1>2. e.of \in Dialogs /\ e.session \in 1..MaxCommands
  BY <1>1, ClosedIsAction
<1>3. e.session <= n /\ e.session # w[e.of].window
  BY <1>1 DEF OldEnd
<1>4. v[e.of].window \in {0, w[e.of].window} \/ v[e.of].window > n
  BY <1>2
<1>5. e.session # 0 /\ e.session \in Nat
  BY <1>2, UiBounds
<1> QED
  BY <1>3, <1>4, <1>5

WindowsClose ==
    /\ sessions \in Nat /\ sessions' \in Nat /\ sessions <= sessions'
    /\ \A d \in Dialogs : \/ dialog'[d].window \in {0, dialog[d].window}
                          \/ dialog'[d].window > sessions

\* Sending an action keeps the ends old if it is not an end or is an old one.
LEMMA EndsSent ==
  ASSUME InboxOK, EndsOld, WindowsClose, NEW a \in Action, Send(a), OldEnd(a, dialog', sessions')
  PROVE  EndsOld'
<1>1. actions \in Seq(Action)
  BY DEF InboxOK
<1>2. actions' = Append(actions, a)
  BY DEF Send
<1>3. /\ actions'[Len(actions) + 1] = a
      /\ \A i \in 1..Len(actions) : actions'[i] = actions[i] /\ actions[i] \in Action
      /\ \A i \in 1..Len(actions') : i \in 1..Len(actions) \/ i = Len(actions) + 1
  BY <1>1, <1>2, Appended
<1>4. \A i \in 1..Len(actions) : OldEnd(actions'[i], dialog', sessions')
  BY <1>3, EndStaysOld DEF EndsOld, WindowsClose
<1> QED
  BY <1>3, <1>4 DEF EndsOld

\* Taking an action keeps the ends old,
LEMMA EndsProcessed ==
  ASSUME InboxOK, EndsOld, WindowsClose, NEW kinds, Process(kinds)
  PROVE  EndsOld'
<1>1. /\ Len(actions) \in Nat /\ Len(actions') = Len(actions) - 1
      /\ \A i \in 1..Len(actions') : actions'[i] = actions[i + 1]
      /\ actions \in Seq(Action)
  BY InboxProcess DEF InboxOK
<1>2. \A i \in 1..Len(actions') : i + 1 \in 1..Len(actions) /\ actions[i + 1] \in Action
  BY <1>1
<1>3. \A i \in 1..Len(actions') : OldEnd(actions[i + 1], dialog', sessions')
  BY <1>2, EndStaysOld DEF EndsOld, WindowsClose
<1> QED
  BY <1>1, <1>3 DEF EndsOld

\* and so does leaving the queue alone.
LEMMA EndsKept ==
  ASSUME InboxOK, EndsOld, WindowsClose, actions' = actions
  PROVE  EndsOld'
<1>1. \A i \in 1..Len(actions) : actions[i] \in Action
  BY DEF InboxOK
<1>2. \A i \in 1..Len(actions) : OldEnd(actions[i], dialog', sessions')
  BY <1>1, EndStaysOld DEF EndsOld, WindowsClose
<1> QED
  BY <1>2 DEF EndsOld

\* Every action keeps the ends old.
LEMMA EndsStep ==
  ASSUME TypeOK, EndsAreOld, [Next]_vars, sessions' <= commands'
  PROVE  EndsAreOld'
<1>1. /\ InboxOK /\ DialogsOK /\ CaptureOK /\ sessions \in Nat
      /\ WindowsCounted /\ EndsOld /\ OpenPauses
  BY TypeParts, EndsParts, UiBounds DEF DialogsOK
<1>2. \A d \in Dialogs : dialog[d].window \in 0..MaxCommands
                         /\ dialog[d].session \in 0..MaxCommands
  BY <1>1 DEF DialogsOK
<1>3. failures' = 0 => failures = 0
  BY <1>1, CaptureStep, UiBounds DEF CaptureOK
<1>4. (sessions <= commands /\ WindowsCounted /\ EndsOld /\ OpenPauses => EndsAreOld)'
  BY EndsParts, PTL
<1>5. ASSUME UNCHANGED <<dialog, sessions, actions>> PROVE EndsAreOld'
  <2>1. WindowsClose
    BY <1>1, <1>5 DEF WindowsClose
  <2>2. EndsOld'
    BY <1>1, <1>5, <2>1, EndsKept
  <2>3. WindowsCounted' /\ OpenPauses'
    BY <1>1, <1>3, <1>5 DEF WindowsCounted, OpenPauses
  <2> QED
    BY <1>4, <2>2, <2>3
<1>6. ASSUME NEW a \in Action, Send(a), a.kind # "dialog closed", UNCHANGED <<dialog, sessions>>
      PROVE  EndsAreOld'
  <2>0. UNCHANGED <<dialog, sessions>>
    BY <1>6
  <2>1. WindowsClose
    BY <1>1, <2>0 DEF WindowsClose
  <2>2. OldEnd(a, dialog', sessions')
    BY <1>6 DEF OldEnd
  <2>3. EndsOld'
    BY <1>1, <1>6, <2>1, <2>2, EndsSent
  <2>4. WindowsCounted' /\ OpenPauses'
    BY <1>1, <1>3, <2>0 DEF WindowsCounted, OpenPauses
  <2> QED
    BY <1>4, <2>3, <2>4
<1>7. ASSUME NEW kinds, Process(kinds), UNCHANGED <<dialog, sessions>> PROVE EndsAreOld'
  <2>1. WindowsClose
    BY <1>1, <1>7 DEF WindowsClose
  <2>2. EndsOld'
    BY <1>1, <1>7, <2>1, EndsProcessed
  <2>3. WindowsCounted' /\ OpenPauses'
    BY <1>1, <1>3, <1>7 DEF WindowsCounted, OpenPauses
  <2> QED
    BY <1>4, <2>2, <2>3
<1>8. ASSUME DialogClosed PROVE EndsAreOld'
  <2>1. CASE dialog' = dialog
    BY <1>7, <1>8, <2>1 DEF DialogClosed, Process
  <2>2. CASE dialog' # dialog
    <3> DEFINE a == Head(actions)
    <3>1. /\ Process({"dialog closed"}) /\ sessions' = sessions
          /\ dialog[a.of].session = a.session
          /\ dialog' = [dialog EXCEPT ![a.of].session = 0]
      BY <1>8, <2>2 DEF DialogClosed, IsCurrentSession, Process
    <3>2. a.kind = "dialog closed" /\ a \in Action /\ OldEnd(a, dialog, sessions)
      <4>1. a = actions[1] /\ a \in Action /\ Len(actions) \in Nat /\ Len(actions) > 0
        BY <1>1, <3>1, InboxProcess
      <4>2. a.kind = "dialog closed"
        BY <3>1 DEF Process
      <4>3. 1 \in 1..Len(actions)
        BY <4>1
      <4> QED
        BY <1>1, <4>1, <4>2, <4>3 DEF EndsOld
    <3>3. a.of \in Dialogs /\ a.session # dialog[a.of].window
      BY <3>2, ClosedIsAction DEF OldEnd
    <3> HIDE DEF a
    <3>4. /\ \A d \in Dialogs : dialog'[d].window = dialog[d].window
          /\ \A d \in Dialogs : d # a.of => dialog'[d].session = dialog[d].session
      BY <1>1, <3>1, <3>3 DEF DialogsOK
    <3>5. WindowsClose
      <4>1. sessions' = sessions
        BY <3>1
      <4> QED
        BY <1>1, <3>4, <4>1 DEF WindowsClose
    <3>6. EndsOld'
      BY <1>1, <3>1, <3>5, EndsProcessed
    <3>7. WindowsCounted'
      BY <1>1, <3>1, <3>4 DEF WindowsCounted
    <3>8. OpenPauses'
      BY <1>1, <1>3, <3>1, <3>3, <3>4 DEF OpenPauses
    <3> QED
      BY <1>4, <3>6, <3>7, <3>8
  <2> QED
    BY <2>1, <2>2
<1>9. ASSUME NEW d \in Dialogs, CloseDialog(d) PROVE EndsAreOld'
  <2> DEFINE a == [kind |-> "dialog closed", of |-> d, session |-> dialog[d].window]
  <2>1. /\ dialog[d].window # 0 /\ sessions' = sessions /\ Send(a)
        /\ dialog' = [dialog EXCEPT ![d].window = 0]
    BY <1>9 DEF CloseDialog
  <2>2. dialog[d].window \in 1..MaxCommands /\ dialog[d].window <= sessions
    <3>1. dialog[d].window \in 0..MaxCommands /\ dialog[d].window <= sessions
      BY <1>1, <1>2 DEF WindowsCounted
    <3>2. dialog[d].window # 0
      BY <2>1
    <3> QED
      BY <3>1, <3>2, UiBounds
  <2>3. /\ \A c \in Dialogs : dialog'[c].window \in {0, dialog[c].window}
        /\ \A c \in Dialogs : dialog'[c].session = dialog[c].session
        /\ dialog'[d].window = 0
    BY <1>1, <2>1 DEF DialogsOK
  <2>4. a \in Action
    BY <2>2 DEF Action
  <2>5. OldEnd(a, dialog', sessions')
    BY <2>1, <2>2, <2>3 DEF OldEnd
  <2> HIDE DEF a
  <2>6. WindowsClose
    BY <1>1, <2>1, <2>3 DEF WindowsClose
  <2>7. EndsOld'
    BY <1>1, <2>1, <2>4, <2>5, <2>6, EndsSent
  <2>8. WindowsCounted'
    BY <1>1, <2>1, <2>3 DEF WindowsCounted
  <2>9. OpenPauses'
    BY <1>1, <1>3, <2>3 DEF OpenPauses
  <2> QED
    BY <1>4, <2>7, <2>8, <2>9
<1>10. ASSUME NEW d \in Dialogs, ActivateDialog(d) PROVE EndsAreOld'
  <2>1. /\ sessions' = sessions /\ actions' = actions
        /\ dialog' = [dialog EXCEPT ![d].session = dialog[d].window]
    BY <1>10 DEF ActivateDialog, inbox
  <2>2. /\ \A c \in Dialogs : dialog'[c].window = dialog[c].window
        /\ \A c \in Dialogs : c # d => dialog'[c].session = dialog[c].session
        /\ dialog'[d].session = dialog[d].window
    BY <1>1, <2>1 DEF DialogsOK
  <2>3. WindowsClose
    BY <1>1, <2>1, <2>2 DEF WindowsClose
  <2>4. EndsOld'
    BY <1>1, <2>1, <2>3, EndsKept
  <2>5. WindowsCounted'
    BY <1>1, <2>1, <2>2 DEF WindowsCounted
  <2>6. OpenPauses'
    BY <1>1, <1>3, <2>2 DEF OpenPauses
  <2> QED
    BY <1>4, <2>4, <2>5, <2>6
<1>11. ASSUME NEW d \in Dialogs, OpenDialog(d) PROVE EndsAreOld'
  <2>1. actions' = actions /\ dialog[d].window = 0
    BY <1>11 DEF OpenDialog, inbox
  <2>2. CASE /\ dialog' = [dialog EXCEPT ![d].session = 0]
             /\ sessions' \in {sessions, sessions + 1}
             /\ failures' # 0
    <3>1. \A c \in Dialogs : dialog'[c].window = dialog[c].window
      BY <1>1, <2>2 DEF DialogsOK
    <3>2. WindowsClose
      BY <1>1, <2>2, <3>1 DEF WindowsClose
    <3>3. EndsOld'
      BY <1>1, <2>1, <3>2, EndsKept
    <3>4. WindowsCounted'
      BY <1>1, <1>2, <2>2, <3>1, UiBounds DEF WindowsCounted
    <3>5. OpenPauses'
      BY <2>2 DEF OpenPauses
    <3> QED
      BY <1>4, <3>3, <3>4, <3>5
  <2>3. CASE /\ dialog' = [dialog EXCEPT ![d] = [session |-> sessions + 1, window |-> sessions + 1]]
             /\ sessions' = sessions + 1
    <3>1. /\ \A c \in Dialogs : c # d => dialog'[c] = dialog[c]
          /\ dialog'[d].session = sessions + 1 /\ dialog'[d].window = sessions + 1
      BY <1>1, <2>3 DEF DialogsOK
    <3>2. WindowsClose
      BY <1>1, <2>3, <3>1 DEF WindowsClose
    <3>3. EndsOld'
      BY <1>1, <2>1, <3>2, EndsKept
    <3>4. WindowsCounted'
      BY <1>1, <1>2, <2>3, <3>1, UiBounds DEF WindowsCounted
    <3>5. OpenPauses'
      BY <1>1, <1>3, <3>1 DEF OpenPauses
    <3> QED
      BY <1>4, <3>3, <3>4, <3>5
  <2>4. Fails => failures' # 0
    BY <1>1, UiBounds DEF Fails, CaptureOK
  <2> QED
    BY <1>11, <2>2, <2>3, <2>4 DEF OpenDialog, PauseFails, ShowFails
<1>12. ASSUME CloseSettings \/ SendCommit PROVE EndsAreOld'
  <2>1. \E a \in Action : Send(a) /\ a.kind # "dialog closed"
    <3>1. CASE CloseSettings
      <4>1. [kind |-> "settings closed"] \in Action
        BY DEF Action
      <4> QED
        BY <3>1, <4>1 DEF CloseSettings
    <3>2. CASE SendCommit
      BY <3>2, DraftsAreActions DEF SendCommit
    <3> QED
      BY <1>12, <3>1, <3>2
  <2>2. UNCHANGED <<dialog, sessions>>
    BY <1>12 DEF CloseSettings, SendCommit, pauses
  <2> QED
    BY <1>6, <2>1, <2>2
<1>13. ASSUME SendPreview PROVE EndsAreOld'
  <2>1. UNCHANGED <<dialog, sessions>>
    BY <1>13 DEF SendPreview, pauses
  <2>2. PICK enabled \in BOOLEAN :
          \/ Send([kind |-> "preview", watch |-> enabled])
          \/ /\ actions # <<>>
             /\ actions' = Append(Front(actions), [kind |-> "preview", watch |-> enabled])
    BY <1>13 DEF SendPreview
  <2> DEFINE a == [kind |-> "preview", watch |-> enabled]
  <2>3. a \in Action
    BY DraftsAreActions
  <2>4. a.kind # "dialog closed"
    OBVIOUS
  <2> HIDE DEF a
  <2>5. CASE Send(a)
    BY <1>6, <2>1, <2>3, <2>4, <2>5
  <2>6. CASE actions # <<>> /\ actions' = Append(Front(actions), a)
    <3>1. /\ actions \in Seq(Action) /\ Len(actions) \in Nat
          /\ Front(actions) \in Seq(Action) /\ Len(Front(actions)) = Len(actions) - 1
          /\ \A i \in 1..Len(Front(actions)) : Front(actions)[i] = actions[i]
      BY <1>1, <2>6, FrontOfSeq DEF InboxOK
    <3> DEFINE f == Front(actions)
    <3> HIDE DEF f
    <3>2. /\ f \in Seq(Action) /\ actions' = Append(f, a)
          /\ \A i \in 1..Len(f) : i \in 1..Len(actions) /\ f[i] = actions[i]
      BY <2>6, <3>1 DEF f
    <3>3. /\ actions'[Len(f) + 1] = a
          /\ \A i \in 1..Len(f) : actions'[i] = f[i]
          /\ \A i \in 1..Len(actions') : i \in 1..Len(f) \/ i = Len(f) + 1
      BY <2>3, <3>2, Appended
    <3>4. \A i \in 1..Len(f) : OldEnd(actions'[i], dialog', sessions')
      BY <1>1, <2>1, <3>2, <3>3 DEF EndsOld
    <3>5. EndsOld'
      BY <2>4, <3>3, <3>4 DEF EndsOld, OldEnd
    <3>6. WindowsCounted' /\ OpenPauses'
      BY <1>1, <1>3, <2>1 DEF WindowsCounted, OpenPauses
    <3> QED
      BY <1>4, <3>5, <3>6
  <2> QED
    BY <2>2, <2>5, <2>6 DEF a
<1>14. ASSUME SettingsClosed \/ ApplyDraft PROVE EndsAreOld'
  BY <1>7, <1>14 DEF SettingsClosed, ApplyDraft, Process
<1>15. ToggleWatch \/ StopHook \/ OpenSettings \/ ToggleMagnetic \/ MagneticTargetSelected
         \/ NoticeTimer \/ SyncMagnetic \/ SyncListener
       => UNCHANGED <<dialog, sessions, actions>>
  BY DEF ToggleWatch, StopHook, OpenSettings, ToggleMagnetic, MagneticTargetSelected,
     NoticeTimer, SyncMagnetic, SyncListener, pauses, inbox
<1>16. UNCHANGED <<pauses, inbox, commands>> => UNCHANGED <<dialog, sessions, actions>>
  BY DEF pauses, inbox
<1> QED
  BY <1>5, <1>8, <1>9, <1>10, <1>11, <1>12, <1>13, <1>14, <1>15, <1>16, QuietSteps DEF Next

-----------------------------------------------------------------------------
(* The listener and what pauses it                                         *)

Line ==
    /\ configured /\ ~Paused => watching
    /\ failures = 0 /\ watching => configured /\ ~Paused

DialogPauses == \E d \in Dialogs : dialog[d].session # 0
InMenu == ui \in {"menu", "closing"}

\* The reasons of a pause, before a step
LEMMA PausedIs ==
  Paused <=> DialogPauses \/ settings.active \/ InMenu \/ notice # "none" \/ hook.session
BY DEF Paused, Reasons, DialogPauses, InMenu

\* and after it.
LEMMA PausedIsNext ==
  Paused' <=> DialogPauses' \/ settings'.active \/ InMenu' \/ notice' # "none" \/ hook'.session
<1>1. (Paused <=> DialogPauses \/ settings.active \/ InMenu \/ notice # "none" \/ hook.session)'
  BY PausedIs, PTL
<1> QED
  BY <1>1

(* Nothing that pauses the capture starts or ends.                         *)
Unpaused ==
    /\ DialogPauses' <=> DialogPauses
    /\ settings'.active = settings.active /\ notice' = notice
    /\ hook'.session = hook.session
    /\ InMenu' <=> InMenu

\* A step that changes no reason changes no pause.
LEMMA SamePauses == Unpaused => (Paused' <=> Paused)
BY PausedIs, PausedIsNext DEF Unpaused

\* Dialogs that are left alone pause what they paused.
LEMMA SameDialogs == dialog' = dialog => (DialogPauses' <=> DialogPauses)
BY DEF DialogPauses

\* A failure is counted.
LEMMA FailsCounts == ASSUME CaptureOK, Fails PROVE failures' # 0
BY UiBounds DEF CaptureOK, Fails

(* A pause that succeeds for a reason, or one that fails.                  *)
LEMMA PauseLines ==
  ASSUME CaptureOK, Line, PauseSucceeds \/ PauseFails, Paused' \/ PauseFails
  PROVE  Line'
<1>1. CASE PauseFails
  BY <1>1, FailsCounts DEF PauseFails, capture, Line
<1>2. CASE PauseSucceeds /\ Paused'
  BY <1>2 DEF PauseSucceeds, Line
<1> QED
  BY <1>1, <1>2

\* A resume brings the listener in line if no reason is new.
LEMMA ResumeLines ==
  ASSUME CaptureOK, Resume, failures > 0 \/ (Line /\ (Paused' => Paused))
  PROVE  Line'
<1>1. CASE (Paused' \/ ~configured \/ watching) /\ UNCHANGED <<capture, failures>>
  <2>1. configured' /\ ~Paused' => watching'
    BY <1>1 DEF capture
  <2>2. failures' = 0 /\ watching' => configured' /\ ~Paused'
    BY <1>1 DEF Line, capture, CaptureOK
  <2> QED
    BY <2>1, <2>2 DEF Line
<1>2. CASE ~(Paused' \/ ~configured \/ watching) /\ watching' = TRUE /\ UNCHANGED configured
  BY <1>2 DEF Line
<1>3. CASE Fails /\ configured' = FALSE
  BY <1>3, FailsCounts DEF Line
<1> QED
  BY <1>1, <1>2, <1>3 DEF Resume

(* Nothing about the capture changes, or the listener could not be told.   *)
LEMMA SameLine ==
  ASSUME CaptureOK, Line, UNCHANGED capture, Paused' <=> Paused, UNCHANGED failures \/ Fails
  PROVE  Line'
BY FailsCounts DEF Line, capture

\* The end of a notice resumes or leaves other reasons.
LEMMA ClearNoticeLines ==
  ASSUME CaptureOK, Line, ClearNotice,
         UNCHANGED <<dialog, settings, hook>>, InMenu' <=> InMenu
  PROVE  Line'
<1>1. DialogPauses' <=> DialogPauses
  BY SameDialogs
<1>2. Paused' => Paused
  BY <1>1, PausedIs, PausedIsNext DEF ClearNotice
<1>3. CASE notice = "none"
  <2>1. Paused' <=> Paused
    BY <1>1, <1>3, SamePauses DEF ClearNotice, Unpaused
  <2> QED
    BY <1>3, <2>1, SameLine DEF ClearNotice
<1>4. CASE notice # "none"
  BY <1>2, <1>4, ResumeLines DEF ClearNotice
<1> QED
  BY <1>3, <1>4

\* A notice pauses.
LEMMA ShowNoticeLines ==
  ASSUME CaptureOK, Line, NEW kind \in {"select", "attached"}, ShowNotice(kind)
  PROVE  Line'
<1>1. CASE notice' = kind /\ PauseSucceeds
  BY <1>1, PauseLines, PausedIsNext
<1>2. CASE PauseFails
  BY <1>2, PauseLines
<1> QED
  BY <1>1, <1>2 DEF ShowNotice

\* The switch of the magnetic mode pauses or resumes with its notice.
LEMMA MagneticLines ==
  ASSUME CaptureOK, Line, NEW enabled, SetMagnetic(enabled),
         UNCHANGED <<dialog, settings, hook>>, InMenu' <=> InMenu
  PROVE  Line'
<1>1. CASE UNCHANGED <<notice, capture>> /\ (UNCHANGED failures \/ Fails)
  BY <1>1, SameDialogs, SamePauses, SameLine DEF Unpaused
<1>2. CASE ShowNotice("select")
  BY <1>2, ShowNoticeLines
<1>3. CASE ClearNotice
  BY <1>3, ClearNoticeLines
<1> QED
  BY <1>1, <1>2, <1>3 DEF SetMagnetic

Between == ui \notin {"resume", "magnetic", "listener"}

\* The listener is in line, in parts, before a step
LEMMA InLineParts == InLine <=> (Between => Line) /\ (ui = "resume" => failures > 0)
BY DEF InLine, Line, Between

\* and after it.
LEMMA InLineNext == (Between' => Line') /\ (ui' = "resume" => failures' > 0) => InLine'
<1>1. (InLine <=> (Between => Line) /\ (ui = "resume" => failures > 0))'
  BY InLineParts, PTL
<1> QED
  BY <1>1

(* Steps that touch nothing the capture depends on.                        *)
LEMMA StillInLine ==
  ASSUME TypeOK, InLine, ui' # "resume", Between' => Between,
         Unpaused, UNCHANGED capture, UNCHANGED failures \/ Fails
  PROVE  InLine'
<1>1. CaptureOK /\ (Between => Line)
  BY TypeParts, InLineParts
<1>2. Paused' <=> Paused
  BY SamePauses
<1> QED
  BY <1>1, <1>2, SameLine, InLineNext

\* Texts, answers and their timers leave the listener in line.
LEMMA HandlersInLine ==
  ASSUME TypeOK, Fits, InLine,
         \/ HandleComplete \/ PumpAfterCompletion \/ HookText \/ DrainMerger \/ MergeTimer
         \/ Overtakes \/ ClipboardChanged \/ ClipboardDebounceTimer \/ Dispatch
         \/ CloseSettings \/ SendCommit \/ SendPreview \/ (\E d \in Dialogs : CloseDialog(d))
         \/ UNCHANGED vars
  PROVE  InLine'
<1>1. /\ FlowOK /\ HookFits(hook) /\ TextsOK
      /\ dialog \in [Dialogs -> [session : 0..MaxCommands, window : 0..MaxCommands]]
      /\ settings \in [active : BOOLEAN, window : BOOLEAN]
  BY TypeParts DEF DialogsOK, NoticesOK
<1>2. CASE HookText \/ PumpAfterCompletion \/ DrainMerger \/ MergeTimer
  <2>1. hook'.session = hook.session
    BY <1>1, <1>2, SentencesStep
  <2>2. UNCHANGED <<capture, pauses, failures>> /\ ui \in {"idle", "drain", "pump"}
        /\ ui' \in {"idle", "drain"}
    BY <1>2 DEF HookText, PumpAfterCompletion, DrainMerger, MergeTimer
  <2>3. Unpaused
    BY <2>1, <2>2, SameDialogs DEF Unpaused, pauses, InMenu
  <2> QED
    BY <2>2, <2>3, StillInLine DEF Between
<1>3. CASE HandleComplete \/ Overtakes \/ ClipboardChanged \/ ClipboardDebounceTimer \/ Dispatch
             \/ UNCHANGED vars
  <2>1. UNCHANGED <<capture, pauses, failures, hook>>
    BY <1>3 DEF HandleComplete, Overtakes, ClipboardChanged, ClipboardDebounceTimer, Dispatch, vars
  <2>2. ui' = ui \/ (ui = "idle" /\ ui' = "pump")
    BY <1>3 DEF HandleComplete, Overtakes, ClipboardChanged, ClipboardDebounceTimer, Dispatch, vars
  <2>3. Unpaused
    BY <2>1, <2>2, SameDialogs DEF Unpaused, pauses, InMenu
  <2>4. CASE ui' # "resume"
    BY <2>1, <2>2, <2>3, <2>4, StillInLine DEF Between
  <2>5. CASE ui' = "resume"
    BY <2>1, <2>2, <2>5, InLineParts, InLineNext DEF Between
  <2> QED
    BY <2>4, <2>5
<1>4. CASE SendCommit \/ SendPreview
  <2>1. UNCHANGED <<capture, pauses, hook, ui>> /\ (UNCHANGED failures \/ Fails) /\ ui = "idle"
    BY <1>4 DEF SendCommit, SendPreview, Send
  <2>2. Unpaused
    BY <2>1, SameDialogs DEF Unpaused, pauses, InMenu
  <2> QED
    BY <2>1, <2>2, StillInLine DEF Between
<1>5. CASE CloseSettings
  <2>1. UNCHANGED <<capture, notice, dialog, hook, ui>> /\ (UNCHANGED failures \/ Fails) /\ ui = "idle"
        /\ settings' = [settings EXCEPT !.window = FALSE]
    BY <1>5 DEF CloseSettings, Send
  <2>2. settings'.active = settings.active
    BY <1>1, <2>1
  <2>3. Unpaused
    BY <2>1, <2>2, SameDialogs DEF Unpaused, InMenu
  <2> QED
    BY <2>1, <2>3, StillInLine DEF Between
<1>6. CASE \E d \in Dialogs : CloseDialog(d)
  <2>1. PICK d \in Dialogs : CloseDialog(d)
    BY <1>6
  <2>2. /\ UNCHANGED <<capture, notice, settings, hook, ui>> /\ (UNCHANGED failures \/ Fails)
        /\ ui = "idle" /\ dialog' = [dialog EXCEPT ![d].window = 0]
    BY <2>1 DEF CloseDialog, Send
  <2>3. \A c \in Dialogs : dialog'[c].session = dialog[c].session
    BY <1>1, <2>2
  <2>4. Unpaused
    BY <2>2, <2>3 DEF Unpaused, InMenu, DialogPauses
  <2> QED
    BY <2>2, <2>4, StillInLine DEF Between
<1> QED
  BY <1>2, <1>3, <1>4, <1>5, <1>6

\* What pauses leaves it in line,
LEMMA PausesInLine ==
  ASSUME TypeOK, InLine,
         \/ HookAttached \/ OpenMenu \/ OpenSettings
         \/ \E d \in Dialogs : ActivateDialog(d) \/ OpenDialog(d)
  PROVE  InLine'
<1>1. CaptureOK /\ DialogsOK /\ HookFits(hook) /\ (Between => Line)
  BY TypeParts, InLineParts
<1>2. ASSUME Between, Between', PauseSucceeds \/ PauseFails, Paused' \/ PauseFails PROVE InLine'
  BY <1>1, <1>2, PauseLines, InLineNext DEF Between
<1>3. ASSUME ShowFails PROVE InLine'
  <2>1. failures' # 0 /\ failures' \in Nat
    BY <1>1, <1>3, UiBounds DEF ShowFails, Fails, CaptureOK
  <2>2. ui' = "closing" => Line'
    BY <1>3, <2>1, PausedIsNext DEF ShowFails, Line, InMenu
  <2>3. ui' \in {"closing", "resume"}
    BY <1>3 DEF ShowFails
  <2> QED
    BY <2>1, <2>2, <2>3, InLineNext DEF Between
<1>4. ui \in {"idle", "menu"} => Between /\ AfterCommand \in {"idle", "closing"}
  BY DEF Between, AfterCommand
<1>5. CASE HookAttached
  <2>1. hook'.session
    BY <1>1, <1>5 DEF HookAttached, HookFits, HookState
  <2>2. Paused' /\ ui = "idle" /\ ui' = "idle"
    BY <1>5, <2>1, PausedIsNext DEF HookAttached
  <2> QED
    BY <1>2, <1>5, <2>2 DEF HookAttached, Between
<1>6. CASE OpenMenu
  <2>1. CASE ui' = "menu" /\ PauseSucceeds
    BY <1>2, <1>6, <2>1, PausedIsNext DEF OpenMenu, Between, InMenu
  <2>2. CASE ui' = "idle" /\ PauseFails
    BY <1>2, <1>6, <2>2 DEF OpenMenu, Between
  <2> QED
    BY <1>6, <2>1, <2>2 DEF OpenMenu
<1>7. CASE OpenSettings
  <2>1. ui \in {"idle", "menu"}
    BY <1>7 DEF OpenSettings, Command
  <2>2. CASE settings' = [active |-> TRUE, window |-> TRUE] /\ PauseSucceeds /\ ui' = AfterCommand
    <3>1. Paused'
      BY <2>2, PausedIsNext
    <3> QED
      BY <1>2, <1>4, <2>1, <2>2, <3>1 DEF Between
  <2>3. CASE PauseFails /\ ui' = AfterCommand
    BY <1>2, <1>4, <2>1, <2>3 DEF Between
  <2> QED
    BY <1>3, <1>7, <2>2, <2>3 DEF OpenSettings
<1>8. ASSUME NEW d \in Dialogs, ActivateDialog(d) PROVE InLine'
  <2>1. ui \in {"idle", "menu"} /\ ui' = AfterCommand /\ dialog[d].window # 0
        /\ dialog' = [dialog EXCEPT ![d].session = dialog[d].window]
    BY <1>8 DEF ActivateDialog, Command
  <2>2. dialog'[d].session # 0
    BY <1>1, <2>1 DEF DialogsOK
  <2>3. Paused'
    BY <2>2, PausedIsNext DEF DialogPauses
  <2> QED
    BY <1>2, <1>4, <1>8, <2>1, <2>3 DEF ActivateDialog, Between
<1>9. ASSUME NEW d \in Dialogs, OpenDialog(d) PROVE InLine'
  <2>1. ui \in {"idle", "menu"}
    BY <1>9 DEF OpenDialog, Command
  <2>2. CASE PauseFails /\ ui' = AfterCommand
    BY <1>2, <1>4, <2>1, <2>2 DEF Between
  <2>3. CASE /\ dialog' = [dialog EXCEPT ![d] = [session |-> sessions + 1, window |-> sessions + 1]]
             /\ PauseSucceeds
             /\ ui' = AfterCommand
    <3>1. dialog'[d].session = sessions + 1 /\ sessions + 1 # 0
      BY <1>1, <2>3, UiBounds DEF DialogsOK
    <3>2. Paused'
      BY <3>1, PausedIsNext DEF DialogPauses
    <3> QED
      BY <1>2, <1>4, <2>1, <2>3, <3>2 DEF Between
  <2> QED
    BY <1>3, <1>9, <2>2, <2>3 DEF OpenDialog
<1> QED
  BY <1>5, <1>6, <1>7, <1>8, <1>9

\* what resumes leaves it in line,
LEMMA ResumesInLine ==
  ASSUME TypeOK, InLine,
         HookDetached \/ ResumeLast \/ StopHook \/ SettingsClosed \/ DialogClosed
  PROVE  InLine'
<1>1. /\ CaptureOK /\ DialogsOK /\ NoticesOK /\ HookFits(hook)
      /\ (Between => Line) /\ (ui = "resume" => failures > 0)
  BY TypeParts, InLineParts
<1>2. ASSUME Between, Between', Resume, Paused' => Paused PROVE InLine'
  BY <1>1, <1>2, ResumeLines, InLineNext DEF Between
<1>3. ui \in {"idle", "menu"} => Between /\ AfterCommand \in {"idle", "closing"} /\ (AfterCommand = "closing" <=> ui = "menu")
  BY DEF Between, AfterCommand
<1>4. AfterAction \in {"idle", "actions"}
  BY DEF AfterAction
<1>5. CASE HookDetached
  <2>1. UNCHANGED pauses /\ ui = "idle" /\ ui' = "idle" /\ Resume
    BY <1>5 DEF HookDetached
  <2>2. ~hook'.session
    BY <1>1, <1>5 DEF HookDetached, ClearHookPending, HookFits, HookState
  <2>3. Paused' => Paused
    BY <2>1, <2>2, PausedIs, PausedIsNext, SameDialogs DEF pauses, InMenu
  <2> QED
    BY <1>2, <2>1, <2>3 DEF Between
<1>6. CASE StopHook
  <2>1. ui \in {"idle", "menu"} /\ ui' = AfterCommand /\ Resume /\ hook.session
    BY <1>6 DEF StopHook, Command
  <2>2. Paused
    BY <2>1, PausedIs
  <2> QED
    BY <1>2, <1>3, <2>1, <2>2 DEF Between
<1>7. CASE ResumeLast
  <2>1. UNCHANGED <<pauses, hook>> /\ ui \in {"menu", "closing", "resume"} /\ ui' = "idle" /\ Resume
    BY <1>7 DEF ResumeLast
  <2>2. CASE ui = "resume"
    <3>1. Line'
      BY <1>1, <2>1, <2>2, ResumeLines
    <3> QED
      BY <2>1, <3>1, InLineNext
  <2>3. CASE ui \in {"menu", "closing"}
    <3>1. Paused
      BY <2>3, PausedIs DEF InMenu
    <3> QED
      BY <1>2, <2>1, <2>3, <3>1 DEF Between
  <2> QED
    BY <2>1, <2>2, <2>3
<1>8. CASE SettingsClosed
  <2>1. /\ UNCHANGED <<hook, notice, dialog>> /\ ui \in {"idle", "actions"} /\ ui' = AfterAction
        /\ Resume /\ settings' = [settings EXCEPT !.active = FALSE]
    BY <1>8 DEF SettingsClosed, Process
  <2>2. ~settings'.active
    BY <1>1, <2>1 DEF NoticesOK
  <2>3. Paused' => Paused
    BY <1>4, <2>1, <2>2, PausedIs, PausedIsNext, SameDialogs DEF InMenu
  <2> QED
    BY <1>2, <1>4, <2>1, <2>3 DEF Between
<1>9. CASE DialogClosed
  <2>1. /\ UNCHANGED <<hook, notice, settings>> /\ ui \in {"idle", "actions"} /\ ui' = AfterAction
    BY <1>9 DEF DialogClosed, Process
  <2>2. CASE UNCHANGED <<dialog, capture, failures>>
    <3>1. Unpaused
      BY <1>4, <2>1, <2>2, SameDialogs DEF Unpaused, InMenu
    <3> QED
      BY <1>4, <2>1, <2>2, <3>1, StillInLine DEF Between
  <2>3. CASE dialog' = [dialog EXCEPT ![Head(actions).of].session = 0] /\ Resume
    <3>1. DialogPauses' => DialogPauses
      <4>1. SUFFICES ASSUME NEW d \in Dialogs, dialog'[d].session # 0
                     PROVE  dialog[d].session # 0
        BY DEF DialogPauses
      <4> DEFINE of == Head(actions).of
      <4> HIDE DEF of
      <4>2. dialog' = [dialog EXCEPT ![of].session = 0]
        BY <2>3 DEF of
      <4>3. dialog'[d].session \in {0, dialog[d].session}
        BY <1>1, <4>2 DEF DialogsOK
      <4> QED
        BY <4>1, <4>3
    <3>2. Paused' => Paused
      BY <1>4, <2>1, <3>1, PausedIs, PausedIsNext DEF InMenu
    <3> QED
      BY <1>2, <1>4, <2>1, <2>3, <3>2 DEF Between
  <2> QED
    BY <1>9, <2>2, <2>3 DEF DialogClosed
<1> QED
  BY <1>5, <1>6, <1>7, <1>8, <1>9

\* and so do the switches.
LEMMA SwitchesInLine ==
  ASSUME TypeOK, InLine,
         \/ ToggleWatch \/ ToggleMagnetic \/ MagneticTargetSelected \/ NoticeTimer
         \/ ApplyDraft \/ SyncMagnetic \/ SyncListener
  PROVE  InLine'
<1>1. CaptureOK /\ (Between => Line)
  BY TypeParts, InLineParts
<1>2. ui \in {"idle", "menu"} =>
        /\ Between /\ AfterCommand \in {"idle", "closing"}
        /\ AfterCommand = "closing" <=> ui = "menu"
  BY DEF Between, AfterCommand
<1>3. AfterAction \in {"idle", "actions"}
  BY DEF AfterAction
<1>4. CASE ToggleWatch
  <2>1. /\ ui \in {"idle", "menu"} /\ ui' = AfterCommand /\ UNCHANGED <<pauses, hook>>
    BY <1>4 DEF ToggleWatch, Command
  <2>2. Unpaused
    BY <1>2, <2>1, SameDialogs DEF Unpaused, pauses, InMenu
  <2>3. Paused' <=> Paused
    BY <2>2, SamePauses
  <2>4. CASE configured' = ~configured /\ watching' = (~configured /\ ~Paused)
    <3>1. Line'
      BY <2>3, <2>4 DEF Line
    <3> QED
      BY <1>2, <2>1, <3>1, InLineNext
  <2>5. CASE Fails /\ UNCHANGED capture
    BY <1>1, <1>2, <2>1, <2>2, <2>5, StillInLine DEF Between
  <2> QED
    BY <1>4, <2>4, <2>5 DEF ToggleWatch
<1>5. CASE ToggleMagnetic
  <2>1. /\ ui \in {"idle", "menu"} /\ ui' = AfterCommand /\ UNCHANGED <<settings, dialog, hook>>
        /\ SetMagnetic(~magnetic)
    BY <1>5 DEF ToggleMagnetic, Command
  <2>2. InMenu' <=> InMenu
    BY <1>2, <2>1 DEF InMenu
  <2>3. Line'
    BY <1>1, <1>2, <2>1, <2>2, MagneticLines
  <2> QED
    BY <1>2, <2>1, <2>3, InLineNext
<1>6. CASE MagneticTargetSelected
  <2>1. ui = "idle" /\ Line /\ UNCHANGED <<hook, settings, dialog>>
    BY <1>1, <1>6 DEF MagneticTargetSelected, Between
  <2>2. CASE ShowNotice("attached") /\ UNCHANGED ui
    BY <1>1, <2>1, <2>2, ShowNoticeLines, InLineNext
  <2>3. CASE ShowFails
    <3>1. failures' # 0 /\ failures' \in Nat
      BY <1>1, <2>3, UiBounds DEF ShowFails, Fails, CaptureOK
    <3>2. ui' = "resume"
      BY <2>1, <2>3 DEF ShowFails
    <3> QED
      BY <3>1, <3>2, InLineNext, UiBounds DEF Between
  <2>4. CASE ClearNotice /\ UNCHANGED ui
    BY <1>1, <2>1, <2>4, ClearNoticeLines, InLineNext DEF InMenu
  <2> QED
    BY <1>6, <2>2, <2>3, <2>4 DEF MagneticTargetSelected
<1>7. CASE NoticeTimer
  <2>1. ui = "idle" /\ ui' = "idle" /\ Line /\ UNCHANGED <<hook, settings, dialog>> /\ ClearNotice
    BY <1>1, <1>7 DEF NoticeTimer, Between
  <2> QED
    BY <1>1, <2>1, ClearNoticeLines, InLineNext DEF InMenu
<1>8. CASE ApplyDraft \/ SyncMagnetic
  <2>1. ui' \in {"magnetic", "listener"}
    BY <1>8 DEF ApplyDraft, SyncMagnetic
  <2> QED
    BY <2>1, InLineNext DEF Between
<1>9. CASE SyncListener
  <2>1. ui = "listener" /\ ui' = AfterAction /\ UNCHANGED <<pauses, hook>>
    BY <1>9 DEF SyncListener
  <2>2. Paused' <=> Paused
    BY <1>3, <2>1, SameDialogs, SamePauses DEF Unpaused, pauses, InMenu
  <2>3. CASE watching = (configured /\ ~Paused) /\ UNCHANGED <<capture, failures>>
    <3>1. Line'
      BY <2>2, <2>3 DEF Line, capture
    <3> QED
      BY <1>3, <2>1, <3>1, InLineNext
  <2>4. CASE configured /\ ~Paused /\ watching' = TRUE /\ UNCHANGED configured
    <3>1. Line'
      BY <2>2, <2>4 DEF Line
    <3> QED
      BY <1>3, <2>1, <3>1, InLineNext
  <2>5. CASE Fails /\ configured' = FALSE
    <3>1. Line'
      BY <1>1, <2>5, FailsCounts DEF Line
    <3> QED
      BY <1>3, <2>1, <3>1, InLineNext
  <2>6. CASE ~(configured /\ ~Paused) /\ PauseSucceeds
    <3>1. Line'
      BY <2>2, <2>6 DEF Line, PauseSucceeds
    <3> QED
      BY <1>3, <2>1, <3>1, InLineNext
  <2>7. CASE watching /\ Fails /\ UNCHANGED watching
    <3>1. Line'
      BY <1>1, <2>7, FailsCounts DEF Line
    <3> QED
      BY <1>3, <2>1, <3>1, InLineNext
  <2> QED
    BY <1>9, <2>3, <2>4, <2>5, <2>6, <2>7 DEF SyncListener
<1> QED
  BY <1>4, <1>5, <1>6, <1>7, <1>8, <1>9

-----------------------------------------------------------------------------
(* The theorems                                                            *)

\* The invariant holds at first,
LEMMA IInvInit == Init => IInv
<1> SUFFICES ASSUME Init PROVE IInv
  OBVIOUS
<1>1. TypeOK /\ Fits
  BY TypeInit
<1>2. NoneDelayed /\ InLine
  BY DEF Init, NoneDelayed, InLine
<1>3. EndsAreOld
  <2>1. Len(actions) = 0
    BY DEF Init
  <2>2. 1..Len(actions) = {}
    BY <2>1
  <2>3. \A d \in Dialogs : dialog[d].window = 0 /\ dialog[d].session = 0
    BY DEF Init
  <2> QED
    BY <2>2, <2>3 DEF Init, EndsAreOld
<1> QED
  BY <1>1, <1>2, <1>3 DEF IInv

\* every action keeps it,
LEMMA IInvStep == IInv /\ [Next]_vars => IInv'
<1> SUFFICES ASSUME IInv, [Next]_vars PROVE IInv'
  OBVIOUS
<1>1. TypeOK /\ Fits /\ NoneDelayed /\ InLine /\ EndsAreOld /\ sessions <= commands
  BY DEF IInv, EndsAreOld
<1>2. TypeOK' /\ Fits' /\ sessions' <= commands'
  BY <1>1, TypeStep
<1>3. NoneDelayed'
  BY <1>1, DelayStep
<1>4. InLine'
  BY <1>1, HandlersInLine, PausesInLine, ResumesInLine, SwitchesInLine DEF Next
<1>5. EndsAreOld'
  BY <1>1, <1>2, EndsStep
<1> QED
  BY <1>2, <1>3, <1>4, <1>5 DEF IInv

\* and so it always holds.
LEMMA Invariance == Spec => []IInv
BY IInvInit, IInvStep, PTL DEF Spec

(* Every variable of the flow stays within its type.                       *)
THEOREM TypeCorrect == Spec => []TypeOK
<1>1. IInv => TypeOK
  BY DEF IInv
<1> QED
  BY <1>1, Invariance, PTL

(* What is shown as a translation is that of the original shown with it,   *)
(* whichever requests were replaced, cancelled, answered late or lost      *)
(* (app/translation.rs, handle_translation_complete).                      *)
THEOREM TranslationsFit == Spec => []TranslationFitsOriginal
<1>1. IInv => TranslationFitsOriginal
  BY DEF IInv, Fits, TranslationFitsOriginal
<1> QED
  BY <1>1, Invariance, PTL

(* Between two messages the clipboard is captured when the user wants it   *)
(* and nothing pauses it; while no call of Windows failed it is not        *)
(* captured otherwise, and every open dialog holds its pause               *)
(* (app/commands/clipboard.rs, app/commands/dialogs.rs).                   *)
THEOREM CaptureIsInLine == Spec => []CaptureFollows
<1>1. IInv => CaptureFollowsReasons
  BY DEF IInv, InLine, CaptureFollowsReasons
<1>2. IInv => OpenDialogPauses
  BY DEF IInv, EndsAreOld, OpenDialogPauses
<1> QED
  BY <1>1, <1>2, Invariance, PTL DEF CaptureFollows

\* No step replaces a sentence of the game whose request is not overdue.
LEMMA SentenceStays ==
  IInv /\ [Next]_vars =>
    (hook.session /\ pending.from = "hook" /\ ~pending.overdue /\ failures' = 0
       => screen'.text = screen.text)
<1> SUFFICES ASSUME IInv, [Next]_vars, hook.session, pending.from = "hook", ~pending.overdue,
                    failures' = 0
             PROVE  screen'.text = screen.text
  OBVIOUS
<1>1. /\ FlowOK /\ Fits /\ TextsOK /\ HookFits(hook) /\ CaptureOK /\ InboxOK /\ NoneDelayed
  BY TypeParts DEF IInv
<1>2. failures = 0
  BY <1>1, CaptureStep, UiBounds DEF CaptureOK
<1>3. debounce = 0 /\ Paused /\ Waits /\ pending.id # 0 /\ screen.text = pending.text
  BY <1>1, <1>2, PausedIs DEF NoneDelayed, Waits, Fits
<1>4. ASSUME HandleComplete PROVE screen'.text = screen.text
  BY <1>3, <1>4 DEF HandleComplete, Shows
<1>5. ASSUME PumpAfterCompletion \/ DrainMerger \/ MergeTimer PROVE screen'.text = screen.text
  <2>1. PICK h \in {hook} \union Emissions(hook) : Pump(h)
    BY <1>5 DEF PumpAfterCompletion, DrainMerger, MergeTimer
  <2> QED
    BY <1>3, <2>1 DEF Pump, translation
<1>6. ASSUME HookText PROVE screen'.text = screen.text
  <2>1. PICK h \in {hook} \union Emissions(hook) : Pump([h EXCEPT !.merging = texts + 1])
    BY <1>6 DEF HookText
  <2> QED
    BY <1>3, <2>1 DEF Pump, translation
<1>7. ~ClipboardChanged /\ ~ClipboardDebounceTimer
  BY <1>3 DEF ClipboardChanged, ClipboardDebounceTimer
<1>8. ASSUME Overtakes \/ Dispatch PROVE screen'.text = screen.text
  BY <1>8 DEF Overtakes, Dispatch
<1>9. ASSUME Calm PROVE screen'.text = screen.text
  BY <1>1, <1>9, CalmFits
<1> QED
  BY <1>4, <1>5, <1>6, <1>7, <1>8, <1>9, CalmSteps DEF Next

(* While a game is hooked and no call of Windows failed, a sentence whose  *)
(* request is younger than the timeout stays on the overlay                *)
(* (app/hook_text.rs, pump_hook_translation).                              *)
THEOREM SentencesStay == Spec => SentenceNotReplaced
BY Invariance, SentenceStays, PTL DEF Spec, SentenceNotReplaced
=============================================================================
