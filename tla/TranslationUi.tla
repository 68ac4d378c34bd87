--------------------------- MODULE TranslationUi ---------------------------
(***************************************************************************)
(* The overlay window's use of the translation dispatcher: texts come from *)
(* the clipboard and from a hooked game, at most one of them is being      *)
(* translated, and dialogs, menus, notices and the hook session take turns *)
(* in pausing the capture of the clipboard (app/translation.rs,            *)
(* app/hook_text.rs, app/commands/).                                       *)
(*                                                                         *)
(* All of this runs on the UI thread, one message at a time.  The          *)
(* dispatcher's threads run beside it and appear as LatestRequest, the     *)
(* specification that TranslationDispatch is checked to implement.  ui is  *)
(* the place inside a handler where the dispatcher may run in between; the *)
(* window procedure defers every other message until it is "idle" again.   *)
(***************************************************************************)
EXTENDS Naturals, SequencesExt

CONSTANTS
    Window,        \* the overlay window, the only target of this module
    Dialogs,       \* dialogs that pause capture by session: translate, file
    MaxTexts,      \* bound: texts that arrive
    MaxRequests,   \* bound: requests to the dispatcher
    MaxQueued,     \* capacity of the queue of hook sentences (8 in the code)
    MaxAttaches,   \* bound: hook sessions
    MaxCommands,   \* bound: commands the user gives
    MaxActions,    \* bound: actions waiting in the application's queue
    MaxFailures    \* bound: calls of Windows that fail

ASSUME UiBounds ==
    /\ MaxTexts \in Nat /\ MaxRequests \in Nat /\ MaxAttaches \in Nat /\ MaxCommands \in Nat
    /\ MaxActions \in Nat /\ MaxFailures \in Nat
    /\ MaxQueued \in Nat \ {0}

VARIABLES
    issued, wanted, answered, answers, read,   \* the dispatcher
    ui,           \* where the UI thread is in its handler
    texts,        \* number of texts so far; a text is its number
    askedFor,     \* askedFor[id]: the text of request id (history)
    screen,       \* what the overlay shows
    pending,      \* the request whose response will be shown
    debounce,     \* clipboard text whose delay runs, 0 if none
    hook,         \* the hook session as the UI sees it, and its texts
    configured,   \* config.clipboard_watch
    watching,     \* the clipboard listener is registered
    magnetic,     \* the magnetic mode is on
    notice,       \* the notice of the magnetic mode on the overlay
    settings,     \* the settings window, and the flag that pauses for it
    dialog,       \* dialog[d]: likewise by session number, 0 for none
    sessions,     \* sessions handed out to dialogs
    commands,     \* number of commands given so far
    actions,      \* actions dialogs have sent and the UI has not processed
    wake,         \* a WM_APP_ACTION message is under way
    failures      \* calls of Windows that failed so far

D == INSTANCE LatestRequest WITH Target <- {Window}

dispatcher == <<issued, wanted, answered, answers, read>>
capture == <<configured, watching>>
pauses == <<magnetic, notice, settings, dialog, sessions>>
inbox == <<actions, wake>>
translation == <<dispatcher, askedFor, screen, pending>>

vars == <<translation, ui, texts, debounce, hook, capture, pauses, inbox,
          commands, failures>>

NoRequest == [id |-> 0, text |-> 0, from |-> "none", overdue |-> FALSE]
NoHook == [session |-> FALSE, live |-> FALSE, timer |-> FALSE,
           merging |-> 0, queue |-> <<>>, attaches |-> 0]

Init ==
    /\ D!Init
    /\ ui = "magnetic"       \* start_runtime ends with sync_window_state
    /\ texts = 0
    /\ askedFor = <<>>
    /\ screen = [text |-> 0, translated |-> 0]
    /\ pending = NoRequest
    /\ debounce = 0
    /\ hook = NoHook
    /\ configured \in BOOLEAN
    /\ watching = configured
    /\ magnetic = FALSE
    /\ notice = "none"
    /\ settings = [active |-> FALSE, window |-> FALSE]
    /\ dialog = [d \in Dialogs |-> [session |-> 0, window |-> 0]]
    /\ sessions = 0
    /\ commands = 0
    /\ actions = <<>>
    /\ wake = FALSE
    /\ failures = 0

(***************************************************************************)
(* Pausing and resuming the capture of the clipboard.                      *)
(***************************************************************************)

(* Why capture is paused. *)
Reasons ==
    {d \in Dialogs : dialog[d].session # 0}
    \union (IF settings.active THEN {"settings"} ELSE {})
    \union (IF ui \in {"menu", "closing"} THEN {"menu"} ELSE {})
    \union (IF notice # "none" THEN {"notice"} ELSE {})
    \union (IF hook.session THEN {"hook"} ELSE {})

Paused == Reasons # {}

Fails == failures < MaxFailures /\ failures' = failures + 1

(* The debounced text and the request in flight are given up; what the     *)
(* overlay shows stays.                                                    *)
CancelTranslation ==
    /\ debounce' = 0
    /\ pending' = NoRequest
    /\ D!Cancel(Window)
    /\ UNCHANGED <<askedFor, screen>>

PauseSucceeds ==
    /\ watching' = FALSE
    /\ CancelTranslation
    /\ UNCHANGED <<configured, failures>>

(* The listener cannot be removed, and nothing is cancelled. *)
PauseFails ==
    /\ watching
    /\ Fails
    /\ UNCHANGED <<capture, debounce, translation>>

(* Evaluated after the reason that ends has been taken away. *)
Resume ==
    IF Paused' \/ ~configured \/ watching
    THEN UNCHANGED <<capture, failures>>
    ELSE \/ /\ watching' = TRUE
            /\ UNCHANGED <<configured, failures>>
         \/ /\ Fails
            /\ configured' = FALSE
            /\ UNCHANGED watching

(***************************************************************************)
(* Requests and responses.                                                 *)
(***************************************************************************)

(* Text t with a translation, or without: 0. *)
Shows(t, translated) == screen' = [text |-> t, translated |-> translated]

(* The engine cannot be set up: the original is shown, the dispatcher is   *)
(* not told.                                                               *)
CaptureWithoutTranslation(t) ==
    /\ pending' = NoRequest
    /\ Shows(t, 0)
    /\ UNCHANGED <<dispatcher, askedFor>>

(* The dispatcher takes the id as the newest request of the window and     *)
(* withdraws it again because its worker is gone.                          *)
RefusedRequest(t) ==
    /\ issued < MaxRequests
    /\ issued' = issued + 1
    /\ wanted' = [wanted EXCEPT ![Window] = 0]
    /\ askedFor' = Append(askedFor, t)
    /\ pending' = NoRequest
    /\ Shows(t, 0)
    /\ UNCHANGED <<answered, answers, read>>

RequestTranslation(t, from) ==
    \/ CaptureWithoutTranslation(t)
    \/ /\ D!Cancel(Window)           \* the translation cache has it
       /\ pending' = NoRequest
       /\ Shows(t, t)
       /\ UNCHANGED askedFor
    \/ /\ D!Request(Window)
       /\ pending' = [id |-> issued', text |-> t, from |-> from,
                      overdue |-> FALSE]
       /\ Shows(t, 0)
       /\ askedFor' = Append(askedFor, t)
    \/ RefusedRequest(t)

(* Mutant: whatever response comes is shown for the pending request. *)
CorrelatesAny(id) == pending.id # 0

(* A response is shown only when it answers the pending request. *)
Correlates(id) == pending.id = id

HandleComplete ==
    /\ ui = "idle"
    /\ D!Take(Window)
    /\ LET id == read'[Window] IN
       IF Correlates(id)
       THEN /\ pending' = NoRequest
            /\ ui' = "pump"
            /\ \/ Shows(pending.text, askedFor[id])
               \/ Shows(pending.text, 0)         \* an error
       ELSE UNCHANGED <<pending, ui, screen>>
    /\ UNCHANGED <<askedFor, texts, debounce, hook, capture, pauses, commands, inbox,
                   failures>>

(***************************************************************************)
(* Sentences of the hooked game.                                           *)
(***************************************************************************)

(* Mutant: a sentence does not wait for the one before it. *)
WaitsNever == FALSE

(* Mutant: a request that is never answered is waited for without limit. *)
WaitsForever == pending.id # 0

(* A request younger than HOOK_PENDING_TIMEOUT is waited for. *)
Waits == pending.id # 0 /\ ~pending.overdue

Overtakes ==
    /\ pending.id # 0
    /\ pending' = [pending EXCEPT !.overdue = TRUE]
    /\ pending' # pending
    /\ UNCHANGED <<dispatcher, askedFor, screen, ui, texts, debounce, hook,
                   capture, pauses, commands, inbox, failures>>

(* A full queue drops its oldest sentence. *)
Queued(q, t) == IF Len(q) >= MaxQueued THEN Append(Tail(q), t) ELSE Append(q, t)

(* Everything queued goes out as one request, named by its last sentence.  *)
Pump(h) ==
    IF h.queue = <<>> \/ Waits
    THEN hook' = h /\ UNCHANGED translation
    ELSE /\ hook' = [h EXCEPT !.queue = <<>>]
         /\ RequestTranslation(h.queue[Len(h.queue)], "hook")

(* The merged text of h leaves the merge window for the queue, unless it   *)
(* is too long or its thread is not selected any more.                     *)
Emissions(h) ==
    IF h.merging = 0 THEN {h}
    ELSE {[h EXCEPT !.merging = 0, !.queue = q] :
             q \in {h.queue, Queued(h.queue, h.merging)}}

(* A fragment joins the text in the merge window, or pushes it out when    *)
(* the window has passed.  Without the timer nothing stays in the window.  *)
HookText ==
    /\ ui = "idle"
    /\ hook.live
    /\ texts < MaxTexts
    /\ texts' = texts + 1
    /\ ui' = IF hook.timer THEN "idle" ELSE "drain"
    /\ \E h \in {hook} \union Emissions(hook) :
          Pump([h EXCEPT !.merging = texts + 1])
    /\ UNCHANGED <<debounce, capture, pauses, commands, inbox, failures>>

DrainMerger ==
    /\ ui = "drain"
    /\ ui' = "idle"
    /\ \E h \in Emissions(hook) : Pump(h)
    /\ UNCHANGED <<texts, debounce, capture, pauses, commands, inbox, failures>>

(* Each tick emits a text whose merge window has passed, and pumps. *)
MergeTimer ==
    /\ ui = "idle"
    /\ hook.timer
    /\ \E h \in {hook} \union Emissions(hook) : Pump(h)
    /\ UNCHANGED <<ui, texts, debounce, capture, pauses, commands, inbox, failures>>

PumpAfterCompletion ==
    /\ ui = "pump"
    /\ ui' = "idle"
    /\ Pump(hook)
    /\ UNCHANGED <<texts, debounce, capture, pauses, commands, inbox, failures>>

(* SetTimer may fail; the session goes on without the timer. *)
HookAttached ==
    /\ ui = "idle"
    /\ hook.attaches < MaxAttaches
    /\ \E timer \in {hook.timer, TRUE} :
          hook' = [hook EXCEPT !.session = TRUE, !.live = TRUE,
                               !.timer = timer, !.attaches = @ + 1]
    /\ PauseSucceeds \/ PauseFails
    /\ UNCHANGED <<ui, texts, pauses, commands, inbox>>

(* What is not translated yet is dropped, but not the request in flight. *)
ClearHookPending(h) ==
    [h EXCEPT !.timer = FALSE, !.merging = 0, !.queue = <<>>]

(* Also after a failed attach. *)
HookDetached ==
    /\ ui = "idle"
    /\ hook' = [ClearHookPending(hook) EXCEPT !.session = FALSE, !.live = FALSE]
    /\ UNCHANGED <<ui, texts, debounce, translation, pauses, commands, inbox>>
    /\ Resume

(***************************************************************************)
(* Texts of the clipboard.                                                 *)
(***************************************************************************)

(* A text whose script is not the source language's is shown as it is. *)
ShowUntranslated(t) ==
    /\ D!Cancel(Window)
    /\ debounce' = 0
    /\ pending' = NoRequest
    /\ Shows(t, t)
    /\ UNCHANGED askedFor

ClipboardChanged ==
    /\ ui = "idle"
    /\ configured
    /\ watching
    /\ ~Paused
    /\ texts < MaxTexts
    /\ texts' = texts + 1
    /\ \/ ShowUntranslated(texts + 1)
       \/ debounce' = texts + 1 /\ UNCHANGED translation
       \/ debounce' = 0 /\ RequestTranslation(texts + 1, "clipboard")
    /\ UNCHANGED <<ui, hook, capture, pauses, commands, inbox, failures>>

ClipboardDebounceTimer ==
    /\ ui = "idle"
    /\ debounce # 0
    /\ debounce' = 0
    /\ RequestTranslation(debounce, "clipboard")
    /\ UNCHANGED <<ui, texts, hook, capture, pauses, commands, inbox, failures>>

(***************************************************************************)
(* Commands, which come from hotkeys or from the context menu.  The menu   *)
(* is a loop inside its handler, and one command may end it.               *)
(***************************************************************************)

OpenMenu ==
    /\ ui = "idle"
    /\ \/ ui' = "menu" /\ PauseSucceeds
       \/ ui' = "idle" /\ PauseFails
    /\ UNCHANGED <<texts, hook, pauses, commands, inbox>>

ResumeLast ==
    /\ ui \in {"menu", "closing", "resume"}
    /\ ui' = "idle"
    /\ UNCHANGED <<texts, debounce, hook, translation, pauses, commands, inbox>>
    /\ Resume

Command ==
    /\ ui \in {"idle", "menu"}
    /\ commands < MaxCommands
    /\ commands' = commands + 1

AfterCommand == IF ui = "menu" THEN "closing" ELSE "idle"

(* The user's switch is ignored while a game is hooked.  The listener is   *)
(* told what the pauses allow; a failure keeps the old setting.            *)
ToggleWatch ==
    /\ Command
    /\ ui' = AfterCommand
    /\ ~hook.session
    /\ LET enabled == ~configured
           watch == enabled /\ ~Paused
       IN \/ /\ configured' = enabled
             /\ watching' = watch
             /\ IF enabled
                THEN UNCHANGED <<debounce, translation>>
                ELSE CancelTranslation
             /\ UNCHANGED failures
          \/ /\ watch # watching
             /\ Fails
             /\ UNCHANGED <<capture, debounce, translation>>
    /\ UNCHANGED <<texts, hook, pauses, inbox>>

(* The snapshot goes down without waiting for the worker's Detached. *)
StopHook ==
    /\ Command
    /\ ui' = AfterCommand
    /\ hook.session
    /\ hook' = [ClearHookPending(hook) EXCEPT !.session = FALSE]
    /\ UNCHANGED <<texts, debounce, translation, pauses, inbox>>
    /\ Resume

(* Capture was paused, but the window does not open: the handler goes on to *)
(* resume it.  A menu, which pauses too, does so when it closes.           *)
ShowFails ==
    /\ Fails
    /\ watching' = FALSE
    /\ CancelTranslation
    /\ UNCHANGED configured
    /\ ui' = IF ui = "menu" THEN "closing" ELSE "resume"

(* A window that is already open is only activated. *)
OpenSettings ==
    /\ Command
    /\ UNCHANGED <<texts, hook, magnetic, notice, dialog, sessions, inbox>>
    /\ \/ /\ settings' = [active |-> TRUE, window |-> TRUE]
          /\ PauseSucceeds
          /\ ui' = AfterCommand
       \/ /\ settings' = [settings EXCEPT !.active = FALSE]
          /\ PauseFails
          /\ ui' = AfterCommand
       \/ /\ ~settings.window
          /\ settings' = [settings EXCEPT !.active = FALSE]
          /\ ShowFails

(* A window that is still open keeps its session; otherwise a session that *)
(* was left by a window already gone is dropped before the pause.          *)
ActivateDialog(d) ==
    /\ Command
    /\ ui' = AfterCommand
    /\ dialog[d].window # 0
    /\ dialog' = [dialog EXCEPT ![d].session = dialog[d].window]
    /\ PauseSucceeds \/ PauseFails
    /\ UNCHANGED <<texts, hook, magnetic, notice, settings, sessions, inbox>>

OpenDialog(d) ==
    /\ Command
    /\ dialog[d].window = 0
    /\ UNCHANGED <<texts, hook, magnetic, notice, settings, inbox>>
    /\ \/ /\ dialog' = [dialog EXCEPT ![d].session = 0]
          /\ PauseFails
          /\ ui' = AfterCommand
          /\ UNCHANGED sessions
       \/ /\ sessions' = sessions + 1
          /\ \/ /\ dialog' = [dialog EXCEPT ![d] =
                      [session |-> sessions + 1, window |-> sessions + 1]]
                /\ PauseSucceeds
                /\ ui' = AfterCommand
             \/ /\ dialog' = [dialog EXCEPT ![d].session = 0]
                /\ ShowFails

(***************************************************************************)
(* The magnetic mode, whose notices cover the overlay and pause capture.   *)
(***************************************************************************)

(* The pause of a notice; without it the mode ends. *)
ShowNotice(kind) ==
    \/ magnetic' = TRUE /\ notice' = kind /\ PauseSucceeds
    \/ magnetic' = FALSE /\ notice' = "none" /\ PauseFails

ClearNotice ==
    /\ notice' = "none"
    /\ IF notice = "none" THEN UNCHANGED <<capture, failures>> ELSE Resume

SetMagnetic(enabled) ==
    \/ /\ enabled = magnetic
       /\ UNCHANGED <<magnetic, notice, capture, failures, debounce, translation>>
    \/ /\ enabled /\ ~magnetic
       /\ ShowNotice("select")
    \/ /\ enabled /\ ~magnetic                   \* the window hook fails
       /\ Fails
       /\ UNCHANGED <<magnetic, notice, capture, debounce, translation>>
    \/ /\ ~enabled /\ magnetic
       /\ magnetic' = FALSE
       /\ ClearNotice
       /\ UNCHANGED <<debounce, translation>>

ToggleMagnetic ==
    /\ Command
    /\ ui' = AfterCommand
    /\ UNCHANGED <<texts, hook, settings, dialog, sessions, inbox>>
    /\ SetMagnetic(~magnetic)

MagneticTargetSelected ==
    /\ ui = "idle"
    /\ magnetic
    /\ UNCHANGED <<texts, hook, settings, dialog, sessions, commands, inbox>>
    /\ \/ ShowNotice("attached") /\ UNCHANGED ui
       \/ /\ notice' = "none"                    \* no timer to end the notice
          /\ ShowFails
          /\ UNCHANGED magnetic
       \/ /\ magnetic' = FALSE                   \* the target is gone
          /\ UNCHANGED ui
          /\ ClearNotice
          /\ UNCHANGED <<debounce, translation>>

NoticeTimer ==
    /\ ui = "idle"
    /\ notice = "attached"
    /\ UNCHANGED <<ui, texts, debounce, hook, translation, magnetic, settings,
                   dialog, sessions, commands, inbox>>
    /\ ClearNotice

(***************************************************************************)
(* Windows close on their own and tell the application by an action, whose *)
(* message may be lost; the action then waits for the next one.            *)
(***************************************************************************)

Send(action) ==
    /\ Len(actions) < MaxActions
    /\ actions' = Append(actions, action)
    /\ \/ wake' = TRUE /\ UNCHANGED failures
       \/ Fails /\ UNCHANGED wake

CloseSettings ==
    /\ ui = "idle"
    /\ settings.window
    /\ settings' = [settings EXCEPT !.window = FALSE]
    /\ Send([kind |-> "settings closed"])
    /\ UNCHANGED <<ui, texts, debounce, hook, translation, capture, magnetic,
                   notice, dialog, sessions, commands>>

CloseDialog(d) ==
    /\ ui = "idle"
    /\ dialog[d].window # 0
    /\ dialog' = [dialog EXCEPT ![d].window = 0]
    /\ Send([kind |-> "dialog closed", of |-> d, session |-> dialog[d].window])
    /\ UNCHANGED <<ui, texts, debounce, hook, translation, capture, magnetic,
                   notice, settings, sessions, commands>>

SendCommit ==
    /\ ui = "idle"
    /\ settings.window
    /\ \E enabled \in BOOLEAN : Send([kind |-> "commit", watch |-> enabled])
    /\ UNCHANGED <<ui, texts, debounce, hook, translation, capture, pauses, commands>>

(* A preview that still waits is replaced in its place, without a message. *)
SendPreview ==
    /\ ui = "idle"
    /\ settings.window
    /\ \E enabled \in BOOLEAN :
          LET draft == [kind |-> "preview", watch |-> enabled] IN
          IF actions # <<>> /\ Last(actions).kind = "preview"
          THEN /\ actions' = Append(Front(actions), draft)
               /\ UNCHANGED <<wake, failures>>
          ELSE Send(draft)
    /\ UNCHANGED <<ui, texts, debounce, hook, translation, capture, pauses, commands>>

(***************************************************************************)
(* One message brings all actions that wait (32 at most; MaxActions is far *)
(* less), one after another inside its handler.                            *)
(***************************************************************************)

Process(kinds) ==
    /\ ui = "actions" \/ (ui = "idle" /\ wake)
    /\ actions # <<>>
    /\ Head(actions).kind \in kinds
    /\ actions' = Tail(actions)
    /\ wake' = FALSE
    /\ UNCHANGED <<texts, debounce, hook, translation, magnetic, notice, sessions,
                   commands>>

AfterAction == IF actions' = <<>> THEN "idle" ELSE "actions"

(* This notice carries no session. *)
SettingsClosed ==
    /\ Process({"settings closed"})
    /\ settings' = [settings EXCEPT !.active = FALSE]
    /\ ui' = AfterAction
    /\ UNCHANGED dialog
    /\ Resume

(* Mutant: a dialog's closing ends the pause of whichever dialog is open. *)
IsAnySession(action) == action.kind = "dialog closed"

IsCurrentSession(action) == dialog[action.of].session = action.session

DialogClosed ==
    /\ Process({"dialog closed"})
    /\ ui' = AfterAction
    /\ UNCHANGED settings
    /\ LET action == Head(actions) IN
       IF IsCurrentSession(action)
       THEN dialog' = [dialog EXCEPT ![action.of].session = 0] /\ Resume
       ELSE UNCHANGED <<dialog, capture, failures>>

(* A draft replaces the configuration; then sync_window_state brings first *)
(* the magnetic mode and then the listener in line with it.                *)
ApplyDraft ==
    /\ Process({"preview", "commit"})
    /\ ui' = "magnetic"
    /\ configured' = Head(actions).watch
    /\ UNCHANGED <<watching, settings, dialog, failures>>

SyncMagnetic ==
    /\ ui = "magnetic"
    /\ ui' = "listener"
    /\ UNCHANGED <<texts, hook, settings, dialog, sessions, commands, inbox>>
    /\ \E enabled \in BOOLEAN : SetMagnetic(enabled)

SyncListener ==
    /\ ui = "listener"
    /\ UNCHANGED <<texts, hook, pauses, commands, inbox>>
    /\ ui' = AfterAction
    /\ LET watch == configured /\ ~Paused IN
       \/ /\ watch = watching
          /\ UNCHANGED <<capture, failures, debounce, translation>>
       \/ /\ watch /\ ~watching
          /\ UNCHANGED <<debounce, translation>>
          /\ \/ watching' = TRUE /\ UNCHANGED <<configured, failures>>
             \/ Fails /\ configured' = FALSE /\ UNCHANGED watching
       \/ ~watch /\ watching /\ PauseSucceeds
       \/ /\ ~watch /\ watching
          /\ Fails
          /\ configured' = TRUE
          /\ UNCHANGED <<watching, debounce, translation>>

(***************************************************************************)
(* The dispatcher's threads, at any time.                                  *)
(***************************************************************************)

Dispatch ==
    /\ D!Answer(Window) \/ D!Lose(Window)
    /\ UNCHANGED <<ui, texts, askedFor, screen, pending, debounce, hook, capture,
                   pauses, commands, inbox, failures>>

Next ==
    \/ HandleComplete \/ PumpAfterCompletion
    \/ HookText \/ DrainMerger \/ MergeTimer \/ HookAttached \/ HookDetached
    \/ Overtakes
    \/ ClipboardChanged \/ ClipboardDebounceTimer
    \/ OpenMenu \/ ResumeLast \/ ToggleWatch \/ StopHook \/ OpenSettings
    \/ \E d \in Dialogs : ActivateDialog(d) \/ OpenDialog(d) \/ CloseDialog(d)
    \/ ToggleMagnetic \/ MagneticTargetSelected \/ NoticeTimer
    \/ CloseSettings \/ SendCommit \/ SendPreview
    \/ SettingsClosed \/ DialogClosed \/ ApplyDraft \/ SyncMagnetic \/ SyncListener
    \/ Dispatch

Spec == Init /\ [][Next]_vars

(* Time passes, a handler once begun ends, and the user closes a menu in   *)
(* the end.  Ticks that meet a menu are deferred and handled after it, so  *)
(* opening menus for ever does not keep the merge timer from being served. *)
Fairness ==
    /\ SF_vars(MergeTimer)
    /\ WF_vars(Overtakes)
    /\ WF_vars(PumpAfterCompletion \/ DrainMerger \/ ResumeLast \/ SettingsClosed \/ DialogClosed
               \/ ApplyDraft \/ SyncMagnetic \/ SyncListener)

FairSpec == Spec /\ Fairness

(***************************************************************************)
(* What must hold.                                                         *)
(***************************************************************************)

Text == 0..MaxTexts
Request == [id : 0..MaxRequests, text : Text,
            from : {"none", "hook", "clipboard"}, overdue : BOOLEAN]
Action ==
    [kind : {"settings closed"}]
    \union [kind : {"dialog closed"}, of : Dialogs, session : 1..MaxCommands]
    \union [kind : {"preview", "commit"}, watch : BOOLEAN]

TypeOK ==
    /\ D!TypeOK
    /\ ui \in {"idle", "pump", "drain", "menu", "closing", "resume", "actions", "magnetic", "listener"}
    /\ texts \in Text
    /\ askedFor \in Seq(Text) /\ Len(askedFor) = issued
    /\ screen \in [text : Text, translated : Text]
    /\ pending \in Request
    /\ debounce \in Text
    /\ hook \in [session : BOOLEAN, live : BOOLEAN, timer : BOOLEAN,
                 merging : Text, queue : Seq(Text), attaches : 0..MaxAttaches]
    /\ Len(hook.queue) <= MaxQueued
    /\ {configured, watching, magnetic, wake} \subseteq BOOLEAN
    /\ notice \in {"none", "select", "attached"}
    /\ settings \in [active : BOOLEAN, window : BOOLEAN]
    /\ dialog \in [Dialogs -> [session : 0..MaxCommands, window : 0..MaxCommands]]
    /\ sessions \in 0..MaxCommands
    /\ actions \in Seq(Action) /\ Len(actions) <= MaxActions
    /\ commands \in 0..MaxCommands /\ failures \in 0..MaxFailures

(* Between two messages the clipboard is watched when the user wants it    *)
(* and nothing pauses it: no pause, resume or setting leaves the capture   *)
(* switched off by mistake, whatever call failed, and without failures it  *)
(* is off while anything pauses it (app/commands/clipboard.rs).            *)
CaptureFollowsReasons ==
    ui = "idle" =>
        /\ configured /\ ~Paused => watching
        /\ failures = 0 /\ watching => configured /\ ~Paused

(* An open translation or file window pauses the capture, also when it was *)
(* opened before the notice of its predecessor's end was handled           *)
(* (app/commands/dialogs.rs).                                              *)
OpenDialogPauses ==
    failures = 0 =>
        \A d \in Dialogs : dialog[d].window # 0 => dialog[d].session # 0

(* The clipboard is captured when it should be, and paused when it should. *)
CaptureFollows == CaptureFollowsReasons /\ OpenDialogPauses

(* The translation on the overlay is that of the original on the overlay,  *)
(* whatever was cancelled, replaced or answered late                       *)
(* (app/translation.rs, handle_translation_complete).                      *)
TranslationFitsOriginal ==
    screen.translated # 0 => screen.translated = screen.text

(* During a hook session no other text takes the place of a game sentence  *)
(* whose request is younger than the timeout: the next one waits in the    *)
(* queue (app/hook_text.rs, pump_hook_translation).                        *)
SentenceNotReplaced ==
    [][hook.session /\ pending.from = "hook" /\ ~pending.overdue /\ failures' = 0
         => screen'.text = screen.text]_vars

(* Queued sentences go out although a response never comes, or the session *)
(* ends and they are dropped (HOOK_PENDING_TIMEOUT).                       *)
QueuedSentencesMove ==
    hook.queue # <<>> /\ hook.timer ~> hook.queue = <<>>

(* While a game is hooked no text of the clipboard is sent to be           *)
(* translated (handle_hook_attached).                                      *)
OnlyGameTextWhileHooked ==
    [][hook.session /\ pending'.id # pending.id => pending'.from # "clipboard"]_vars
=============================================================================
