---------------------------- MODULE SettingsFlow ----------------------------
(***************************************************************************)
(* The configuration (app/action.rs, state.rs, config_save.rs, commands/,  *)
(* dialogs/settings): the settings window edits a draft of its own and     *)
(* previews it, commands and other parts change the configuration          *)
(* meanwhile, hotkeys and magnetism follow it, a thread saves it, and      *)
(* leaving saves it last.                                                  *)
(*                                                                         *)
(* A configuration is a record of the fields that differ in who writes     *)
(* them: `look` stands for what is previewed and what commands change      *)
(* behind the draft (text size, background, border, click-through),        *)
(* `hotkeys` for what is registered when it is applied, `magnetic` for     *)
(* what commands change and tell the draft,                                *)
(* `outside` for what the window never edits: the last update check, hook  *)
(* profiles, the routes of other windows and the placement.                *)
(***************************************************************************)
EXTENDS Naturals, Sequences

CONSTANTS
    Looks,          \* values of a previewed setting
    Hotkeys,        \* sets of hotkeys
    BatchSize,      \* ACTION_BATCH_SIZE
    MaxEdits,       \* bound: what the user does
    MaxOutside,     \* bound: changes from outside of the window
    MaxLostPosts    \* bound: messages that cannot be posted

VARIABLES
    config,         \* model.config
    registered,     \* the hotkeys Windows knows, or none
    attached,       \* the magnetic manager runs
    dialog,         \* the settings window: [draft, last_applied, unapplied, picker, behind]
    queue,          \* action_queue
    posts,          \* WM_APP_ACTION messages
    turn,           \* actions that process_actions may still take
    lostPosts,
    saves,          \* the channel of the save worker
    saver,          \* what the save worker does: [at, config]
    disk,           \* the configuration in the file
    app,            \* "running", "joining" (waits for the save worker), "ended", "unsaved"
    applied,        \* what the user asked for last: [look, hotkeys, undone]
    edits

vars == <<config, registered, attached, dialog, queue, posts, turn, lostPosts, saves, saver, disk,
          app, applied, edits>>

(* `picker` holds the colour that the open colour dialog started with.  While it is open the  *)
(* state of the window is lent to the handler that waits for it.                              *)
(* `behind` and `undone` serve the properties alone: which parts of the window a command left *)
(* behind ("draft", "applied": their look; "magnetic"), and whether the window took back what *)
(* a command had changed.                                                                     *)

NoDialog == [open |-> FALSE]
None == 0

Init ==
    \E c \in [look : Looks, hotkeys : Hotkeys, magnetic : {FALSE}, outside : {0}] :
        /\ config = c /\ disk = c /\ applied = [look |-> c.look, hotkeys |-> c.hotkeys, undone |-> FALSE]
        /\ registered \in {c.hotkeys, None}
        /\ attached = FALSE /\ dialog = NoDialog
        /\ queue = << >> /\ posts = 0 /\ turn = 0 /\ lostPosts = 0
        /\ saves = << >> /\ saver \in {[at |-> "waiting"], [at |-> "failed"]}
        /\ app = "running" /\ edits = 0

-----------------------------------------------------------------------------
(* AppActionSender                                                         *)

Posted ==
    \/ posts' = posts + 1 /\ UNCHANGED lostPosts
    \/ lostPosts < MaxLostPosts /\ lostPosts' = lostPosts + 1 /\ UNCHANGED posts

Preview(draft) == [kind |-> "preview", draft |-> draft]
Commit(draft) == [kind |-> "commit", draft |-> draft]
Closed == [kind |-> "closed"]

Sends(action) == queue' = Append(queue, action) /\ Posted

\* preview_settings: a preview that still waits at the end takes the newer draft.
Previews(draft) ==
    IF queue # << >> /\ queue[Len(queue)].kind = "preview"
    THEN queue' = [queue EXCEPT ![Len(queue)] = Preview(draft)] /\ UNCHANGED <<posts, lostPosts>>
    ELSE Sends(Preview(draft))

-----------------------------------------------------------------------------
(* The settings window                                                     *)

User == app = "running" /\ edits < MaxEdits /\ edits' = edits + 1

\* Commands reach the application behind the messages that were posted before.
OpenSettings ==
    /\ User /\ ~dialog.open /\ posts = 0 /\ turn = 0
    /\ dialog' = [open |-> TRUE, draft |-> config, last_applied |-> config, unapplied |-> FALSE,
                  picker |-> {}, behind |-> {}]
    /\ UNCHANGED <<turn, config, registered, attached, queue, posts, lostPosts, saves, saver, disk, app,
                   applied>>

Lent == dialog.picker # {}

\* A draft that the window previews shows what the draft has; what a command changed goes.
Taken == applied' = [applied EXCEPT !.undone = @ \/ "applied" \in dialog.behind]

\* apply_settings_change
Edit(draft) ==
    /\ User /\ draft # dialog.draft
    /\ dialog' = [dialog EXCEPT !.draft = draft, !.unapplied = TRUE, !.behind = @ \ {"draft"}]
    /\ Previews(draft) /\ Taken
    /\ UNCHANGED <<turn, config, registered, attached, saves, saver, disk, app>>

\* A control of the window changes one setting.
ControlChanged ==
    /\ dialog.open /\ ~Lent
    /\ \/ \E look \in Looks : Edit([dialog.draft EXCEPT !.look = look])
       \/ \E hotkeys \in Hotkeys : Edit([dialog.draft EXCEPT !.hotkeys = hotkeys])
       \/ Edit([dialog.draft EXCEPT !.magnetic = ~dialog.draft.magnetic])

\* show_live_color_dialog: its handler keeps the state of the window until the dialog ends.
OpenPicker ==
    /\ User /\ dialog.open /\ ~Lent
    /\ dialog' = [dialog EXCEPT !.picker = {dialog.draft.look}]
    /\ UNCHANGED <<turn, config, registered, attached, queue, posts, lostPosts, saves, saver, disk, app,
                   applied>>

\* The draft takes a colour, and a preview shows it; nothing happens to the one it has.
Takes(look) ==
    IF look = dialog.draft.look THEN UNCHANGED <<queue, posts, lostPosts, applied>>
    ELSE Previews([dialog.draft EXCEPT !.look = look]) /\ Taken

\* The colours that the draft is behind with once it has this one.
StillBehind(look) == IF look = dialog.draft.look THEN dialog.behind ELSE dialog.behind \ {"draft"}

\* on_color_change
PickColour ==
    /\ User /\ dialog.open /\ Lent
    /\ \E look \in Looks \ {dialog.draft.look} :
         /\ Takes(look)
         /\ dialog' = [dialog EXCEPT !.draft.look = look, !.behind = StillBehind(look)]
    /\ UNCHANGED <<turn, config, registered, attached, saves, saver, disk, app>>

\* The colour that was picked stays, or the one before the dialog comes back.
EndPicker ==
    /\ app = "running" /\ dialog.open /\ Lent
    /\ \E look \in {dialog.draft.look} \cup dialog.picker :
         /\ Takes(look)
         /\ dialog' = [dialog EXCEPT !.draft.look = look, !.behind = StillBehind(look),
                                     !.unapplied = @ \/ look \notin dialog.picker, !.picker = {}]
    /\ UNCHANGED <<turn, config, registered, attached, saves, saver, disk, app, edits>>

Apply ==
    /\ User /\ dialog.open /\ ~Lent /\ dialog.unapplied
    /\ dialog' = [dialog EXCEPT !.last_applied = dialog.draft, !.unapplied = FALSE,
                                !.behind = @ \ {"draft", "applied"}]
    /\ applied' = [look |-> dialog.draft.look, hotkeys |-> dialog.draft.hotkeys, undone |-> FALSE]
    /\ Sends(Commit(dialog.draft))
    /\ UNCHANGED <<turn, config, registered, attached, saves, saver, disk, app>>

\* discard_unapplied_changes
Discarded ==
    IF dialog.unapplied THEN Previews(dialog.last_applied)
    ELSE UNCHANGED <<queue, posts, lostPosts>>

\* WM_CLOSE gives back what was not applied; while the state is lent it is put back.
CloseSettings ==
    /\ User /\ dialog.open /\ ~Lent /\ dialog.unapplied
    /\ Discarded /\ Taken
    /\ dialog' = [dialog EXCEPT !.draft = dialog.last_applied, !.unapplied = FALSE,
                                !.behind = @ \ {"draft"}]
    /\ UNCHANGED <<turn, config, registered, attached, saves, saver, disk, app>>

\* The window is destroyed after WM_CLOSE.
DestroySettings ==
    /\ app = "running" /\ dialog.open /\ ~Lent /\ ~dialog.unapplied
    /\ dialog' = NoDialog
    /\ Sends(Closed)
    /\ UNCHANGED <<turn, config, registered, attached, saves, saver, disk, app, applied, edits>>

-----------------------------------------------------------------------------
(* AppModel::update and run_effects.  A step of the application leaves a    *)
(* state m of [config, registered, attached, draft, saves].                *)

Model == [config |-> config, registered |-> registered, attached |-> attached,
          dialog |-> dialog, saves |-> saves]

Leaves(m) ==
    /\ config' = m.config /\ registered' = m.registered /\ attached' = m.attached
    /\ dialog' = m.dialog /\ saves' = m.saves

\* Effect::SaveConfig; a worker that never started takes nothing.
SaveConfig(m) ==
    IF saver.at = "failed" THEN m ELSE [m EXCEPT !.saves = Append(@, m.config)]

\* sync_magnetic_checkbox: the draft of the window that is open learns what holds, unless its
\* state is lent: with_state leaves the draft alone then.
CheckboxSynced(m) ==
    CASE ~m.dialog.open -> m
      [] m.dialog.open /\ m.dialog.picker = {} ->
            [m EXCEPT !.dialog.draft.magnetic = m.config.magnetic,
                      !.dialog.behind = @ \ {"magnetic"}]
      [] OTHER ->
            [m EXCEPT !.dialog.behind = IF m.dialog.draft.magnetic = m.config.magnetic
                                        THEN @ \ {"magnetic"} ELSE @ \cup {"magnetic"}]

\* set_magnetic_enabled: it may fail to start.
MagneticSet(m, enabled) ==
    {[m EXCEPT !.attached = enabled, !.config.magnetic = enabled]}
    \cup IF enabled /\ ~m.attached THEN {[m EXCEPT !.config.magnetic = FALSE]} ELSE {}

\* sync_window_state asks for a save when magnetism changed.
Synced(m) ==
    {IF n.attached # m.attached \/ n.config.magnetic # m.config.magnetic
     THEN SaveConfig(CheckboxSynced(n)) ELSE CheckboxSynced(n) :
        n \in MagneticSet(m, m.config.magnetic)}

\* reregister_hotkeys: all of them, or none when another program holds one.
Reregistered(m) ==
    {[m EXCEPT !.registered = m.config.hotkeys], [m EXCEPT !.registered = None]}

(* Mutant: the hotkeys of the draft are previewed, too. *)
PreviewedWithHotkeys(m, draft) == [m.config EXCEPT !.look = draft.look, !.magnetic = draft.magnetic,
                                                  !.hotkeys = draft.hotkeys]

\* PreviewSettings keeps what is registered and what comes from outside.
Previewed(m, draft) == [m.config EXCEPT !.look = draft.look, !.magnetic = draft.magnetic]

\* CommitSettings keeps what comes from outside.
Committed(m, draft) == [draft EXCEPT !.outside = m.config.outside]

Updated(m, action) ==
    CASE action.kind = "preview" -> Synced([m EXCEPT !.config = Previewed(m, action.draft)])
      [] action.kind = "commit" ->
            LET new == Committed(m, action.draft)
                saved == {SaveConfig(n) : n \in Synced([m EXCEPT !.config = new])}
            IN  IF new.hotkeys = m.config.hotkeys THEN saved
                ELSE UNION {Reregistered(n) : n \in saved}
      [] OTHER -> {m}

\* The previews that wait one behind the other at the front.
Leading(q) ==
    CHOOSE n \in 0..Len(q) :
        /\ \A i \in 1..n : q[i].kind = "preview"
        /\ n < Len(q) => q[n + 1].kind # "preview"

\* Of them the last is taken.
Front(q) == IF Leading(q) > 1 THEN Leading(q) ELSE 1

\* process_actions
BeginTurn ==
    /\ app = "running" /\ turn = 0 /\ posts > 0
    /\ turn' = (IF queue = << >> THEN 0 ELSE BatchSize) /\ posts' = posts - 1
    /\ UNCHANGED <<config, registered, attached, dialog, queue, lostPosts, saves, saver, disk,
                   app, applied, edits>>

\* One action of the turn; what is left over asks for another turn.  A box about hotkeys
\* lets the settings window go on between two actions.
ProcessAction ==
    /\ app = "running" /\ turn > 0 /\ queue # << >>
    /\ \E m \in Updated(Model, queue[Front(queue)]) : Leaves(m)
    /\ queue' = SubSeq(queue, Front(queue) + 1, Len(queue))
    /\ IF queue' = << >> THEN turn' = 0 /\ UNCHANGED <<posts, lostPosts>>
       ELSE turn' = turn - 1 /\ IF turn = 1 THEN Posted ELSE UNCHANGED <<posts, lostPosts>>
    /\ UNCHANGED <<saver, disk, app, applied, edits>>

\* The user's command for magnetism: update_command and apply_magnetic_request.
ToggleMagnetic ==
    /\ User /\ posts = 0 /\ turn = 0
    /\ \E m \in MagneticSet(Model, ~config.magnetic) : Leaves(SaveConfig(CheckboxSynced(m)))
    /\ UNCHANGED <<turn, queue, posts, lostPosts, saver, disk, app, applied>>

\* The user's commands for the text size, the background, the border and click-through: the
\* draft of the open window is not told.  An action whose message was lost follows later.
ChangeLook ==
    /\ User /\ posts = 0 /\ turn = 0
    /\ \E look \in Looks \ {config.look} :
         /\ config' = [config EXCEPT !.look = look]
         /\ applied' = [applied EXCEPT !.look = look, !.undone = queue # << >>]
    /\ dialog' = IF dialog.open THEN [dialog EXCEPT !.behind = @ \cup {"draft", "applied"}] ELSE dialog
    /\ UNCHANGED <<turn, registered, attached, queue, posts, lostPosts, saves, saver, disk, app>>

\* UpdateCheckSettled, SetTranslationRoute, SaveHookProfile and SetHookMergeWindow.
ChangeOutside ==
    /\ app = "running" /\ config.outside < MaxOutside
    /\ Leaves(SaveConfig([Model EXCEPT !.config.outside = @ + 1]))
    /\ UNCHANGED <<turn, queue, posts, lostPosts, saver, disk, app, applied, edits>>

-----------------------------------------------------------------------------
(* ConfigSaveWorker                                                        *)

\* The newest configuration that waits; the ones before it are passed over.
Receive ==
    /\ saver.at = "waiting" /\ saves # << >>
    /\ saver' = [at |-> "saving", config |-> saves[Len(saves)]]
    /\ saves' = << >>
    /\ UNCHANGED <<turn, config, registered, attached, dialog, queue, posts, lostPosts, disk, app,
                   applied, edits>>

\* Config::save replaces the file as a whole, or fails.
Save ==
    /\ saver.at = "saving"
    /\ disk' \in {saver.config, disk}
    /\ saver' = [at |-> "waiting"]
    /\ UNCHANGED <<turn, config, registered, attached, dialog, queue, posts, lostPosts, saves, app,
                   applied, edits>>

\* The channel is closed and empty.
SaverEnds ==
    /\ saver.at = "waiting" /\ saves = << >> /\ app = "joining"
    /\ saver' = [at |-> "ended"]
    /\ UNCHANGED <<turn, config, registered, attached, dialog, queue, posts, lostPosts, saves, disk,
                   app, applied, edits>>

Saver == Receive \/ Save \/ SaverEnds

-----------------------------------------------------------------------------
(* Leaving                                                                 *)

\* The main window is destroyed, and the settings window with it: it says that it closed,
\* but nothing is handled any more.  Then AppCleanupGuard closes the save worker.
Exit ==
    /\ app = "running" /\ posts = 0 /\ turn = 0
    /\ app' = "joining"
    /\ dialog' = [dialog EXCEPT !.open = FALSE]
    /\ UNCHANGED <<turn, config, registered, attached, queue, posts, lostPosts, saves, saver, disk,
                   applied, edits>>

(* Mutant: the last configuration is saved once the worker is between two saves. *)
SavesMayFollow == saver.at # "saving"

\* config_save.shutdown has joined the worker.
NoSaveFollows == saver.at \in {"ended", "failed"}

\* The configuration is saved once more, last.
SaveLast ==
    /\ app = "joining" /\ NoSaveFollows
    /\ \/ app' = "ended" /\ disk' = config
       \/ app' = "unsaved" /\ UNCHANGED disk
    /\ registered' = None
    /\ UNCHANGED <<turn, config, attached, dialog, queue, posts, lostPosts, saves, saver, applied, edits>>

-----------------------------------------------------------------------------
Drafts == [look : Looks, hotkeys : Hotkeys, magnetic : BOOLEAN, outside : 0..MaxOutside]

App == BeginTurn \/ ProcessAction \/ DestroySettings \/ SaveLast

Next ==
    \/ OpenSettings \/ Apply \/ CloseSettings \/ ToggleMagnetic \/ ChangeLook \/ ChangeOutside
    \/ Exit \/ ControlChanged \/ OpenPicker \/ PickColour \/ EndPicker
    \/ App \/ Saver

Spec == Init /\ [][Next]_vars /\ WF_vars(App) /\ WF_vars(Saver)

-----------------------------------------------------------------------------
(* Properties                                                              *)

TypeOK ==
    /\ config \in Drafts /\ disk \in Drafts
    /\ registered \in Hotkeys \cup {None} /\ attached \in BOOLEAN
    /\ Len(queue) <= MaxEdits + 1 /\ lostPosts <= MaxLostPosts

\* When nothing waits, the configuration, what the window shows, what Windows has registered
\* and what the user asked for last are in agreement, however previews, applied drafts,
\* picked colours, commands and failures followed each other.  Two things are excepted, both
\* of them commands beside an open window: the draft is behind a command that it was not told
\* of until the window previews again, and that preview undoes the command.
Agrees ==
    app = "running" /\ queue = << >> =>
        /\ registered \in {config.hotkeys, None} /\ config.hotkeys = applied.hotkeys
        /\ config.magnetic = attached
        /\ dialog.open =>
             /\ "magnetic" \notin dialog.behind => dialog.draft.magnetic = config.magnetic
             /\ "draft" \notin dialog.behind => dialog.draft.look = config.look
             /\ "draft" \in dialog.behind /\ ~applied.undone => config.look = applied.look
        /\ ~dialog.open /\ ~applied.undone => config.look = applied.look

\* So they are always, and no change from outside is lost to the draft of a window that was
\* opened before it.
ConfigAgrees == [][Agrees' /\ config'.outside >= config.outside]_vars

\* Leaving comes to its end, and then the file holds the last configuration for good: no save
\* that was asked for earlier comes after it.
LastConfigSaved ==
    app = "joining" ~> [](app = "unsaved" \/ (app = "ended" /\ disk = config))

\* What the user did not apply is not what the next start reads.
OnlyAppliedIsSaved ==
    app = "ended" /\ queue = << >> /\ ~applied.undone => disk.look = applied.look
=============================================================================
