---------------------------- MODULE MagneticMode ----------------------------
(***************************************************************************)
(* The magnetic mode (magnetic.rs, app/commands/magnetic.rs): the overlay  *)
(* follows a window of another program.  The system's events about windows *)
(* reach a callback on the UI thread, which posts to the overlay: the      *)
(* window that the user brought to the front becomes the target, and moves *)
(* of the target are followed, several by one message.                     *)
(***************************************************************************)
EXTENDS Naturals, Integers, Sequences

CONSTANTS
    Target,         \* windows of other programs
    Places,         \* where a window may be
    MaxEvents,      \* bound: what the user does to windows of other programs
    MaxRequests,    \* bound: commands and settings
    MaxFaults       \* bound: calls that fail

VARIABLES
    config,     \* [magnetic_mode, magnetic_minimize, window_visible]
    magnetic,   \* the manager: its copy of window_visible, or NoManager
    state,      \* MAGNETIC_INSTANCE, or NoState
    notice,     \* overlay_notice
    overlay,    \* [at, shown, adrift, untold]: adrift when it was dragged, or a message was
                \* lost; untold when the tray icon showed it and the manager was not told
    target,     \* of each window: [at, minimized, closed]
    events,     \* events of windows on their way to the callback
    posts,      \* messages to the overlay
    moves, requests, faults

vars == <<config, magnetic, state, notice, overlay, target, events, posts, moves, requests, faults>>
world == <<target, events, moves>>

NoManager == [exists |-> FALSE]
NoState == [exists |-> FALSE]
Away == -9      \* where the system puts a window that is minimized

MagneticState ==
    [exists |-> TRUE, target |-> "none", selecting |-> FALSE, moving |-> FALSE,
     minimized |-> FALSE, offset |-> 0, minimize |-> config'.magnetic_minimize,
     visible |-> config'.window_visible]

Init ==
    /\ config \in [magnetic_mode : {FALSE}, magnetic_minimize : BOOLEAN, window_visible : {TRUE}]
    /\ magnetic = NoManager /\ state = NoState /\ notice = "none"
    /\ overlay = [at |-> 0, shown |-> TRUE, adrift |-> FALSE, untold |-> FALSE]
    /\ target = [w \in Target |-> [at |-> 1, minimized |-> FALSE, closed |-> FALSE]]
    /\ events = << >> /\ posts = << >>
    /\ moves = 0 /\ requests = 0 /\ faults = 0

\* GetWindowRect.
Rect(w) == IF target[w].minimized THEN Away ELSE target[w].at
Fails == faults < MaxFaults /\ faults' = faults + 1

-----------------------------------------------------------------------------
(* The windows of other programs.                                          *)

Event(kind, w) == [kind |-> kind, window |-> w]

Acts(w) ==
    /\ moves < MaxEvents /\ moves' = moves + 1
    /\ ~target[w].closed
    /\ UNCHANGED <<config, magnetic, state, notice, overlay, posts, requests, faults>>

ToFront(w) ==
    /\ Acts(w) /\ ~target[w].minimized
    /\ events' = Append(events, Event("foreground", w))
    /\ UNCHANGED target

MoveTarget(w, at) ==
    /\ Acts(w) /\ ~target[w].minimized /\ at # target[w].at
    /\ target' = [target EXCEPT ![w].at = at]
    /\ events' = Append(events, Event("location", w))

\* The system tells of the minimizing before it moves the window away, and of the end of it
\* before it moves the window back.
Minimize(w) ==
    /\ Acts(w)
    /\ target' = [target EXCEPT ![w].minimized = ~@]
    /\ events' = events \o
         <<Event(IF target[w].minimized THEN "restored" ELSE "minimized", w),
           Event("location", w)>>

Close(w) ==
    /\ Acts(w)
    /\ target' = [target EXCEPT ![w].closed = TRUE]
    /\ UNCHANGED events

-----------------------------------------------------------------------------
(* The callback.                                                           *)

Post(msg) ==
    \/ posts' = Append(posts, msg) /\ UNCHANGED faults
    \/ Fails /\ UNCHANGED posts

Posted == posts' # posts

\* is_external_target_window.
Usable(w) == ~target[w].closed

Select(w) ==
    IF state.target # "none" \/ state.selecting \/ ~Usable(w)
    THEN UNCHANGED <<state, overlay, posts, faults>>
    ELSE /\ Post([kind |-> "selected", window |-> w])
         /\ state' = [state EXCEPT !.selecting = Posted]
         /\ UNCHANGED overlay

LocationChanged(w) ==
    IF w # state.target \/ state.minimized \/ state.moving
    THEN UNCHANGED <<state, overlay, posts, faults>>
    ELSE /\ Post([kind |-> "reposition"])
         /\ state' = [state EXCEPT !.moving = Posted]
         /\ overlay' = [overlay EXCEPT !.adrift = @ \/ ~Posted]

MinimizeStart(w) ==
    IF w # state.target \/ ~state.minimize
    THEN UNCHANGED <<state, overlay, posts, faults>>
    ELSE /\ state' = [state EXCEPT !.minimized = TRUE]
         /\ overlay' = [overlay EXCEPT !.shown = FALSE]
         /\ UNCHANGED <<posts, faults>>

\* A window that is closed has no place any more.
Repositioned(s, o) ==
    IF target[s.target].closed THEN o
    ELSE [o EXCEPT !.at = Rect(s.target) + s.offset, !.adrift = FALSE]

MinimizeEnd(w) ==
    IF w # state.target \/ ~state.minimized
    THEN UNCHANGED <<state, overlay, posts, faults>>
    ELSE /\ state' = [state EXCEPT !.minimized = FALSE]
         /\ overlay' = Repositioned(state, [overlay EXCEPT !.shown = @ \/ state.visible])
         /\ UNCHANGED <<posts, faults>>

Callback ==
    /\ events # << >>
    /\ events' = Tail(events)
    /\ LET event == Head(events) w == event.window
       IN  IF ~state.exists THEN UNCHANGED <<state, overlay, posts, faults>>
           ELSE \/ event.kind = "foreground" /\ Select(w)
                \/ event.kind = "location" /\ LocationChanged(w)
                \/ event.kind = "minimized" /\ MinimizeStart(w)
                \/ event.kind = "restored" /\ MinimizeEnd(w)
    /\ UNCHANGED <<config, magnetic, notice, target, moves, requests>>

-----------------------------------------------------------------------------
(* The application.  o is the overlay as an earlier step left it.          *)

\* stop(): the overlay is shown if the manager remembers that it should be.
Stopped(o) == [o EXCEPT !.shown = @ \/ (magnetic.exists /\ magnetic.visible)]

ClearedNotice(o) == IF notice = "none" THEN o ELSE [o EXCEPT !.shown = config'.window_visible]

StopMagnetic(o) ==
    /\ magnetic' = NoManager /\ state' = NoState
    /\ notice' = "none"
    /\ overlay' = ClearedNotice(Stopped(o))

\* show_overlay_notice; the notice of an attached target ends by a timer, or at once when there
\* is no timer.
ShowNotice(kind, o) ==
    \/ notice' = kind /\ overlay' = [o EXCEPT !.shown = TRUE] /\ UNCHANGED faults
    \/ /\ kind = "attached" /\ Fails
       /\ notice' = "none"
       /\ overlay' = [o EXCEPT !.shown = config'.window_visible]

\* set_magnetic_enabled, for what it changes of the configuration and of the overlay.
SetMagnetic(enabled) ==
    IF enabled = magnetic.exists
    THEN config'.magnetic_mode = enabled /\ UNCHANGED <<magnetic, state, notice, overlay, faults>>
    ELSE IF enabled
    THEN \/ /\ config'.magnetic_mode
            /\ magnetic' = [exists |-> TRUE, visible |-> config'.window_visible]
            /\ state' = MagneticState
            /\ ShowNotice("select", [overlay EXCEPT !.untold = FALSE])
         \/ /\ ~config'.magnetic_mode /\ Fails          \* no hook
            /\ UNCHANGED <<magnetic, state, notice, overlay>>
         \/ /\ ~config'.magnetic_mode /\ Fails          \* capture does not pause
            /\ UNCHANGED <<magnetic, state>>
            /\ notice' = "none"
            /\ overlay' = [overlay EXCEPT !.shown = config'.window_visible]
    ELSE ~config'.magnetic_mode /\ StopMagnetic(overlay) /\ UNCHANGED faults

Request ==
    /\ requests < MaxRequests /\ requests' = requests + 1
    /\ UNCHANGED <<world, posts>>

SameSettings ==
    /\ config'.magnetic_minimize = config.magnetic_minimize
    /\ config'.window_visible = config.window_visible

Configs == [magnetic_mode : BOOLEAN, magnetic_minimize : BOOLEAN, window_visible : BOOLEAN]

\* The menu, or the box of the settings window.
ToggleMagnetic ==
    /\ Request
    /\ config' \in Configs /\ SameSettings
    /\ SetMagnetic(~config.magnetic_mode)

Policy(visible) ==
    /\ magnetic' = IF magnetic.exists THEN [magnetic EXCEPT !.visible = visible] ELSE magnetic
    /\ state' = IF state.exists
                THEN [state EXCEPT !.minimize = config'.magnetic_minimize, !.visible = visible]
                ELSE state

ToggleVisible ==
    /\ Request
    /\ config' = [config EXCEPT !.window_visible = ~@]
    /\ overlay' = [overlay EXCEPT !.shown = config'.window_visible, !.untold = FALSE]
    /\ Policy(config'.window_visible)
    /\ UNCHANGED <<notice, faults>>

\* Settings whose mode is the present one: sync_window_state.
ChangeMinimize ==
    /\ Request
    /\ config' = [config EXCEPT !.magnetic_minimize = ~@]
    /\ overlay' = [overlay EXCEPT !.shown = config.window_visible \/ notice # "none",
                                  !.untold = FALSE]
    /\ Policy(config.window_visible)
    /\ UNCHANGED <<notice, faults>>

\* A click on the tray icon; the manager is not told.
TrayClick ==
    /\ Request
    /\ config' = [config EXCEPT !.window_visible = TRUE]
    /\ overlay' = [overlay EXCEPT !.shown = TRUE,
                                  !.untold = @ \/ (magnetic.exists /\ ~magnetic.visible)]
    /\ UNCHANGED <<magnetic, state, notice, faults>>

DragOverlay ==
    /\ Request
    /\ overlay.shown
    /\ overlay' = [overlay EXCEPT !.at = @ + 1, !.adrift = TRUE]
    /\ UNCHANGED <<config, magnetic, state, notice, faults>>

-----------------------------------------------------------------------------
Receive(kind) ==
    /\ posts # << >> /\ Head(posts).kind = kind
    /\ posts' = Tail(posts)
    /\ UNCHANGED <<world, requests>>

Attached(w) ==
    [state EXCEPT !.target = w, !.selecting = FALSE, !.moving = FALSE, !.minimized = FALSE,
                  !.offset = overlay.at - Rect(w)]

\* Capture that does not pause for the notice ends the mode, as a target that is gone does.
TargetSelected ==
    /\ Receive("selected")
    /\ LET w == Head(posts).window
       IN  \/ ~config.magnetic_mode /\ UNCHANGED <<config, magnetic, state, notice, overlay, faults>>
           \/ /\ config.magnetic_mode /\ Usable(w)
              /\ state' = Attached(w)
              /\ UNCHANGED <<config, magnetic>>
              /\ ShowNotice("attached", [overlay EXCEPT !.adrift = FALSE])
           \/ /\ config.magnetic_mode /\ Usable(w) /\ Fails
              /\ config' = [config EXCEPT !.magnetic_mode = FALSE]
              /\ magnetic' = NoManager /\ state' = NoState /\ notice' = "none"
              /\ overlay' = Stopped([overlay EXCEPT !.shown = config'.window_visible])
           \/ /\ config.magnetic_mode /\ ~Usable(w) /\ UNCHANGED faults
              /\ config' = [config EXCEPT !.magnetic_mode = FALSE]
              /\ StopMagnetic(overlay)

(* Mutant: a move that comes while the target is minimized leaves the flag up. *)
RepositionUnlessMinimized ==
    /\ Receive("reposition")
    /\ IF ~state.exists \/ state.minimized \/ state.target = "none"
       THEN UNCHANGED <<state, overlay>>
       ELSE /\ state' = [state EXCEPT !.moving = FALSE]
            /\ overlay' = Repositioned(state, overlay)
    /\ UNCHANGED <<config, magnetic, notice, faults>>

ApplyReposition ==
    /\ Receive("reposition")
    /\ IF ~state.exists THEN UNCHANGED <<state, overlay>>
       ELSE /\ state' = [state EXCEPT !.moving = FALSE]
            /\ overlay' = IF state.minimized \/ state.target = "none" THEN overlay
                          ELSE Repositioned(state, overlay)
    /\ UNCHANGED <<config, magnetic, notice, faults>>

NoticeTimer ==
    /\ notice = "attached"
    /\ notice' = "none"
    /\ overlay' = [overlay EXCEPT !.shown = config.window_visible]
    /\ UNCHANGED <<config, magnetic, state, world, posts, requests, faults>>

World ==
    \E w \in Target : ToFront(w) \/ (\E at \in Places : MoveTarget(w, at)) \/ Minimize(w) \/ Close(w)

User == ToggleMagnetic \/ ToggleVisible \/ ChangeMinimize \/ TrayClick \/ DragOverlay

Next == World \/ Callback \/ User \/ TargetSelected \/ ApplyReposition \/ NoticeTimer

Spec == Init /\ [][Next]_vars

-----------------------------------------------------------------------------
Awaited(kind) == \E i \in 1..Len(posts) : posts[i].kind = kind

\* While something holds back further messages, the message that ends it is on its way.
FlagsHavePosts ==
    state.exists =>
        /\ state.selecting => Awaited("selected")
        /\ state.moving => Awaited("reposition")

\* When nothing is on its way, the overlay is where it was put beside its target, wherever
\* the target went meanwhile; unless it was dragged since or a message was lost.
FollowsTarget ==
    (/\ state.exists /\ state.target # "none" /\ ~state.minimized
     /\ ~target[state.target].closed
     /\ events = << >> /\ posts = << >> /\ ~overlay.adrift)
        => overlay.at = Rect(state.target) + state.offset

\* An overlay that should be visible is hidden only along with its target: not once the target
\* is back, and not when the mode has ended.  A click on the tray icon is not told to a manager
\* that keeps the overlay hidden; it may hide it again and leave it so.
ComesBack ==
    (config.window_visible /\ ~overlay.shown /\ events = << >> /\ ~overlay.untold)
        => /\ state.exists /\ state.target # "none" /\ state.minimized
           /\ (target[state.target].minimized \/ target[state.target].closed)
=============================================================================
