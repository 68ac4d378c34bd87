--------------------------- MODULE OverlayWindow ---------------------------
(***************************************************************************)
(* The overlay window (app/window_proc.rs, window_proc_handlers.rs,        *)
(* paint.rs, d2d/composition.rs): messages that arrive while a handler     *)
(* holds the application are deferred and handled when it is free; sizes   *)
(* and resolutions reach the model, the swap chain and the picture; the    *)
(* picture is drawn again after every failure of the render stack.         *)
(*                                                                         *)
(* What a handler may do to the picture is a function from a state of the  *)
(* application to the set of states it may leave.                          *)
(***************************************************************************)
EXTENDS Naturals, Sequences

CONSTANTS
    Sizes,          \* sizes of the client area, without the empty one
    Dpis,           \* resolutions of the monitors
    BatchSize,      \* DEFERRED_BATCH_SIZE
    DragMayReturn,  \* a drag may pass the size that it began with again
    DpiMayKeepSize, \* a new resolution may come without a new size while a handler runs
    MaxDeferred,    \* bound: messages deferred at once
    MaxEvents,      \* bound: what the user and the system do
    MaxFaults       \* bound: calls that fail, and frames that are not ready

VARIABLES
    window,     \* Windows' own: [size, dpi, invalid, drag]
    app,        \* the application and its render stack
    ui,         \* [mode, batch]: "idle", "busy" (a handler waits in a menu or a box), "draining"
    deferred,   \* DEFERRED_MESSAGES
    drains,     \* posted WM_APP_DRAIN_DEFERRED
    overtaken,  \* a message was handled before an older one that is deferred
    quit,       \* WM_DESTROY has come
    events

vars == <<window, app, ui, deferred, drains, overtaken, quit, events>>

None == [kind |-> "none"]
Msg(kind) == [kind |-> kind]
SizeMsg(size) == [kind |-> "size", size |-> size]
Idle == [mode |-> "idle", batch |-> 0]

\* The picture holds what was shown last: text, size and resolution.
Init ==
    \E size \in Sizes, dpi \in Dpis :
        /\ window = [size |-> size, dpi |-> dpi, invalid |-> TRUE, drag |-> FALSE]
        /\ app = [client |-> size, resizing |-> FALSE, pending |-> 0, placement |-> 0,
                  stack |-> None, stackRetry |-> FALSE, frameRetry |-> FALSE,
                  timers |-> {}, invalidated |-> FALSE, text |-> 0, shown |-> None,
                  stranded |-> FALSE, faults |-> 0]
        /\ ui = Idle /\ deferred = << >> /\ drains = 0
        /\ overtaken = FALSE /\ quit = FALSE /\ events = 0

-----------------------------------------------------------------------------
(* Painting.  w is the window while a handler runs.                        *)

Faulted(a) == [a EXCEPT !.faults = @ + 1]
May(a) == a.faults < MaxFaults

(* Mutant: nothing asks Windows for a picture after the stack is dropped. *)
RecoveredSilently(a) == [a EXCEPT !.stack = None]

\* The stack is dropped, and drawn anew when Windows asks for a picture again.
Recovered(a) == [a EXCEPT !.stack = None, !.invalidated = TRUE]

\* The swap chain of a new stack has the size of the window.
NewStack(w) == [size |-> w.size, dpi |-> 0]

\* The swap chain follows, or it fails half way and the stack is dropped.
ResizedStack(a, size) ==
    {[a EXCEPT !.stack.size = size]}
    \cup (IF May(a) THEN {[Faulted(a) EXCEPT !.stack = None]} ELSE {})

\* ensure_composition_ready: when a stack cannot be made a timer tries again -
\* if there is a timer.
EnsureStack(a, w) ==
    IF a.stack # None \/ a.stackRetry THEN {a}
    ELSE {[a EXCEPT !.stack = NewStack(w)]}
         \cup (IF May(a) THEN {[Faulted(a) EXCEPT !.stackRetry = TRUE,
                                                 !.timers = @ \cup {"stack"}],
                               [Faulted(a) EXCEPT !.stranded = TRUE]}
                         ELSE {})

\* The frame of the model's size and the window's resolution, on the screen.
Frame(a, w) == [text |-> a.text, size |-> a.client, dpi |-> w.dpi]

\* build_frame_plan and the rest of paint: the back buffer is ready, or a timer tries again, or
\* a step fails and the stack is dropped.
DrawFrame(a, w) ==
    IF a.stack = None THEN {a}
    ELSE LET b == [a EXCEPT !.stack.dpi = w.dpi]
         IN  {[b EXCEPT !.shown = Frame(a, w), !.stranded = FALSE]}
             \cup (IF May(a) THEN {[Faulted(b) EXCEPT !.frameRetry = TRUE,
                                                     !.timers = @ \cup {"frame"}],
                                   [Faulted(b) EXCEPT !.invalidated = TRUE],
                                   Recovered(Faulted(b))}
                             ELSE {})

Paint(a, w) ==
    IF a.frameRetry THEN {a} ELSE UNION {DrawFrame(b, w) : b \in EnsureStack(a, w)}

\* The second half of resize: the swap chain follows, or the stack is dropped.
Rebuild(a, size, w) ==
    LET b == [a EXCEPT !.client = size]
    IN  UNION {Paint(c, w) :
                 c \in IF b.stack = None THEN {b} ELSE ResizedStack(b, size)}

Resize(a, size, w) ==
    IF a.client = size THEN {a}
    ELSE IF a.resizing THEN {[a EXCEPT !.pending = size]}
    ELSE Rebuild(a, size, w)

-----------------------------------------------------------------------------
(* dispatch_message: what a handler leaves, for the messages that touch    *)
(* the picture                                                             *)

ExitSizeMove(a, w) ==
    LET b == [a EXCEPT !.resizing = FALSE, !.pending = 0, !.placement = w.size]
    IN  IF a.pending # 0 THEN Resize(b, a.pending, w)
        ELSE UNION {Paint(c, w) : c \in Resize(b, w.size, w)}

\* The rectangle has been applied, and its WM_SIZE deferred.
DpiChanged(a, w) ==
    IF a.resizing THEN {a}
    ELSE IF a.client # w.size THEN Resize(a, w.size, w) ELSE Paint(a, w)

TimerTick(a, timer, w) ==
    Paint(IF timer = "stack" THEN [a EXCEPT !.timers = @ \ {"stack"}, !.stackRetry = FALSE]
          ELSE [a EXCEPT !.timers = @ \ {"frame"}, !.frameRetry = FALSE], w)

Handled(a, m, w) ==
    CASE m.kind = "size" -> Resize(a, m.size, w)
      [] m.kind = "enter" -> {[a EXCEPT !.resizing = TRUE]}
      [] m.kind = "exit" -> ExitSizeMove(a, w)
      [] m.kind = "dpi" -> DpiChanged(a, w)
      [] m.kind = "paint" -> Paint(a, w)
      [] m.kind = "refresh" -> Paint([a EXCEPT !.text = 1 - @], w)
      [] m.kind \in {"stack", "frame"} -> TimerTick(a, m.kind, w)
      [] m.kind = "deferred resize" -> Resize(a, w.size, w)
      [] OTHER -> {a}

\* WM_COMMAND and the like: the handler waits in a loop of its own.
Waits(m) == m.kind = "command"

\* InvalidateRect reaches the window when the handler calls it.
Leaves(a, w) ==
    /\ app' = [a EXCEPT !.invalidated = FALSE]
    /\ window' = [w EXCEPT !.invalid = @ \/ a.invalidated]

-----------------------------------------------------------------------------
(* wndproc and handle_reentry                                              *)

CanDefer(n) == Len(deferred) + n <= MaxDeferred

\* What is left of a message that arrives while the application is borrowed.
Reentered(m) ==
    CASE m.kind = "dpi" -> Msg("deferred resize")
      [] OTHER -> m

Defers(ms) == deferred' = deferred \o ms

\* WM_SIZE of the rectangle that apply_dpi_rect sets: it is always deferred.
SizesOf(m, w) == IF m.kind = "dpi" /\ w.size # window.size THEN <<SizeMsg(w.size)>> ELSE << >>

\* Message m arrives when the window has become w.
Arrives(m, w) ==
    \/ /\ ui.mode = "busy" /\ CanDefer(2)
       /\ window' = w
       /\ Defers(SizesOf(m, w) \o <<Reentered(m)>>)
       /\ UNCHANGED <<app, ui, overtaken>>
    \/ /\ ui.mode = "idle" /\ CanDefer(1)
       /\ Defers(SizesOf(m, w))
       /\ overtaken' = (overtaken \/ (deferred # << >> /\ m.kind = "size"))
       /\ IF Waits(m)
            THEN Leaves(app, w) /\ ui' = [mode |-> "busy", batch |-> 0]
            ELSE /\ \E a \in Handled(app, m, w) : Leaves(a, w)
                 /\ ui' = [mode |-> "draining", batch |-> 0]

\* The handler that waited returns.
HandlerReturns ==
    /\ ui.mode = "busy" /\ ~quit
    /\ ui' = [ui EXCEPT !.mode = "draining"]
    /\ UNCHANGED <<window, app, deferred, drains, overtaken, quit, events>>

\* The loop takes at most BatchSize messages, whatever they defer anew.
BatchGoesOn == ui.batch < BatchSize

\* drain_deferred_messages: one message of the batch.
Drain ==
    /\ ui.mode = "draining" /\ ~quit
    /\ BatchGoesOn /\ deferred # << >>
    /\ LET m == Head(deferred)
       IN  /\ deferred' = Tail(deferred)
           /\ IF Waits(m)
                THEN Leaves(app, window) /\ ui' = [mode |-> "busy", batch |-> ui.batch + 1]
                ELSE /\ \E a \in Handled(app, m, window) : Leaves(a, window)
                     /\ ui' = [ui EXCEPT !.batch = @ + 1]
    /\ UNCHANGED <<drains, overtaken, quit, events>>

\* The batch ends; a message asks for the next one, unless it cannot be posted.
DrainEnds ==
    /\ ui.mode = "draining" /\ ~quit
    /\ deferred = << >> \/ ui.batch = BatchSize
    /\ ui' = Idle
    /\ IF deferred = << >> THEN UNCHANGED <<drains, app>>
       ELSE \/ drains' = drains + 1 /\ UNCHANGED app
            \/ /\ May(app) /\ app' = [Faulted(app) EXCEPT !.stranded = TRUE]
               /\ UNCHANGED drains
    /\ UNCHANGED <<window, deferred, overtaken, quit, events>>

DrainMessage ==
    /\ drains > 0 /\ ~quit /\ Arrives(Msg("drain"), window)
    /\ drains' = drains - 1 /\ UNCHANGED <<quit, events>>

\* WM_PAINT comes while something is invalid; BeginPaint validates it.
PaintMessage ==
    /\ window.invalid /\ ~quit
    /\ Arrives(Msg("paint"), [window EXCEPT !.invalid = FALSE])
    /\ UNCHANGED <<drains, quit, events>>

\* A timer goes on until it is killed, so more than one message may be deferred.
Tick(timer) ==
    /\ timer \in app.timers /\ ~quit
    /\ ~\E i \in 1..Len(deferred) : deferred[i].kind = timer
    /\ Arrives(Msg(timer), window)
    /\ UNCHANGED <<drains, quit, events>>

System ==
    \/ HandlerReturns \/ Drain \/ DrainEnds \/ DrainMessage \/ PaintMessage
    \/ \E timer \in {"stack", "frame"} : Tick(timer)

-----------------------------------------------------------------------------
(* The user and the rest of the desktop                                    *)

Event == ~quit /\ events < MaxEvents /\ events' = events + 1 /\ UNCHANGED <<drains, quit>>

\* A text has come: its handler paints.
Refresh == Event /\ Arrives(Msg("refresh"), window)

\* A menu or a message box opens; it keeps the window from being dragged.
OpenBox == Event /\ ui.mode = "idle" /\ ~window.drag /\ Arrives(Msg("command"), window)

BeginDrag ==
    /\ Event /\ ui.mode = "idle" /\ ~window.drag
    /\ Arrives(Msg("enter"), [window EXCEPT !.drag = TRUE])

Returns(size) == app.resizing /\ app.pending # 0 /\ size = app.client

DragTo(size) ==
    /\ Event /\ ui.mode = "idle" /\ window.drag
    /\ size # window.size /\ (DragMayReturn \/ ~Returns(size))
    /\ Arrives(SizeMsg(size), [window EXCEPT !.size = size])

\* The user need not let go.
EndDrag ==
    /\ ~quit /\ ui.mode = "idle" /\ window.drag
    /\ Arrives(Msg("exit"), [window EXCEPT !.drag = FALSE])
    /\ UNCHANGED <<drains, quit, events>>

\* WM_DPICHANGED: another monitor or another setting, with the size it recommends.
ChangeDpi(dpi, size) ==
    /\ Event /\ dpi # window.dpi
    /\ (DragMayReturn \/ ~Returns(size))
    /\ (DpiMayKeepSize \/ ui.mode = "idle" \/ size # window.size)
    /\ Arrives(Msg("dpi"), [window EXCEPT !.dpi = dpi, !.size = size])

\* WM_DESTROY drops what is deferred, whether a handler waits or not.
DestroyWindow ==
    /\ ~quit /\ quit' = TRUE /\ ui.mode \in {"idle", "busy"}
    /\ deferred' = << >>
    /\ UNCHANGED <<window, app, ui, drains, overtaken, events>>

Environment ==
    \/ Refresh \/ OpenBox \/ BeginDrag \/ EndDrag \/ DestroyWindow
    \/ \E size \in Sizes : DragTo(size)
    \/ \E dpi \in Dpis, size \in Sizes : ChangeDpi(dpi, size)

Next == System \/ Environment

\* The message loop runs and the user closes what waits for an answer.
Fairness == WF_vars(System)

Spec == Init /\ [][Next]_vars /\ Fairness

-----------------------------------------------------------------------------
(* Properties                                                              *)

TypeOK ==
    /\ window.size \in Sizes /\ window.dpi \in Dpis
    /\ app.client \in Sizes /\ app.pending \in Sizes \cup {0}
    /\ app.timers \subseteq {"stack", "frame"} /\ app.faults \in 0..MaxFaults
    /\ ui.mode \in {"idle", "busy", "draining"} /\ ui.batch \in 0..BatchSize
    /\ Len(deferred) <= MaxDeferred

\* The picture on the screen is that of the last text, at the size and the resolution that
\* the window has, on a swap chain of that size.
Settled ==
    /\ app.shown = [text |-> app.text, size |-> window.size, dpi |-> window.dpi]
    /\ app.stack # None /\ app.stack.size = window.size

\* However messages are deferred, drags and new resolutions follow each other and the render
\* stack fails, the picture follows the window - unless the window is destroyed, the user
\* holds it, a timer or a message could not be created, or a batch was overtaken.
FrameSettles ==
    ~Settled ~> Settled \/ quit \/ window.drag \/ app.stranded \/ overtaken
=============================================================================
