----------------------------- MODULE DialogHost -----------------------------
(***************************************************************************)
(* The host of the dialogs (dialogs/host.rs, helpers.rs), on the one UI    *)
(* thread.  A handler borrows the state of its dialog while it runs, and   *)
(* may wait in a box of its own, whose loop goes on handling messages: one *)
(* for a dialog whose state is lent is put aside until its handler ends,   *)
(* or dropped.  The dialogs here: the settings, which post WM_CLOSE to     *)
(* themselves; the list of files; and the progress of a translation, owned *)
(* by the list, which it disables.                                         *)
(***************************************************************************)
EXTENDS Naturals, Sequences, SequencesExt

CONSTANTS
    Dpis,           \* resolutions of the monitors
    MaxMessages,    \* bound: what the user and the system do
    MaxFaults       \* bound: dialogs that cannot be made

VARIABLES
    main,       \* the main window exists
    window,     \* of each dialog: [open, dpi, applied, enabled]
    stack,      \* the dialogs whose handlers run, the outermost first
    queue,      \* messages of the UI thread
    deferred,   \* DEFERRED_DIALOG_MESSAGES
    disabled,   \* DISABLED_PARENTS: the progress dialog has disabled the list
    freed,      \* dialogs whose state was freed while it was lent
    closing,    \* dialogs that have asked themselves to close
    crossed,    \* history: a resolution came while an earlier one of the dialog waited
    messages, faults

vars == <<main, window, stack, queue, deferred, disabled, freed, closing, crossed,
          messages, faults>>
bounds == <<messages, faults>>

Dialog == {"settings", "list", "progress"}
Owned(d) == IF d = "list" THEN {"progress"} ELSE {}

Init ==
    \E dpi \in Dpis :
        /\ main = TRUE
        /\ window = [d \in Dialog |-> [open |-> FALSE, dpi |-> dpi, applied |-> dpi, enabled |-> TRUE]]
        /\ stack = << >> /\ queue = << >> /\ deferred = << >>
        /\ disabled = FALSE /\ freed = {} /\ closing = {} /\ crossed = {}
        /\ messages = 0 /\ faults = 0

Lent(d) == Contains(stack, d)
\* Only a new resolution carries anything: itself.
Msg(kind, d) == [kind |-> kind, to |-> d, dpi |-> 0]
DpiMsg(dpi, d) == [kind |-> "dpi", to |-> d, dpi |-> dpi]

\* can_defer, with WM_CLOSE and new resolutions, which every dialog puts aside.  "posted" is a
\* result that a worker posts; the end of a translation ("finish") is not put aside.
CanDefer(kind) == kind \in {"close", "posted", "dpi"}

\* The messages of s for the dialogs of ds, in their order.
For(ds, s) ==
    LET kept[n \in 0..Len(s)] ==
            IF n = 0 THEN << >>
            ELSE IF s[n].to \in ds THEN Append(kept[n - 1], s[n]) ELSE kept[n - 1]
    IN  kept[Len(s)]
NotFor(ds, s) == For(Dialog \ ds, s)

-----------------------------------------------------------------------------
(* Opening and closing.                                                    *)

\* DialogHost::show.  A dialog whose init fails is destroyed before anything is disabled.
Show(d) ==
    \/ /\ UNCHANGED faults
       /\ window' = [e \in Dialog |->
            IF e = d THEN [window[d] EXCEPT !.open = TRUE, !.applied = window[d].dpi]
            ELSE IF d \in Owned(e) THEN [window[e] EXCEPT !.enabled = FALSE] ELSE window[e]]
       /\ disabled' = (disabled \/ d = "progress")
    \/ /\ faults < MaxFaults /\ faults' = faults + 1
       /\ UNCHANGED <<window, disabled>>

(* Mutant: the list stays disabled when the progress dialog has gone. *)
DestroyLeavesDisabled(ds, lent) ==
    LET gone == {d \in ds : window[d].open}
    IN  /\ window' = [d \in Dialog |-> [window[d] EXCEPT !.open = @ /\ d \notin gone]]
        /\ disabled' = (disabled /\ "progress" \notin gone)
        /\ freed' = freed \cup {d \in gone : Contains(lent, d)}
        /\ deferred' = NotFor(gone, deferred)
        /\ queue' = NotFor(gone, queue)
        /\ crossed' = crossed \ gone

\* WM_DESTROY frees the state, even if one of the handlers `lent` has borrowed it, drops what
\* was put aside for the dialog and enables the window that it had disabled.
Destroy(ds, lent) ==
    LET gone == {d \in ds : window[d].open}
        enables == disabled /\ "progress" \in gone
    IN  /\ window' = [d \in Dialog |-> [window[d] EXCEPT
                        !.open = @ /\ d \notin gone, !.enabled = @ \/ d \in gone \/ enables]]
        /\ disabled' = (disabled /\ ~enables)
        /\ freed' = freed \cup {d \in gone : Contains(lent, d)}
        /\ deferred' = NotFor(gone, deferred)
        /\ queue' = NotFor(gone, queue)
        /\ crossed' = crossed \ gone

Close(d) == Destroy({d} \cup Owned(d), stack) /\ closing' = closing \ ({d} \cup Owned(d))

\* The main window closes, and with it what it owns.  What a handler does that finds its state
\* freed is undefined; it is not followed.
Exit ==
    /\ main /\ main' = FALSE
    /\ Destroy(Dialog, stack) /\ closing' = {}
    /\ UNCHANGED <<stack, bounds>>

-----------------------------------------------------------------------------
(* What comes from outside.                                                *)

Outside ==
    /\ messages < MaxMessages /\ messages' = messages + 1
    /\ main
    /\ UNCHANGED <<main, freed, closing>>

\* A command of the application; a dialog that is open comes to the front.
Open(d) ==
    /\ Outside /\ d # "progress" /\ ~window[d].open
    /\ Show(d)
    /\ UNCHANGED <<stack, queue, deferred, crossed>>

\* A worker's result.
Send(d) ==
    /\ Outside /\ window[d].open /\ d # "progress"
    /\ queue' = Append(queue, Msg("posted", d))
    /\ UNCHANGED <<window, stack, deferred, disabled, crossed, faults>>

\* A resolution of the dialog is put aside, or posted again.
Waits(d) == \E dpi \in Dpis : Contains(deferred, DpiMsg(dpi, d)) \/ Contains(queue, DpiMsg(dpi, d))

\* The monitor's resolution becomes dpi; Windows sends it to the dialog, which is laid out anew,
\* or puts it aside.
NewDpi(d, dpi) ==
    /\ Outside /\ window[d].open /\ dpi # window[d].dpi
    /\ window' = [window EXCEPT ![d] =
            [window[d] EXCEPT !.dpi = dpi, !.applied = IF Lent(d) THEN window[d].applied ELSE dpi]]
    /\ deferred' = IF Lent(d) THEN Append(deferred, DpiMsg(dpi, d)) ELSE NotFor({d}, deferred)
    /\ queue' = IF Lent(d) THEN queue ELSE queue \o For({d}, deferred)
    /\ crossed' = IF Waits(d) THEN crossed \cup {d} ELSE crossed \ {d}
    /\ UNCHANGED <<stack, disabled, faults>>

\* The user reaches a dialog that is enabled and not behind a box of its own; the timer of the
\* progress finds its translation ended.
BeginCommand(d) ==
    /\ Outside /\ window[d].open /\ window[d].enabled /\ ~Lent(d)
    /\ d = "progress" => d \notin closing
    /\ stack' = Append(stack, d)
    /\ UNCHANGED <<window, queue, deferred, disabled, crossed, faults>>

-----------------------------------------------------------------------------
(* Messages.                                                               *)

Takes(kind, d) ==
    /\ queue # << >> /\ Head(queue).kind = kind /\ Head(queue).to = d
    /\ main
    /\ UNCHANGED <<main, bounds>>

(* Mutant: a request to close is dropped while a handler of the dialog runs. *)
DispatchLentDropsClose(kind, d) ==
    /\ Takes(kind, d) /\ Lent(d)
    /\ queue' = Tail(queue)
    /\ deferred' = IF CanDefer(kind) /\ kind # "close" THEN Append(deferred, Head(queue)) ELSE deferred
    /\ UNCHANGED <<window, stack, disabled, freed, closing, crossed>>

\* The state is lent: what may wait waits.
DispatchLent(kind, d) ==
    /\ Takes(kind, d) /\ Lent(d)
    /\ queue' = Tail(queue)
    /\ deferred' = IF CanDefer(kind) THEN Append(deferred, Head(queue)) ELSE deferred
    /\ UNCHANGED <<window, stack, disabled, freed, closing, crossed>>

\* A handler begins.
Dispatch(d) ==
    /\ Takes("posted", d) /\ ~Lent(d)
    /\ queue' = Tail(queue)
    /\ stack' = Append(stack, d)
    /\ UNCHANGED <<window, deferred, disabled, freed, closing, crossed>>

\* A handler that asks for it, or WM_CLOSE that nobody handled: the state is given back and the
\* dialog destroyed.
DispatchClose(d) ==
    /\ Takes("close", d) \/ Takes("finish", d)
    /\ ~Lent(d)
    /\ Close(d)
    /\ UNCHANGED stack

\* A resolution that was put aside and posted again: the dialog is laid out for the one that the
\* message carries, whatever its monitor's is by now.
DispatchDpi(d) ==
    /\ Takes("dpi", d) /\ ~Lent(d)
    /\ window' = [window EXCEPT ![d].applied = Head(queue).dpi]
    /\ queue' = Tail(queue) \o For({d}, deferred)
    /\ deferred' = NotFor({d}, deferred)
    /\ UNCHANGED <<stack, disabled, freed, closing, crossed>>

\* The handler of the list that starts a translation.
StartTranslation ==
    /\ main /\ stack # << >> /\ Last(stack) = "list"
    /\ window["list"].enabled
    /\ Show("progress")
    /\ UNCHANGED <<main, stack, queue, deferred, freed, closing, crossed, messages>>

\* What was put aside for the dialog is posted again.  The settings and the progress may have
\* asked themselves to close.
HandlerEnds ==
    /\ main /\ stack # << >> /\ stack' = Front(stack)
    /\ LET d == Last(stack)
           kind == IF d = "settings" THEN "close" ELSE "finish"
       IN  /\ deferred' = NotFor({d}, deferred)
           /\ \/ queue' = queue \o For({d}, deferred) /\ UNCHANGED closing
              \/ /\ d # "list" /\ d \notin closing
                 /\ queue' = Append(queue, Msg(kind, d)) \o For({d}, deferred)
                 /\ closing' = closing \cup {d}
    /\ UNCHANGED <<main, window, disabled, freed, crossed, bounds>>

\* The handler of the list that closes it: the state is given back first.
HandlerCloses ==
    /\ main /\ stack # << >> /\ Last(stack) = "list" /\ window["list"].enabled
    /\ stack' = Front(stack)
    /\ Destroy({"list", "progress"}, stack')
    /\ UNCHANGED <<main, closing, bounds>>

Handlers == HandlerEnds \/ HandlerCloses
Messages ==
    \E d \in Dialog :
        \/ \E kind \in {"close", "posted", "dpi", "finish"} : DispatchLent(kind, d)
        \/ Dispatch(d) \/ DispatchClose(d) \/ DispatchDpi(d)

Next ==
    \/ Messages \/ Handlers \/ StartTranslation \/ Exit
    \/ \E d \in Dialog : Open(d) \/ Send(d) \/ BeginCommand(d) \/ \E dpi \in Dpis : NewDpi(d, dpi)

System == Messages \/ HandlerEnds
Spec == Init /\ [][Next]_vars /\ WF_vars(System)

-----------------------------------------------------------------------------
\* While the application runs no handler is left with a state that was freed while it had borrowed
\* it: no message closes a dialog under its handler.  Only the main window's end does.
StateOutlivesHandlers == main => freed = {}

\* The list is disabled exactly while the progress of its translation is open: it is never
\* left without an answer to the user.
ListUsable ==
    window["list"].open =>
        (window["list"].enabled <=> ~window["progress"].open)

\* What was put aside waits for a handler of its dialog and for nothing else; at rest, a dialog
\* is laid out for the resolution of its monitor, unless this changed while an earlier change
\* still waited: that one may then be handled last.
NothingStranded ==
    /\ \A i \in 1..Len(deferred) : window[deferred[i].to].open /\ Lent(deferred[i].to)
    /\ \A d \in Dialog \ crossed :
        (window[d].open /\ ~Lent(d) /\ For({d}, queue) = << >>) => window[d].applied = window[d].dpi

\* A dialog that asked itself to close is closed, if the boxes of its handlers are answered.
ClosingEnds == \A d \in {"settings", "progress"} : d \in closing ~> d \notin closing
=============================================================================
