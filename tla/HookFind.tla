------------------------------ MODULE HookFind ------------------------------
(***************************************************************************)
(* The hook management window (dialogs/hook_find): connecting to a game,   *)
(* the list of its text threads and the one that is translated, searches   *)
(* for hook addresses and the hooks installed from them.  It runs on the   *)
(* UI thread with the hook events (app/hook_text.rs); its requests go to   *)
(* the hook worker, which is reduced here to the order in which it takes   *)
(* them (module HookWorker has it in full), and so is the game.            *)
(***************************************************************************)
EXTENDS Naturals, FiniteSets, Sequences

CONSTANTS
    Address,            \* hook addresses a search may find
    Thread,             \* text threads of the game (HookSource)
    SavedHook,          \* the address in a game's saved profile, and in the code the user types
    MaxSessions, MaxSearches, MaxInstalls, MaxTexts, MaxCloses, MaxBoxes,
    MaxCounted,         \* bound: searches, installs, texts, closes and boxes together
    MaxCandidates,      \* MAX_CANDIDATES and MAX_PENDING_CANDIDATES
    MaxStreams,         \* MAX_STREAMS
    ActsWhileBusy       \* the user may ask for a connection while one is under way, and close
                        \* and open the window then, or during an end or a search

VARIABLES
    requests,   \* requests to the worker, in order
    session,    \* [id, generation, hooks, count]: the worker's session (id 0: none), its
                \* search_generation, and the hooks installed in its game
    searches,   \* searches the game still answers: set of [id, session]
    events,     \* hook events the UI has not handled
    hookSession,\* the session of model.runtime.hook_session; 0: none
    dialog,     \* the open window, or Closed
    kept,       \* SAVED_VIEW: what a closed window leaves for the next one
    pending,    \* PENDING_CANDIDATES
    selected,   \* SELECTED_SOURCE with the session it was chosen in, or NoChoice
    auto,       \* AUTO_SELECT_HOOK_NAME, as the thread it will match, or "none"
    counts,     \* [searches, installs, texts, closes, boxes]
    history     \* [observed, missed, strayed, mixed, hooked]: threads seen in this session; the
                \* window was not told of a text or of a session; a hook went to another game; a
                \* text was let through by another session's choice; a candidate was installed
                \* in the worker's session

vars == <<requests, session, searches, events, hookSession, dialog, kept, pending, selected, auto,
          counts, history>>
uiVars == <<hookSession, dialog, kept, pending, selected, auto, counts, history>>

None == "none"
NoChoice == [thread |-> None, session |-> 0]
Closed == [open |-> FALSE]
EmptyView == [streams |-> << >>, candidates |-> {}, installed |-> 0, manual |-> 0]

\* HookFindDialog::create: generations begin at 0 and no search is in flight.  `label` is the
\* session of target_label, `lent` says that a box waits with the state borrowed, and `offered`
\* that a found address has enabled the install button again while the window waits.
Opened(view) ==
    [open |-> TRUE, streams |-> view.streams, candidates |-> view.candidates,
     installed |-> view.installed, manual |-> view.manual, generation |-> 0, inFlight |-> 0,
     search |-> 0, label |-> hookSession, waiting |-> FALSE, offered |-> FALSE, lent |-> FALSE]

\* with_state_mut finds the window's state; a box that waits in a handler has it.
Reachable == dialog.open /\ ~dialog.lent
Lent == dialog.open /\ dialog.lent

Init ==
    /\ requests = << >>
    /\ session = [id |-> 0, generation |-> 0, hooks |-> {}, count |-> 0]
    /\ searches = {} /\ events = << >> /\ hookSession = 0
    /\ dialog = Closed /\ kept = EmptyView /\ pending = {}
    /\ selected = NoChoice /\ auto = None
    /\ counts = [searches |-> 0, installs |-> 0, texts |-> 0, closes |-> 0, boxes |-> 0]
    /\ history = [observed |-> << >>, missed |-> FALSE, strayed |-> FALSE, mixed |-> FALSE, hooked |-> FALSE]

TypeOK ==
    /\ session.id \in 0..MaxSessions /\ session.generation \in 0..MaxSearches
    /\ searches \subseteq [id : 1..MaxSearches, session : 1..MaxSessions]
    /\ hookSession \in 0..MaxSessions
    /\ Cardinality(pending) <= MaxCandidates
    /\ auto \in Thread \cup {None}
    /\ dialog.open => Cardinality(dialog.candidates) <= MaxCandidates /\ Len(dialog.streams) <= MaxStreams

\* Room for another step that is counted.
Room == counts.searches + counts.installs + counts.texts + counts.closes + counts.boxes < MaxCounted

-----------------------------------------------------------------------------
(* The worker and the game.                                                *)

Take(kind) == requests # << >> /\ Head(requests).kind = kind /\ requests' = Tail(requests)

\* An event names the session that the window is in once it is handled.
Ended == [kind |-> "Detached", session |-> 0]

\* Attach ends the old session first; the new one connects or fails.
WorkerAttach ==
    /\ Take("Attach") /\ session.count < MaxSessions
    /\ LET id == session.count + 1
           old == IF session.id = 0 THEN << >> ELSE <<Ended>>
       IN  \/ /\ session' = [id |-> id, generation |-> 0, hooks |-> {}, count |-> id]
              /\ events' = events \o old \o <<[kind |-> "Attached", session |-> id]>>
           \/ /\ session' = [session EXCEPT !.id = 0, !.count = id]
              /\ events' = events \o old \o <<[kind |-> "AttachFailed", session |-> 0]>>
    /\ searches' = {}
    /\ history' = [history EXCEPT !.hooked = FALSE]
    /\ UNCHANGED <<hookSession, dialog, kept, pending, selected, auto, counts>>

WorkerDetach ==
    /\ Take("Detach")
    /\ session' = [session EXCEPT !.id = 0]
    /\ searches' = {}
    /\ events' = IF session.id = 0 THEN events ELSE Append(events, Ended)
    /\ UNCHANGED uiVars

\* send_command: without a session the command is dropped.
WorkerHook ==
    /\ \/ /\ Take("NewHook")
          /\ session' = IF session.id = 0 THEN session
                        ELSE [session EXCEPT !.hooks = @ \cup {Head(requests).address}]
       \/ /\ Take("RemoveHook")
          /\ session' = [session EXCEPT !.hooks = @ \ {Head(requests).address}]
    /\ history' = [history EXCEPT !.strayed =
                       @ \/ (Head(requests).meant # 0
                               /\ session.id \notin {0, Head(requests).meant}),
                   !.hooked = @ \/ (session.id # 0 /\ Head(requests).kind = "NewHook"
                                       /\ Head(requests).address \in Address)]
    /\ UNCHANGED <<searches, events, hookSession, dialog, kept, pending, selected, auto, counts>>

WorkerFindHook ==
    /\ Take("FindHook")
    /\ session' = IF session.id = 0 THEN session
                  ELSE [session EXCEPT !.generation = Head(requests).generation]
    /\ searches' = IF session.id = 0 THEN searches
                   ELSE searches \cup {[id |-> Head(requests).search, session |-> session.id]}
    /\ UNCHANGED <<events, uiVars>>

\* handle_notification, FoundHook: a result carries the generation in force when it is read.
GameFinds(s, a) ==
    /\ session.id = s.session /\ Len(events) < 2
    /\ events' = Append(events, [kind |-> "FoundHook", generation |-> session.generation,
                                 search |-> s.id, address |-> a, session |-> session.id])
    /\ UNCHANGED <<requests, session, searches, uiVars>>

\* The search ends in the game after SearchParam.search_time_ms.
SearchEnds(s) ==
    /\ searches' = searches \ {s}
    /\ UNCHANGED <<requests, session, events, uiVars>>

GamePrints(t) ==
    /\ session.id # 0 /\ counts.texts < MaxTexts /\ Room /\ Len(events) < 2
    /\ events' = Append(events, [kind |-> "Text", thread |-> t, session |-> session.id])
    /\ counts' = [counts EXCEPT !.texts = @ + 1]
    /\ UNCHANGED <<requests, session, searches, hookSession, dialog, kept, pending, selected, auto,
                   history>>

GameExits ==
    /\ session.id # 0
    /\ session' = [session EXCEPT !.id = 0]
    /\ searches' = {}
    /\ events' = Append(events, Ended)
    /\ UNCHANGED <<requests, uiVars>>

Backend ==
    \/ WorkerAttach \/ WorkerDetach \/ WorkerHook \/ WorkerFindHook \/ GameExits
    \/ \E s \in searches : SearchEnds(s) \/ \E a \in Address : GameFinds(s, a)
    \/ \E t \in Thread : GamePrints(t)

-----------------------------------------------------------------------------
(* What the hook events do to the window.                                  *)

Ask(request) == requests' = requests \o request

\* A connection is under way, of which the window will be told after these events.
Connecting(after) ==
    \/ \E i \in DOMAIN requests : requests[i].kind = "Attach"
    \/ \E i \in DOMAIN after : after[i].kind \in {"Attached", "AttachFailed"}

\* clear_session_view
Cleared(d) ==
    [d EXCEPT !.streams = << >>, !.candidates = {}, !.installed = 0, !.manual = 0, !.inFlight = 0]
(* Mutant: the thread chosen in one session is used in the next. *)
ChoiceKept == selected

ChoiceAfterSession == NoChoice

\* reset_session, and the window told of the session: nothing of one session's view is used in
\* the next, unless a box has the window's state.
ResetSession(next) ==
    /\ selected' = ChoiceAfterSession
    /\ pending' = {} /\ kept' = EmptyView
    /\ dialog' = IF Reachable
                 THEN [Cleared(dialog) EXCEPT !.waiting = FALSE, !.offered = FALSE, !.label = next]
                 ELSE dialog
    /\ hookSession' = next
    /\ history' = [history EXCEPT !.observed = << >>, !.missed = Lent]

\* handle_hook_attached: the saved profile's hook is asked for and its thread will be
\* selected when it first prints.
HandleAttached(e) ==
    /\ e.kind = "Attached"
    /\ ResetSession(e.session)
    /\ \E t \in Thread \cup {None} :
           /\ auto' = t
           /\ IF t = None THEN UNCHANGED requests
              ELSE Ask(<<[kind |-> "NewHook", address |-> SavedHook,
                          meant |-> IF Connecting(Tail(events)) THEN 0 ELSE e.session]>>)

HandleDetached(e) ==
    /\ e.kind \in {"Detached", "AttachFailed"}
    /\ ResetSession(0)
    /\ auto' = None
    /\ UNCHANGED requests

\* update_stream_indexed
WithStream(streams, t) ==
    IF Len(streams) >= MaxStreams \/ \E i \in DOMAIN streams : streams[i] = t THEN streams ELSE Append(streams, t)

\* observe_text: the saved thread is selected if none is, and the text is shown in the open
\* window; when its state is not there, closed or lent, it is kept for the next window.  accepts
\* then lets through the selected thread's text only.
HandleText(e) ==
    /\ e.kind = "Text"
    /\ LET matched == selected = NoChoice /\ auto = e.thread
           choice == IF matched THEN [thread |-> e.thread, session |-> e.session] ELSE selected
       IN  /\ selected' = choice
           /\ auto' = IF matched THEN None ELSE auto
           /\ history' = [history EXCEPT
                  !.observed = WithStream(@, e.thread),
                  !.missed = @ \/ Lent,
                  !.mixed = @ \/ (~history.missed /\ choice.thread = e.thread
                                     /\ choice.session # e.session)]
    /\ dialog' = IF Reachable THEN [dialog EXCEPT !.streams = WithStream(@, e.thread)] ELSE dialog
    /\ kept' = IF Reachable THEN kept ELSE [kept EXCEPT !.streams = WithStream(@, e.thread)]
    /\ UNCHANGED <<requests, hookSession, pending>>

\* drain_candidates: results of another generation are dropped, and doubles.
GenerationMatches(d, found) == found.generation = d.generation
Fresh(d, found) ==
    {c \in found : GenerationMatches(d, c) /\ \A old \in d.candidates : old.address # c.address}

\* The install button then follows the list, also in a window that waits.  The order of the list
\* is left out, and so is which ones a full list has no room for.
Drained(d, found) ==
    \E new \in SUBSET Fresh(d, found) :
        /\ Cardinality(d.candidates \cup new) <= MaxCandidates
        /\ new = Fresh(d, found) \/ Cardinality(d.candidates \cup new) = MaxCandidates
        /\ dialog' = [d EXCEPT !.candidates = @ \cup new,
                               !.offered = d.waiting /\ d.label # 0 /\ d.candidates \cup new # {}]

\* add_candidate
Collected(found) ==
    IF Cardinality(pending) >= MaxCandidates \/ \E old \in pending : old.address = found.address
    THEN pending ELSE pending \cup {found}

HandleFound(e) ==
    /\ e.kind = "FoundHook"
    /\ LET found == Collected([address |-> e.address, generation |-> e.generation, search |-> e.search])
       IN  IF Reachable THEN Drained(dialog, found) /\ pending' = {}
           ELSE pending' = found /\ UNCHANGED dialog
    /\ UNCHANGED <<requests, hookSession, kept, selected, auto, history>>

HandleEvent ==
    /\ events # << >>
    /\ events' = Tail(events)
    /\ LET e == Head(events)
       IN  HandleAttached(e) \/ HandleDetached(e) \/ HandleText(e) \/ HandleFound(e)
    /\ UNCHANGED <<session, searches, counts>>

-----------------------------------------------------------------------------
(* What the user does in the window.                                       *)

Busy ==
    \/ searches # {} \/ \E i \in DOMAIN requests : requests[i].kind \in {"Attach", "Detach", "FindHook"}
    \/ \E i \in DOMAIN events : events[i].kind \in {"Attached", "AttachFailed", "Detached", "FoundHook"}

Open ==
    /\ ~dialog.open
    /\ Drained(Opened(kept), pending)
    /\ pending' = {} /\ kept' = EmptyView
    /\ UNCHANGED <<requests, session, searches, events, hookSession, selected, auto, counts, history>>
\* destroy: the view is kept for the next window.
ViewKept(d) == [streams |-> d.streams, candidates |-> d.candidates, installed |-> d.installed,
                manual |-> d.manual]

Close ==
    /\ Reachable /\ counts.closes < MaxCloses /\ Room
    /\ Busy => ActsWhileBusy
    /\ counts' = [counts EXCEPT !.closes = @ + 1]
    /\ kept' = ViewKept(dialog)
    /\ dialog' = Closed
    /\ UNCHANGED <<requests, session, searches, events, hookSession, pending, selected, auto, history>>

\* enter_pending_state disables everything until the worker has answered; a box is modal to the
\* window.
Usable == Reachable /\ ~dialog.waiting
Managed == Usable /\ dialog.label # 0
Waiting(d) == [d EXCEPT !.waiting = TRUE, !.offered = FALSE]

\* The game a request of the window is for: 0 once the window cannot know.
Meant == IF Connecting(events) \/ history.missed THEN 0 ELSE dialog.label

\* The end of one session enables the button while the next is still connecting.
Connect ==
    /\ Usable /\ session.count < MaxSessions
    /\ Connecting(events) => ActsWhileBusy
    /\ Ask(<<[kind |-> "Attach"]>>)
    /\ dialog' = Waiting(dialog)
    /\ UNCHANGED <<session, searches, events, hookSession, kept, pending, selected, auto, counts, history>>

Detach ==
    /\ Managed
    /\ Ask(<<[kind |-> "Detach"]>>)
    /\ dialog' = Waiting(dialog)
    /\ UNCHANGED <<session, searches, events, hookSession, kept, pending, selected, auto, counts, history>>

\* stop_hook_session, from the menu or a hotkey: the snapshot goes at once.
StopSession ==
    /\ hookSession # 0
    /\ hookSession' = 0
    /\ dialog' = IF Reachable THEN Waiting(dialog) ELSE dialog
    /\ Ask(<<[kind |-> "Detach"]>>)
    /\ UNCHANGED <<session, searches, events, kept, pending, selected, auto, counts, history>>
(* Mutant: a search does not wait for the one before. *)
NothingInFlight == FALSE

\* next_search_generation refuses a search while one is in flight; a new one empties the list.
InFlight == dialog.inFlight # 0

StartSearch ==
    /\ Managed /\ counts.searches < MaxSearches /\ Room /\ ~InFlight
    /\ LET id == counts.searches + 1  generation == dialog.generation + 1
       IN  /\ dialog' = [dialog EXCEPT !.generation = generation, !.inFlight = id, !.search = id,
                                       !.candidates = {}]
           /\ Ask(<<[kind |-> "FindHook", search |-> id, generation |-> generation]>>)
           /\ counts' = [counts EXCEPT !.searches = id]
    /\ pending' = {}
    /\ UNCHANGED <<session, searches, events, hookSession, kept, selected, auto, history>>

\* search_in_flight_until passes: the search time and a second for what is still in the
\* pipe are over.
SearchTimePasses ==
    /\ dialog.open /\ InFlight
    /\ \A s \in searches : s.id # dialog.inFlight
    /\ \A i \in DOMAIN requests : requests[i].kind # "FindHook"
    /\ \A i \in DOMAIN events : events[i].kind # "FoundHook"
    /\ dialog' = [dialog EXCEPT !.inFlight = 0]
    /\ UNCHANGED <<requests, session, searches, events, hookSession, kept, pending, selected, auto, counts,
                   history>>

\* queue_hook_replacement: the new hook is queued before the old one is removed.
Replacement(new, old) ==
    <<[kind |-> "NewHook", address |-> new, meant |-> Meant]>>
        \o (IF old \in {0, new} THEN << >>
            ELSE <<[kind |-> "RemoveHook", address |-> old, meant |-> Meant]>>)

\* The button alone decides, which drain_candidates enables in a window that waits as well: any
\* candidate may be the one selected there before.
InstallCandidate ==
    /\ Managed \/ (Reachable /\ dialog.offered)
    /\ counts.installs < MaxInstalls /\ Room
    /\ \E c \in dialog.candidates :
           /\ Ask(Replacement(c.address, dialog.installed))
           /\ dialog' = [dialog EXCEPT !.installed = c.address]
    /\ counts' = [counts EXCEPT !.installs = @ + 1]
    /\ UNCHANGED <<session, searches, events, hookSession, kept, pending, selected, auto, history>>

\* install_manual_hook: a code typed by the user replaces the one typed before.
InstallManual ==
    /\ Managed /\ counts.installs < MaxInstalls /\ Room
    /\ Ask(Replacement(SavedHook, dialog.manual))
    /\ dialog' = [dialog EXCEPT !.manual = SavedHook]
    /\ counts' = [counts EXCEPT !.installs = @ + 1]
    /\ UNCHANGED <<session, searches, events, hookSession, kept, pending, selected, auto, history>>

\* A code that cannot be parsed: the box waits with the state borrowed, and pumps messages.
OpenBox ==
    /\ Managed /\ counts.boxes < MaxBoxes /\ Room
    /\ dialog' = [dialog EXCEPT !.lent = TRUE]
    /\ counts' = [counts EXCEPT !.boxes = @ + 1]
    /\ UNCHANGED <<requests, session, searches, events, hookSession, kept, pending, selected, auto, history>>

EndBox ==
    /\ Lent
    /\ dialog' = [dialog EXCEPT !.lent = FALSE]
    /\ UNCHANGED <<requests, session, searches, events, hookSession, kept, pending, selected, auto, counts,
                   history>>

SelectStream ==
    /\ Managed
    /\ \E i \in DOMAIN dialog.streams :
           selected' = [thread |-> dialog.streams[i], session |-> dialog.label]
    /\ auto' = None
    /\ UNCHANGED <<requests, session, searches, events, hookSession, dialog, kept, pending, counts, history>>

User ==
    \/ Open \/ Close \/ Connect \/ Detach \/ StopSession \/ StartSearch \/ SearchTimePasses
    \/ InstallCandidate \/ InstallManual \/ OpenBox \/ EndBox \/ SelectStream

Next == Backend \/ HandleEvent \/ User
Spec == Init /\ [][Next]_vars

-----------------------------------------------------------------------------
\* The candidates in the list were found by the search it is showing, so that the user
\* does not install an address of an older search.  search.rs: no search is sent while one
\* is in flight, which "prevents the race of earlier results being taken for the new
\* generation".
NoResultOfEarlierSearch ==
    dialog.open /\ dialog.search # 0 =>
        \A c \in dialog.candidates : c.search = dialog.search

\* It holds unless the user acts meanwhile.
CandidatesOfThisSearch == ~ActsWhileBusy => NoResultOfEarlierSearch

\* A choice of thread, and the hooks the user and the saved profile ask for, stay with their
\* game, through sessions that end and begin while events of the one before are still queued, and
\* whatever the user closes and opens meanwhile.  Excepted are hooks asked for behind a
\* connection that is under way (meant = 0), and what follows on an event that met a box of the
\* window.
SessionsStayApart ==
    /\ ~history.mixed
    /\ ~history.strayed
    /\ hookSession # 0 /\ selected # NoChoice /\ ~history.missed => selected.session = hookSession

\* Once the hook of a candidate has reached the game, the game has one until the session
\* ends: exchanging it for another leaves no moment without.
AlwaysHooked ==
    session.hooks \cap Address # {} \/ ~history.hooked \/ session.id = 0

\* Every thread the session has shown is listed, whether the window was open or not: only a box
\* of the window keeps a text or the end of a session from it.
StreamsSurviveClosing ==
    ~history.missed =>
        (IF dialog.open THEN dialog.streams ELSE kept.streams) = history.observed
=============================================================================
