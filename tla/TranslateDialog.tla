-------------------------- MODULE TranslateDialog --------------------------
(***************************************************************************)
(* The window in which the user translates a text by hand (dialogs/        *)
(* translate), and what it sees of the translation dispatcher: only the    *)
(* newest request of the window is answered, answers are read in order,    *)
(* and each has a message of its own.  An edit or another route while a    *)
(* translation runs gives the request up; the automatic translation waits  *)
(* for a timer if the engine is an LLM.                                    *)
(***************************************************************************)
EXTENDS Naturals, Sequences

CONSTANTS
    Text,           \* texts that the user enters
    Route,          \* engines, languages and models
    Slow(_),        \* routes whose automatic translation waits for a timer
    MaxSteps,       \* bound: what the user does
    MaxFaults       \* bound: calls and messages that fail

VARIABLES
    open,           \* the window exists
    source, dest,   \* what its two fields hold
    route,          \* the selection of the combo boxes
    one_go,         \* the box for the automatic translation
    timer,          \* AUTO_TRANSLATE_TIMER runs
    in_flight_id, last_submitted_source,
    requests,       \* what was requested, by id: [source, route]
    wanted,         \* the request that the dispatcher still answers, or 0
    answers,        \* ids whose answer the window has not read
    posts,          \* WM_TRANSLATION_COMPLETE messages
    steps, faults

vars == <<open, source, dest, route, one_go, timer, in_flight_id, last_submitted_source, requests,
          wanted, answers, posts, steps, faults>>
request == <<in_flight_id, last_submitted_source>>
dispatcher == <<requests, wanted, answers, posts>>

Empty == ""
Notice(kind) == [kind |-> kind]

Init ==
    /\ open = TRUE
    /\ source = Empty /\ dest = Notice("empty") /\ one_go = FALSE /\ timer = FALSE
    /\ in_flight_id = 0 /\ last_submitted_source = Empty
    /\ route \in Route
    /\ requests = << >> /\ wanted = 0 /\ answers = << >> /\ posts = 0
    /\ steps = 0 /\ faults = 0

Fails == faults < MaxFaults /\ faults' = faults + 1

-----------------------------------------------------------------------------
(* Steps of the handlers.  Each gives the new request and dispatcher.      *)

\* The dispatcher forgets the window's request and its answers; messages may still come.
Cancel == wanted' = 0 /\ answers' = << >> /\ UNCHANGED <<requests, posts>>

\* invalidate_translation_route.
Invalidate ==
    /\ last_submitted_source' = Empty /\ in_flight_id' = 0
    /\ IF in_flight_id = 0 THEN UNCHANGED dispatcher ELSE Cancel

Unless(stale) == IF stale THEN Invalidate ELSE UNCHANGED <<request, dispatcher>>

\* do_translate, with the source and the route of this step, after a request that is `stale`
\* was given up.  A job that cannot be made leaves another request; one that the dispatcher
\* refuses has already replaced it there.
DoTranslate(stale) ==
    \/ source' = Empty /\ Unless(stale) /\ UNCHANGED <<dest, faults>>
    \/ /\ source' # Empty
       /\ requests' = Append(requests, [source |-> source', route |-> route'])
       /\ answers' = IF stale THEN << >> ELSE answers
       /\ UNCHANGED posts
       /\ \/ /\ dest' = Notice("busy")
             /\ wanted' = Len(requests') /\ in_flight_id' = wanted'
             /\ last_submitted_source' = source'
             /\ UNCHANGED faults
          \/ /\ Fails
             /\ dest' = Notice("error")
             /\ wanted' = 0 /\ in_flight_id' = 0
             /\ last_submitted_source' = IF stale THEN Empty ELSE last_submitted_source
    \/ source' # Empty /\ Fails /\ dest' = Notice("error") /\ Unless(stale)

-----------------------------------------------------------------------------
(* The user.                                                               *)

Acts == open /\ steps < MaxSteps /\ steps' = steps + 1

(* Mutant: an edit leaves the request. *)
EditKeepsRequest(text) ==
    /\ Acts /\ text # source
    /\ source' = text
    /\ UNCHANGED <<open, route, one_go, timer, dest, request, dispatcher, faults>>

\* An edit gives up a request for another text.  The automatic translation starts by its timer,
\* or at once, also when there is no timer.
Edit(text) ==
    /\ Acts /\ text # source
    /\ source' = text
    /\ UNCHANGED <<open, route, one_go>>
    /\ LET stale == in_flight_id # 0 /\ text # last_submitted_source
       IN  \/ one_go /\ timer' = FALSE /\ DoTranslate(stale)
          \/ /\ ~one_go \/ Slow(route)
             /\ timer' = (timer \/ one_go)
             /\ Unless(stale)
             /\ UNCHANGED <<dest, faults>>

ClickTranslate ==
    /\ Acts
    /\ timer' = FALSE
    /\ UNCHANGED <<open, source, route, one_go>>
    /\ DoTranslate(FALSE)

ToggleOneGo ==
    /\ Acts
    /\ one_go' = ~one_go
    /\ timer' = (timer /\ one_go')
    /\ UNCHANGED <<open, source, dest, route, request, dispatcher, faults>>

\* Another engine, language, provider, model or key.
ChangeRoute(r) ==
    /\ Acts /\ r # route
    /\ route' = r
    /\ Invalidate
    /\ UNCHANGED <<open, source, dest, one_go, timer, faults>>

\* A timer set for the text before may still run.
ClearText ==
    /\ Acts
    /\ source' = Empty /\ dest' = Notice("empty")
    /\ Invalidate
    /\ UNCHANGED <<open, route, one_go, timer, faults>>

\* unregister(): the dispatcher forgets the window, and its messages and its state go with it.
Close ==
    /\ Acts
    /\ open' = FALSE /\ timer' = FALSE
    /\ source' = Empty /\ dest' = Notice("empty") /\ one_go' = FALSE
    /\ in_flight_id' = 0 /\ last_submitted_source' = Empty
    /\ wanted' = 0 /\ answers' = << >> /\ posts' = 0
    /\ UNCHANGED <<route, requests, faults>>

Open ==
    /\ ~open /\ open' = TRUE
    /\ route' \in Route
    /\ UNCHANGED <<source, dest, one_go, timer, request, dispatcher, steps, faults>>

-----------------------------------------------------------------------------
(* The timer, the answers and their messages.                              *)

Timer ==
    /\ open /\ timer
    /\ timer' = FALSE
    /\ UNCHANGED <<open, source, route, one_go, steps>>
    /\ DoTranslate(FALSE)

\* What the dispatcher does: an answer whose message cannot be posted is dropped.
Answer ==
    /\ wanted # 0 /\ \A i \in 1..Len(answers) : answers[i] # wanted
    /\ \/ answers' = Append(answers, wanted) /\ posts' = posts + 1 /\ UNCHANGED <<wanted, faults>>
       \/ wanted' = 0 /\ Fails /\ UNCHANGED <<answers, posts>>
    /\ UNCHANGED <<open, source, dest, route, one_go, timer, request, requests, steps>>

\* handle_translation_complete.  An answer may be of an earlier request for the same text.
Complete ==
    /\ open /\ posts > 0 /\ posts' = posts - 1
    /\ UNCHANGED <<open, source, route, one_go, timer, requests, last_submitted_source, steps, faults>>
    /\ IF answers = << >>
       THEN UNCHANGED <<dest, in_flight_id, wanted, answers>>
       ELSE /\ answers' = Tail(answers)
            /\ wanted' = IF wanted = Head(answers) THEN 0 ELSE wanted
            /\ IF Head(answers) # in_flight_id
               THEN UNCHANGED <<dest, in_flight_id>>
               ELSE /\ in_flight_id' = 0
                    /\ dest' = IF source # last_submitted_source THEN dest
                               ELSE [kind |-> "translation", of |-> requests[Head(answers)],
                                     beside |-> [source |-> source, route |-> route]]

Next ==
    \/ \E text \in Text : Edit(text)
    \/ \E r \in Route : ChangeRoute(r)
    \/ ClickTranslate \/ ToggleOneGo \/ ClearText \/ Close \/ Open
    \/ Timer \/ Answer \/ Complete

Spec == Init /\ [][Next]_vars

-----------------------------------------------------------------------------
\* The request that the window waits for is for what its fields and boxes show, and the
\* dispatcher still answers it or has the answer, unless a call or a message failed.
RequestFitsWindow ==
    (open /\ in_flight_id # 0) =>
        /\ requests[in_flight_id] = [source |-> source, route |-> route]
        /\ last_submitted_source = source
        /\ wanted = in_flight_id \/ faults > 0

\* Each answer that waits has its message.
AnswersHaveMessages == Len(answers) <= posts

\* A translation was shown beside the text it is of, made by the route selected then.
TranslationFitsWindow == dest.kind = "translation" => dest.of = dest.beside
=============================================================================
