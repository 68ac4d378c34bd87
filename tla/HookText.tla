------------------------------ MODULE HookText ------------------------------
(***************************************************************************)
(* How the characters a hooked game prints become sentences.  The session  *)
(* thread stamps and decodes each text notification                        *)
(* (hook/worker/session.rs, hook/text_bridge/decode.rs) and queues it; the *)
(* UI thread collects the pieces by source in a TextMerger                 *)
(* (hook/text_bridge/merger.rs) and gives them out as sentences from a     *)
(* 10 ms timer (app/hook_text.rs).  A piece is one character, named by its *)
(* source and its place there; a window is measured in receipt times.      *)
(***************************************************************************)
EXTENDS Naturals, FiniteSets, SequencesExt

CONSTANTS
    Source,         \* text threads of the game (HookSource)
    Windows,        \* merge windows the user may set; 0 gives out every tick
    MaxTime,        \* last instant at which something is received
    MaxPieces,      \* characters the game prints
    MaxBuffer,      \* MAX_BUFFER_CHARS
    BatchSize,      \* HOOK_EVENT_BATCH_SIZE
    MaxSessions,
    MaxLostPosts,
    MaxWindowChanges,
    MaxWaits        \* menus and boxes that the UI thread waits in

VARIABLES
    now,
    printed,    \* [Source -> Seq(piece)]: what the game printed in this session
    half,       \* sources whose next byte is the second one of a character
    session,    \* [on, lead, hand, count]: the session thread, lead = LeadBytes.pending,
                \* hand = the event it has stamped and not queued yet
    events,     \* Seq of "attached", "detached" or a text event
    posted,     \* WM_APP_HOOK_STATE is in the message queue, or put aside
    lostPosts,
    merger,     \* [window, pending, deadlines, overLimit]
    changes,    \* window changes so far
    timer,      \* hook_merge_timer_active
    app,        \* [waits, held, deferred]: App is held by a handler that waits in a menu or a
                \* box; the messages put aside for its end, with one "tick" for any number of
                \* them in a row
    sentences   \* history: [Source -> [ids, last]]: the pieces given out, and for the last
                \* sentence when its last piece was received, the window in force and why it
                \* ended; "raced" if the session thread held another piece of the source,
                \* "replayed" if a tick that had been put aside ended it before queued events

vars == <<now, printed, half, session, events, posted, lostPosts, merger, changes, timer, app,
          sentences>>

None == [source |-> "none"]
NoText == << >>
NoSentence == [at |-> 0, window |-> 0, cut |-> "none"]
Ids(pieces) == [i \in DOMAIN pieces |-> pieces[i].id]

MaxWindow == Max(Windows)
Waiting == {s \in Source : merger.pending[s] # NoText}
PiecesPrinted == FoldSet(LAMBDA s, n : Len(printed[s]) + n, 0, Source)
NextPiece(s) == <<s, Len(printed[s]) + 1>>

TypeOK ==
    /\ now \in 0..(MaxTime + MaxWindow)
    /\ half \subseteq Source /\ session.lead \subseteq Source
    /\ session.on \in BOOLEAN /\ session.count \in 0..MaxSessions
    /\ posted \in BOOLEAN /\ timer \in BOOLEAN
    /\ app.waits \in 0..MaxWaits /\ app.held \in BOOLEAN /\ Len(app.deferred) <= 3
    /\ lostPosts \in 0..MaxLostPosts /\ changes \in 0..MaxWindowChanges
    /\ merger.window \in Windows /\ merger.overLimit \subseteq Source
    /\ \A s \in Source : IsInjective(merger.pending[s]) /\ Len(merger.pending[s]) <= MaxPieces

Init ==
    /\ now = 0
    /\ printed = [s \in Source |-> << >>]
    /\ half = {}
    /\ session = [on |-> FALSE, lead |-> {}, hand |-> None, count |-> 0]
    /\ events = << >> /\ posted = FALSE /\ lostPosts = 0
    /\ \E w \in Windows :
           merger = [window |-> w, pending |-> [s \in Source |-> NoText], deadlines |-> {},
                     overLimit |-> {}]
    /\ changes = 0
    /\ timer = FALSE
    /\ app = [waits |-> 0, held |-> FALSE, deferred |-> << >>]
    /\ sentences = [s \in Source |-> [ids |-> << >>, last |-> NoSentence]]

-----------------------------------------------------------------------------
(* The session thread.                                                     *)

\* push_event: the event is queued and one message announces it; only a post that
\* fails leaves events without a message.
Push(event) ==
    /\ events' = Append(events, event)
    /\ \/ posted' = TRUE /\ UNCHANGED lostPosts
       \/ ~posted /\ lostPosts < MaxLostPosts /\ posted' = FALSE /\ lostPosts' = lostPosts + 1

\* A session begins or ends; lead bytes are kept for one session only.
Attach ==
    /\ ~session.on /\ session.count < MaxSessions
    /\ session' = [on |-> TRUE, lead |-> {}, hand |-> None, count |-> session.count + 1]
    /\ half' = {}
    /\ Push([source |-> "attached"])
    /\ UNCHANGED <<now, printed, merger, changes, timer, app, sentences>>

Detach ==
    /\ session.on /\ session.hand = None
    /\ session' = [session EXCEPT !.on = FALSE]
    /\ Push([source |-> "detached"])
    /\ UNCHANGED <<now, printed, half, merger, changes, timer, app, sentences>>
(* Mutant: the second byte of any source completes the first byte of another. *)
LeadIsKeptForAll(s, byte) == byte = "first" /\ session.lead = {}

\* LeadBytes::decode: a first byte is kept, and the next byte of the same source
\* completes the character.  Anything else is a character of its own.
LeadIsKept(s, byte) == byte = "first" /\ s \notin session.lead

\* A byte is decoded: a first byte that is kept gives an empty text, which is not passed
\* on; anything else is a text at hand, stamped with the time its notification was read.
Decoded(s, byte) ==
    /\ half' = IF byte = "first" THEN half \cup {s} ELSE half \ {s}
    /\ printed' = IF byte = "first" THEN printed
                  ELSE [printed EXCEPT ![s] = Append(@, NextPiece(s))]
    /\ IF LeadIsKept(s, byte)
       THEN session' = [session EXCEPT !.lead = @ \cup {s}]
       ELSE session' = [session EXCEPT
                !.lead = @ \ {s},
                !.hand = [source |-> s, at |-> now, id |-> NextPiece(s),
                          broken |-> (byte = "first") \/ (byte = "second" /\ s \notin session.lead)
                                       \/ (byte = "whole" /\ s \in session.lead)]]

\* The game prints a byte: a whole character, or the first or second byte of one.
PrintByte(s) ==
    /\ session.on /\ session.hand = None
    /\ now <= MaxTime /\ PiecesPrinted + Cardinality(half \ {s}) < MaxPieces
    /\ \E byte \in IF s \in half THEN {"second"} ELSE {"whole", "first"} : Decoded(s, byte)
    /\ UNCHANGED <<now, events, posted, lostPosts, merger, changes, timer, app, sentences>>

QueueText ==
    /\ session.hand # None
    /\ Push(session.hand)
    /\ session' = [session EXCEPT !.hand = None]
    /\ UNCHANGED <<now, printed, half, merger, changes, timer, app, sentences>>

-----------------------------------------------------------------------------
(* The merger.  Each operator maps a state [merger, sentences] to the next *)

\* into_hook_text: the sources in S leave the buffer as finished sentences.
GiveOut(st, S, cut) ==
    [st EXCEPT
        !.merger.pending = [s \in Source |-> IF s \in S THEN NoText ELSE @[s]],
        !.merger.overLimit = @ \ S,
        !.sentences = [s \in Source |->
            IF s \in S /\ st.merger.pending[s] # NoText
            THEN [ids |-> @[s].ids \o Ids(st.merger.pending[s]),
                  last |-> [at |-> Last(st.merger.pending[s]).at, window |-> st.merger.window,
                            cut |-> IF session.hand.source = s THEN "raced" ELSE cut]]
            ELSE @[s]]]
\* A piece received a window or more after the last one begins a new sentence, however
\* late the UI takes it from its queue.
BeginsNew(m, text) ==
    /\ m.window > 0 /\ m.pending[text.source] # NoText
    /\ text.at >= Last(m.pending[text.source]).at + m.window

Collect(st, text) ==
    LET s == text.source
        m == st.merger
        buffer == Append(m.pending[s], [id |-> text.id, at |-> text.at, window |-> m.window])
    IN  [st EXCEPT !.merger = [m EXCEPT
            !.pending[s] = buffer,
            !.deadlines = IF m.window > 0 THEN @ \cup {<<text.at + m.window, s>>} ELSE @,
            !.overLimit = IF Len(buffer) > MaxBuffer THEN @ \cup {s} ELSE @]]

SubmitAt(st, text) ==
    Collect(IF BeginsNew(st.merger, text) THEN GiveOut(st, {text.source}, "gap") ELSE st, text)

\* drain_all
DrainAll(st, cut) ==
    LET out == GiveOut(st, Source, cut)
    IN  [out EXCEPT !.merger.deadlines = {}, !.merger.overLimit = {}]
(* Mutant: the deadlines of the old window stay. *)
DeadlinesKept(m, window) == m.deadlines

\* set_window_ms: what is collected stays, and its deadlines are computed anew.
Deadlines(m, window) ==
    IF window = 0 THEN {}
    ELSE {<<Last(m.pending[s]).at + window, s>> : s \in {t \in Source : m.pending[t] # NoText}}

\* flush_expired: a deadline that a later piece has outdated is dropped; a source whose
\* deadline is its current one is given out; then everything if the window is 0, and
\* every source that grew too long.
FlushExpired(st, cut) ==
    LET m == st.merger
        expired == {s \in Source : /\ m.window > 0 /\ m.pending[s] # NoText
                                   /\ <<Last(m.pending[s]).at + m.window, s>> \in m.deadlines
                                   /\ Last(m.pending[s]).at + m.window <= now}
        timed == GiveOut([st EXCEPT !.merger.deadlines = {d \in @ : d[1] > now}], expired, cut)
        all == IF m.window = 0 THEN GiveOut(timed, Source, "zero") ELSE timed
        long == GiveOut(all, all.merger.overLimit, "long")
    IN  [long EXCEPT !.merger.overLimit = {}]

-----------------------------------------------------------------------------
(* The UI thread.                                                          *)

State == [merger |-> merger, sentences |-> sentences, timer |-> timer]

\* The effect of one event.  SetTimer may fail when a session begins, and then every
\* piece is given out as it comes; an end discards what was collected and stops the timer.
Effects(st, event) ==
    CASE event.source = "attached" -> {[st EXCEPT !.timer = TRUE], st}
      [] event.source = "detached" -> {[DrainAll(st, "discarded") EXCEPT !.timer = FALSE]}
      [] OTHER -> {IF st.timer THEN SubmitAt(st, event) ELSE DrainAll(SubmitAt(st, event), "untimed")}

\* The states after the first n events.
AfterEvents(n) ==
    LET after[k \in 0..n] ==
            IF k = 0 THEN {State} ELSE UNION {Effects(st, events[k]) : st \in after[k - 1]}
    IN  after[n]

\* handle_hook_state: at most a batch, and another message for what is left.
HandleEvents ==
    LET n == IF Len(events) < BatchSize THEN Len(events) ELSE BatchSize
        rest == SubSeq(events, n + 1, Len(events))
    IN  /\ \E st \in AfterEvents(n) :
               /\ merger' = st.merger /\ sentences' = st.sentences /\ timer' = st.timer
        /\ events' = rest
        /\ posted' = (rest # << >>)
        /\ UNCHANGED <<now, printed, half, session, lostPosts, changes>>

\* handle_hook_merge_timer; it asks for the message that a lost post left out.
Tick(cut) ==
    LET st == FlushExpired(State, cut)
    IN  /\ merger' = st.merger /\ sentences' = st.sentences
        /\ posted' = (posted \/ events # << >>)
        /\ UNCHANGED <<now, printed, half, session, events, lostPosts, changes, timer>>

InQueue == posted /\ ~Contains(app.deferred, "state")
NextDeferred(message) == ~app.held /\ app.deferred # << >> /\ Head(app.deferred) = message

\* The message comes while App is free.  Messages put aside are handled 32 at a time, so it may
\* overtake ticks.
HandleHookState == ~app.held /\ InQueue /\ HandleEvents /\ UNCHANGED app

\* Windows makes up WM_TIMER only when no message is posted.
MergeTick ==
    /\ timer /\ ~posted /\ ~app.held /\ app.deferred = << >>
    /\ Tick("expired")
    /\ UNCHANGED app

\* A handler begins and ends to wait in a menu or a box, and holds App the while.
BeginWait ==
    /\ ~app.held /\ app.waits < MaxWaits
    /\ app' = [app EXCEPT !.held = TRUE, !.waits = @ + 1]
    /\ UNCHANGED <<now, printed, half, session, events, posted, lostPosts, merger, changes, timer, sentences>>
EndWait ==
    /\ app.held /\ app' = [app EXCEPT !.held = FALSE]
    /\ UNCHANGED <<now, printed, half, session, events, posted, lostPosts, merger, changes, timer, sentences>>

\* handle_reentry: what comes meanwhile is put aside.
PutAside(message) ==
    /\ app.held /\ app' = [app EXCEPT !.deferred = Append(@, message)]
    /\ UNCHANGED <<now, printed, half, session, events, posted, lostPosts, merger, changes, timer, sentences>>
DeferState == InQueue /\ PutAside("state")
DeferTick ==
    /\ timer /\ ~InQueue
    /\ ~(app.deferred # << >> /\ Last(app.deferred) = "tick")
    /\ PutAside("tick")

\* drain_deferred_messages: in their order.  A tick looks at the time of now, and stands for
\* several.
ReplayState ==
    /\ NextDeferred("state") /\ HandleEvents
    /\ app' = [app EXCEPT !.deferred = Tail(@)]
ReplayTick ==
    /\ NextDeferred("tick")
    /\ Tick(IF events = << >> THEN "expired" ELSE "replayed")
    /\ app' = [app EXCEPT !.deferred = Tail(@)] \/ UNCHANGED app

\* The settings and the hook window set another merge window, by an action of App.
SetWindow(window) ==
    /\ ~app.held /\ changes < MaxWindowChanges /\ window # merger.window
    /\ changes' = changes + 1
    /\ merger' = [merger EXCEPT !.window = window, !.deadlines = Deadlines(merger, window)]
    /\ UNCHANGED <<now, printed, half, session, events, posted, lostPosts, timer, app, sentences>>

Pass ==
    /\ now < MaxTime + MaxWindow
    /\ now' = now + 1
    /\ UNCHANGED <<printed, half, session, events, posted, lostPosts, merger, changes, timer, app, sentences>>

-----------------------------------------------------------------------------
Session == Attach \/ Detach \/ QueueText \/ \E s \in Source : PrintByte(s)
Ui == HandleHookState \/ MergeTick \/ ReplayState \/ ReplayTick
Waits == BeginWait \/ EndWait \/ DeferState \/ DeferTick

Next == Session \/ Ui \/ Waits \/ (\E w \in Windows : SetWindow(w)) \/ Pass

\* Windows delivers what is posted and lets a timer through when nothing is; menus and boxes are
\* answered; a thread that has read an event queues it; time passes.
Progress == QueueText \/ Ui \/ EndWait

-----------------------------------------------------------------------------
\* The events of a sequence that are texts of s, in their order.
OfSource(s, way) ==
    LET of[k \in 0..Len(way)] ==
            IF k = 0 THEN << >> ELSE IF way[k].source = s THEN Append(of[k - 1], way[k]) ELSE of[k - 1]
    IN  of[Len(way)]

\* The texts of s on their way to the merger.
Texts(s) == OfSource(s, Append(events, session.hand))

\* Until a session ends, what the game prints on a text thread is on its way to the user
\* once and in order, whatever the other threads print in between; and no character is
\* decoded from half of its bytes.
TextsInOrder ==
    \A s \in Source :
        /\ sentences[s].ids \o Ids(merger.pending[s] \o Texts(s)) = printed[s]
        /\ \A i \in DOMAIN Texts(s) : ~Texts(s)[i].broken

\* The merge window is measured in receipt times (merger.rs: it must not matter how many
\* events the UI takes at once, or how late).  Two pieces share a sentence only if the
\* second was received within the window of the first; and a source's sentence ends
\* between two pieces received within the window only because it grew too long, the
\* window is 0, the session ended or has no timer, or the second piece was being queued.
\* The timer may run ahead of queued pieces when a notification was lost, or when its tick
\* was put aside for the end of a menu or a box.
SentencesFollowReceipt ==
    \A s \in Source :
        LET pieces == merger.pending[s]  last == sentences[s].last
        IN  /\ \A i \in 2..Len(pieces) :
                   pieces[i].window = 0 \/ pieces[i].at < pieces[i - 1].at + pieces[i].window
            /\ pieces # NoText /\ last.cut = "expired" /\ lostPosts = 0 =>
                   Head(pieces).at >= last.at + last.window

\* merger.rs:35-36: however late the UI thread takes the pieces from its queue, what was received
\* within the window of the piece before is merged with it.
ResultFollowsReceipt ==
    \A s \in Source :
        LET pieces == merger.pending[s]  last == sentences[s].last
        IN  pieces # NoText /\ last.cut \in {"expired", "replayed"} /\ lostPosts = 0 =>
                Head(pieces).at >= last.at + last.window

\* While the session has its timer, what was received comes out as a sentence without
\* waiting for more text, also when the window was changed in the meantime.
SentencesComeOut == timer ~> (Waiting = {} /\ events = << >>) \/ ~timer

=============================================================================
