------------------------------ MODULE Backlog ------------------------------
(***************************************************************************)
(* The backlog of translated texts (app/backlog.rs) and its window         *)
(* (dialogs/backlog): the window has a copy of the store, and the control  *)
(* that shows it is brought up to date by what was appended and evicted.   *)
(* Texts that come while a handler of the window waits in a box of its own *)
(* wait too.  A worker saves the window's copy to a file.                  *)
(***************************************************************************)
EXTENDS Naturals, Sequences, SequencesExt

CONSTANTS
    Sizes,          \* bytes of a text, all of characters of one byte
    LineEnds,       \* line ends that an entry is shown with, after the filter and the line feed
    MaxEntries,     \* MAX_BACKLOG_ENTRIES
    MaxBytes,       \* MAX_BACKLOG_TEXT_BYTES
    MaxTexts,       \* bound: texts that are translated
    MaxSteps,       \* bound: what the user does in the window
    MaxLostPosts    \* bound: messages that cannot be posted

VARIABLES
    model,      \* the application's store
    clears,     \* ClearBacklog actions on their way to the application
    window,     \* "closed", "open", or the handler that waits in a box: "command", "result"
    store,      \* the window's copy
    shown,      \* the entries that the control was given and is counted to hold (rendered_lengths)
    ends,       \* the line ends of each of them
    lost,       \* positions that the control lacks at the front of their text
    pending,    \* PENDING_BACKLOG_ENTRIES
    dirty,      \* BACKLOG_VIEW_DIRTY
    save,       \* [token, running] of the window
    workers,    \* tokens of the workers that still write
    results,    \* WM_BACKLOG_SAVE_RESULT messages, by their token
    texts, steps, tokens, lostPosts

vars == <<model, clears, window, store, shown, ends, lost, pending, dirty, save, workers, results,
          texts, steps, tokens, lostPosts>>
control == <<shown, ends, lost>>
saveVars == <<save, workers, results, tokens, lostPosts>>

NoSave == [token |-> 0, running |-> FALSE]

Init ==
    /\ model = << >> /\ clears = 0
    /\ window = "closed" /\ store = << >> /\ shown = << >> /\ ends = 0 /\ lost = 0
    /\ pending = << >> /\ dirty = FALSE
    /\ save = NoSave /\ workers = {} /\ results = {}
    /\ texts = 0 /\ steps = 0 /\ tokens = 0 /\ lostPosts = 0

-----------------------------------------------------------------------------
(* The store.                                                              *)

Bytes(s) == FoldLeft(LAMBDA sum, e : sum + e.size, 0, s)

\* The newest entry stays, however large it is.
Fits(s) == Len(s) <= MaxEntries /\ (Bytes(s) <= MaxBytes \/ Len(s) <= 1)

\* The loop that evicts from the front: what is left is the longest end that fits.
Evict(s) ==
    LET from == CHOOSE i \in 1..Len(s) :
                    /\ Fits(SubSeq(s, i, Len(s)))
                    /\ \A j \in 1..(i - 1) : ~Fits(SubSeq(s, j, Len(s)))
    IN  SubSeq(s, from, Len(s))

Push(s, e) == Evict(Append(s, e))

PushAll(s, entries) ==
    LET pushed[n \in 0..Len(entries)] ==
            IF n = 0 THEN s ELSE Push(pushed[n - 1], entries[n])
    IN  pushed[Len(entries)]

\* What waits is added to the copy.
Drained(s) == PushAll(s, pending)

\* The front of the control is trimmed to as many entries as the store holds.
Trimmed(rendered, entries) ==
    IF Len(rendered) <= Len(entries) THEN rendered
    ELSE SubSeq(rendered, Len(rendered) - Len(entries) + 1, Len(rendered))

\* The control has one character for a line end.
Positions(rendered) == Bytes(rendered) + Len(rendered) * ends

\* render_entry_lengths counts a line end as two characters, and so much is cut: for each entry
\* trimmed as much too much as it has line ends, out of those behind it.
Cut(rest, trimmed) ==
    IF trimmed = 0 THEN lost
    ELSE LET wanted == lost + trimmed * ends
         IN  IF wanted <= Positions(rest) THEN wanted ELSE Positions(rest)

-----------------------------------------------------------------------------
(* The application.                                                        *)

\* A redraw shows the whole copy.
Draw(entries) == shown' = entries /\ lost' = 0

\* append_entry
AppendEntry(e) ==
    /\ store' = Push(Drained(store), e)
    /\ IF pending # << >> \/ dirty THEN Draw(store')
       ELSE LET rest == Trimmed(shown, store')
            IN  shown' = Append(rest, e) /\ lost' = Cut(rest, Len(shown) - Len(rest))
    /\ pending' = << >> /\ dirty' = FALSE /\ UNCHANGED ends

PushBacklog ==
    /\ texts < MaxTexts
    /\ \E size \in Sizes :
        LET e == [id |-> texts + 1, size |-> size]
        IN  /\ texts' = e.id
            /\ model' = Push(model, e)
            /\ \/ window = "open" /\ AppendEntry(e)
               \/ /\ window \in {"command", "result"}
                  /\ pending' = Append(pending, e) /\ dirty' = TRUE
                  /\ UNCHANGED <<store, control>>
               \/ window = "closed" /\ UNCHANGED <<store, control, pending, dirty>>
    /\ UNCHANGED <<clears, window, steps, saveVars>>

ClearBacklog ==
    /\ clears > 0 /\ clears' = clears - 1
    /\ model' = << >>
    /\ UNCHANGED <<window, store, control, pending, dirty, texts, steps, saveVars>>

-----------------------------------------------------------------------------
(* The window.                                                             *)

Step == steps < MaxSteps /\ steps' = steps + 1 /\ UNCHANGED texts

(* Mutant: what waited for an earlier window waits for the new one. *)
OpenKeepsPending ==
    /\ Step /\ window = "closed"
    /\ window' = "open"
    /\ store' = model /\ Draw(model) /\ ends' = Max(LineEnds)
    /\ save' = NoSave
    /\ UNCHANGED <<model, clears, pending, dirty, workers, results, tokens, lostPosts>>

\* The copy is taken when the window opens.
Open ==
    /\ Step /\ window = "closed"
    /\ window' = "open"
    /\ store' = model /\ Draw(model) /\ ends' = Max(LineEnds)
    /\ pending' = << >> /\ dirty' = FALSE
    /\ save' = NoSave
    /\ UNCHANGED <<model, clears, workers, results, tokens, lostPosts>>

Close ==
    /\ Step /\ window = "open"
    /\ window' = "closed"
    /\ save' = NoSave /\ results' = {}
    /\ UNCHANGED <<model, clears, store, control, pending, dirty, workers, tokens, lostPosts>>

\* refresh_if_dirty, with which every command ends.
RefreshIfDirty ==
    IF dirty
    THEN store' = Drained(store) /\ Draw(store') /\ pending' = << >> /\ dirty' = FALSE
    ELSE UNCHANGED <<store, shown, lost, pending, dirty>>

Redrawn ==
    IF dirty THEN RefreshIfDirty ELSE Draw(store) /\ UNCHANGED <<store, pending, dirty>>

\* The filters and the line feed draw the copy anew.
Redraw ==
    /\ Step /\ window = "open"
    /\ ends' \in LineEnds /\ Redrawn
    /\ UNCHANGED <<model, clears, window, saveVars>>

\* What waits comes into a copy that has been emptied.
ClearView ==
    /\ Step /\ window = "open"
    /\ clears' = clears + 1
    /\ store' = Drained(<< >>) /\ Draw(store')
    /\ pending' = << >> /\ dirty' = FALSE
    /\ UNCHANGED <<model, window, ends, saveVars>>

\* The box for a font, or for the path of the file.
OpenBox ==
    /\ Step /\ window = "open"
    /\ window' = "command"
    /\ UNCHANGED <<model, clears, store, control, pending, dirty, saveVars>>

BoxEnds ==
    /\ window = "command" /\ window' = "open"
    /\ RefreshIfDirty \/ Redrawn        \* left, or a font chosen
    /\ UNCHANGED <<model, clears, ends, texts, steps, saveVars>>

\* The worker writes the copy as it was when the path was chosen.
StartSave ==
    /\ window = "command" /\ window' = "open"
    /\ ~save.running
    /\ tokens' = tokens + 1
    /\ save' = [token |-> tokens', running |-> TRUE]
    /\ workers' = workers \cup {tokens'}
    /\ RefreshIfDirty
    /\ UNCHANGED <<model, clears, ends, texts, steps, results, lostPosts>>

\* The message goes to the window that started the save, or to a later one with its handle.
SaveEnds(t) ==
    /\ t \in workers
    /\ workers' = workers \ {t}
    /\ \/ window # "closed" /\ results' = results \cup {t} /\ UNCHANGED lostPosts
       \/ save.token # t /\ UNCHANGED <<results, lostPosts>>
       \/ lostPosts < MaxLostPosts /\ lostPosts' = lostPosts + 1 /\ UNCHANGED results
    /\ UNCHANGED <<model, clears, window, store, control, pending, dirty, save, texts, steps, tokens>>

\* A write that failed is told in a box.
SaveResult(t) ==
    /\ t \in results /\ window = "open"
    /\ results' = results \ {t}
    /\ IF t = save.token
       THEN save' = [save EXCEPT !.running = FALSE] /\ window' \in {"open", "result"}
       ELSE UNCHANGED <<save, window>>
    /\ UNCHANGED <<model, clears, store, control, pending, dirty, workers, texts, steps, tokens,
                   lostPosts>>

\* What came while the box was open waits for the next command or text.
ResultBoxEnds ==
    /\ window = "result" /\ window' = "open"
    /\ UNCHANGED <<model, clears, store, control, pending, dirty, texts, steps, saveVars>>

User == Open \/ Close \/ Redraw \/ ClearView \/ OpenBox \/ BoxEnds \/ StartSave \/ ResultBoxEnds

Next ==
    \/ PushBacklog \/ ClearBacklog \/ User
    \/ \E t \in 1..tokens : SaveEnds(t) \/ SaveResult(t)

Spec == Init /\ [][Next]_vars

-----------------------------------------------------------------------------
\* The control shows exactly the window's copy until something is evicted.  After that it was
\* given the copy and the entry evicted last, and with every eviction it lacks more of the front
\* of that text, because the cut takes a line end for two characters, until it is drawn anew.
ControlShowsCopy ==
    window = "open" =>
        \/ shown = store /\ lost = 0
        \/ shown # << >> /\ Tail(shown) = store

\* What the window holds, with what waits for it, ends with all that the application holds,
\* in its order: nothing is missing and nothing comes twice.  A clear reaches the application
\* later, which then holds less.
CopyHoldsModel ==
    window # "closed" =>
        LET copy == Drained(store)
        IN  /\ clears = 0 => IsSuffix(model, copy)
            /\ \A i \in 1..(Len(copy) - 1) : copy[i].id < copy[i + 1].id

\* A save that is said to run ends: its worker writes, or its result is on its way, unless the
\* message was lost.
SavesSettle ==
    (window # "closed" /\ save.running) =>
        save.token \in workers \cup results \/ lostPosts > 0
=============================================================================
