--------------------------- MODULE FileTranslation ---------------------------
(***************************************************************************)
(* File translation (file_trans/ and its two dialogs): a supervisor owns   *)
(* one thread per job; a thread checks its input files, then reads,        *)
(* translates and writes each of them batch by batch into a temporary file *)
(* that replaces the output only when it is complete.  The lines of a      *)
(* batch go to an HTTP engine under a semaphore, or as one window to the   *)
(* ezTrans helpers (EzTransPool).  Events go through a channel to the      *)
(* progress window, which drains it by a timer and owns the job's task:    *)
(* dropping the task cancels the job.                                      *)
(***************************************************************************)
EXTENDS Integers, Sequences, FiniteSets

CONSTANTS
    Jobs,           \* jobs, numbered in the order they are started
    Engines,        \* subset of {"http", "eztrans"}
    FileEnds,       \* a sequence: how many lines the input files up to each have together
    Blank,          \* <<file, line>> of the lines that need no translation
    BatchLines,     \* FILE_HTTP_BATCH_LINES, or the lines of a window
    Permits,        \* FILE_HTTP_CONCURRENCY
    Interval,       \* PROGRESS_REPORT_INTERVAL
    Budget,         \* EVENT_BUDGET
    MaxFaults       \* bound: calls of the system that fail

TotalLines(f) == IF f = 0 THEN 0 ELSE FileEnds[f]
FileLines == [f \in 1..Len(FileEnds) |-> TotalLines(f) - TotalLines(f - 1)]
Files == 1..Len(FileLines)
NoJob == 0
NoFile == <<"no file">>
Old == <<"old">>

VARIABLES
    engine,     \* engine[j]: the engine of the job
    worker,     \* worker[j]: [pc, file, line]; line is the last line written
    task,       \* task[j]: the lines of the batch that are not written yet
    temp,       \* temp[j]: the lines in the temporary file
    cancelled,  \* cancelled[j]: the job's token
    result,     \* result[j]: what Finished carried
    output,     \* output[f]: what the output path holds
    events,     \* events[j]: the channel of the job
    workers,    \* the supervisor's map: jobs whose thread is not joined
    service,    \* "open", "closing" (in shutdown), "joined" or "detached"
    dialog,     \* the progress window: [job, file, bar, total, state]
    faults

workerVars == <<engine, worker, task, temp, result, output>>
uiVars == <<workers, service, dialog>>
vars == <<workerVars, cancelled, events, uiVars, faults>>

NoDialog == [job |-> NoJob, file |-> 0, bar |-> <<0, 0>>, total |-> 0, state |-> "none"]

Init ==
    /\ engine \in [Jobs -> Engines]
    /\ worker = [j \in Jobs |-> [pc |-> "none", file |-> 0, line |-> 0]]
    /\ task = [j \in Jobs |-> << >>]
    /\ temp = [j \in Jobs |-> NoFile]
    /\ cancelled = [j \in Jobs |-> FALSE]
    /\ result = [j \in Jobs |-> "none"]
    /\ output = [f \in Files |-> Old]
    /\ events = [j \in Jobs |-> << >>]
    /\ workers = {}
    /\ service = "open"
    /\ dialog = NoDialog
    /\ faults = 0

Fault == faults < MaxFaults /\ faults' = faults + 1
Goto(j, pc) == worker' = [worker EXCEPT ![j].pc = pc]
Send(j, s) == events' = [events EXCEPT ![j] = @ \o s]
Event(kind, file, value) == [kind |-> kind, file |-> file, value |-> value]

-----------------------------------------------------------------------------
(* The worker thread: run_with_services                                    *)

\* Another ezTrans job may have put a pool of its own in the registry.
PoolReplaced(j) ==
    /\ engine[j] = "eztrans" /\ worker[j].pc \notin {"preflight", "pool"}
    /\ \E i \in Jobs \ {j} :
         engine[i] = "eztrans" /\ worker[i].pc \notin {"none", "preflight", "pool"}

\* run_inner returns: the temporary file is dropped, a pool of which this was the last owner
\* too, and Finished is sent.
FinishAfter(j, sent, r) ==
    /\ \/ Goto(j, "finished") /\ Send(j, sent \o <<Event("Finished", 0, 0)>>)
       \/ PoolReplaced(j) /\ Goto(j, "drop") /\ Send(j, sent)
    /\ result' = [result EXCEPT ![j] = r]
    /\ temp' = [temp EXCEPT ![j] = NoFile]
    /\ task' = [task EXCEPT ![j] = << >>]
    /\ UNCHANGED <<engine, output, cancelled, uiVars>>
Finish(j, r) == FinishAfter(j, << >>, r)

\* Paths and every input are checked and counted before anything is written.
Preflight(j) ==
    /\ worker[j].pc = "preflight"
    /\ \/ cancelled[j] /\ Finish(j, "cancelled") /\ UNCHANGED faults
       \/ Fault /\ Finish(j, "error")
       \/ /\ ~cancelled[j] /\ Goto(j, IF engine[j] = "http" THEN "file" ELSE "pool")
          /\ UNCHANGED <<engine, task, temp, result, output, events, cancelled, uiVars, faults>>

\* The registry hands out its pool, or starts one and drops the one before.  Nobody looks at
\* the token meanwhile, and nothing limits the wait for the lock, for the helpers to be
\* ready and for the threads of the pool that is dropped.
GetPool(j) ==
    /\ worker[j].pc = "pool"
    /\ \/ Fault /\ Finish(j, "error")
       \/ /\ Goto(j, "file")
          /\ UNCHANGED <<engine, task, temp, result, output, events, cancelled, uiVars, faults>>

\* The threads of the pool that was replaced have ended.
DropPool(j) ==
    /\ worker[j].pc = "drop"
    /\ Goto(j, "finished")
    /\ Send(j, <<Event("Finished", 0, 0)>>)
    /\ UNCHANGED <<engine, task, temp, result, output, cancelled, uiVars, faults>>

NextFile(j) ==
    /\ worker[j].pc = "file"
    /\ LET f == worker[j].file + 1
       IN  \/ f > Len(FileLines) /\ Finish(j, "ok") /\ UNCHANGED faults
           \/ f <= Len(FileLines) /\ cancelled[j] /\ Finish(j, "cancelled") /\ UNCHANGED faults
           \/ /\ f <= Len(FileLines) /\ ~cancelled[j] /\ Fault
              /\ FinishAfter(j, <<Event("FileName", f, 0)>>, "error")
           \/ /\ f <= Len(FileLines) /\ ~cancelled[j]
              /\ worker' = [worker EXCEPT ![j] = [pc |-> "read", file |-> f, line |-> 0]]
              /\ temp' = [temp EXCEPT ![j] = << >>]
              /\ Send(j, <<Event("FileName", f, 0)>>)
              /\ UNCHANGED <<engine, task, result, output, cancelled, uiVars, faults>>

LinesLeft(j) == FileLines[worker[j].file] - worker[j].line
BatchCount(j) == IF LinesLeft(j) < BatchLines THEN LinesLeft(j) ELSE BatchLines
IsBlank(j, k) == <<worker[j].file, worker[j].line + k>> \in Blank

\* collect_batch, which may fail to read, then the token; blank lines get no task and stay as they are.
StartBatch(j) ==
    /\ worker[j].pc = "read" /\ LinesLeft(j) > 0
    /\ \/ Fault /\ Finish(j, "error")
       \/ cancelled[j] /\ Finish(j, "cancelled") /\ UNCHANGED faults
       \/ /\ ~cancelled[j]
          /\ Goto(j, IF engine[j] = "http" THEN "lines" ELSE "window")
          /\ task' = [task EXCEPT ![j] = [k \in 1..BatchCount(j) |->
                              IF IsBlank(j, k) THEN "original" ELSE "spawned"]]
          /\ UNCHANGED <<engine, temp, result, output, cancelled, events, uiVars, faults>>

\* translate_line_task: a permit, then the token, then the request.
StartLine(j, k) ==
    /\ worker[j].pc = "lines" /\ task[j][k] = "spawned"
    /\ Cardinality({i \in DOMAIN task[j] : task[j][i] = "running"}) < Permits
    /\ task' = [task EXCEPT ![j][k] = IF cancelled[j] THEN "marked cancelled" ELSE "running"]
    /\ UNCHANGED <<engine, worker, temp, result, output, cancelled, events, uiVars, faults>>

\* The engine answers, fails or panics: a failure becomes a mark in the output.
EndLine(j, k) ==
    /\ worker[j].pc = "lines" /\ task[j][k] = "running"
    /\ \E r \in {"translated", "marked failed"} : task' = [task EXCEPT ![j][k] = r]
    /\ UNCHANGED <<engine, worker, temp, result, output, cancelled, events, uiVars, faults>>

Pending(j) == \E k \in DOMAIN task[j] : task[j][k] \in {"spawned", "running"}

\* The drain branch of select! ends: the token is read again, because lines may have
\* been marked as cancelled before the 20 ms poll saw the token.
LinesDrained(j) ==
    /\ worker[j].pc = "lines" /\ ~Pending(j)
    /\ IF cancelled[j] THEN Finish(j, "cancelled")
       ELSE /\ Goto(j, "write")
            /\ UNCHANGED <<engine, task, temp, result, output, events, cancelled, uiVars>>
    /\ UNCHANGED faults

(* Mutant: cancellation waits for the lines that run. *)
LinesCancelledLate(j) ==
    /\ worker[j].pc = "lines" /\ cancelled[j] /\ ~Pending(j)
    /\ Finish(j, "cancelled")
    /\ UNCHANGED faults

\* wait_for_cancellation: the tasks are dropped with the requests that run.
LinesCancelled(j) ==
    /\ worker[j].pc = "lines" /\ cancelled[j]
    /\ Finish(j, "cancelled")
    /\ UNCHANGED faults

\* translate_eztrans_window: the pool's answer.  Its error is a backend error, the
\* cancelled call's too.
TranslateWindow(j) ==
    /\ worker[j].pc = "window"
    /\ \/ cancelled[j] /\ Finish(j, "error") /\ UNCHANGED faults
       \/ Fault /\ Finish(j, "error")
       \/ /\ \E r \in {"translated", "marked failed"} :
               task' = [task EXCEPT ![j] = [k \in DOMAIN @ |->
                            IF @[k] = "spawned" THEN r ELSE @[k]]]
          /\ Goto(j, "write")
          /\ UNCHANGED <<engine, temp, result, output, events, cancelled, uiVars, faults>>

(* Mutant: a line that failed is skipped. *)
WrittenUnlessFailed(j) ==
    IF Head(task[j]) = "marked failed" THEN << >> ELSE <<Head(task[j])>>

\* A line that failed is written with its mark.
Written(j) == <<Head(task[j])>>

\* One turn of write_batch: the line, the progress, the token.
WriteLine(j) ==
    LET f == worker[j].file
        n == worker[j].line + 1
        progress == IF n = 1 \/ n = FileLines[f] \/ n % Interval = 0
                    THEN <<Event("FileProgress", f, n),
                           Event("TotalProgress", f, TotalLines(f - 1) + n)>>
                    ELSE << >>
    IN  /\ worker[j].pc = "write"
        /\ \/ Fault /\ FinishAfter(j, << >>, "error")
           \/ cancelled[j] /\ FinishAfter(j, progress, "cancelled") /\ UNCHANGED faults
           \/ /\ ~cancelled[j]
              /\ temp' = [temp EXCEPT ![j] = @ \o Written(j)]
              /\ task' = [task EXCEPT ![j] = Tail(@)]
              /\ worker' = [worker EXCEPT ![j].line = n,
                                ![j].pc = IF Tail(task[j]) = << >> THEN "read" ELSE "write"]
              /\ Send(j, progress)
              /\ UNCHANGED <<engine, result, output, cancelled, uiVars, faults>>

\* PendingOutput::persist: flush, sync and replace; a crash leaves the old output or
\* the new one.
Persist(j) ==
    /\ worker[j].pc = "read" /\ LinesLeft(j) = 0
    /\ \/ Fault /\ Finish(j, "error")
       \/ /\ output' = [output EXCEPT ![worker[j].file] = temp[j]]
          /\ temp' = [temp EXCEPT ![j] = NoFile]
          /\ Goto(j, "file")
          /\ UNCHANGED <<engine, task, result, events, cancelled, uiVars, faults>>

\* The closure of the thread returns and the thread ends.
Exit(j) ==
    /\ worker[j].pc = "finished"
    /\ Goto(j, "exited")
    /\ UNCHANGED <<engine, task, temp, result, output, events, cancelled, uiVars, faults>>

-----------------------------------------------------------------------------
(* The UI thread: FileTransDialog, FileTranslationSupervisor               *)

Exited(j) == worker[j].pc = "exited"

\* reap_finished: the handles of threads that ended are joined.
Reaped == {j \in workers : Exited(j)}

\* start_translation: refused while a progress window is open.  The job is started
\* first; without its window the task is dropped, which cancels the job.
StartTranslation(j) ==
    /\ service = "open" /\ dialog.state = "none"
    /\ worker[j].pc = "none" /\ \A i \in Jobs : i < j => worker[i].pc # "none"
    /\ Goto(j, "preflight")
    /\ workers' = (workers \ Reaped) \cup {j}
    /\ \/ /\ dialog' = [NoDialog EXCEPT !.job = j, !.state = "running"]
          /\ UNCHANGED <<cancelled, faults>>
       \/ /\ Fault
          /\ cancelled' = [cancelled EXCEPT ![j] = TRUE]
          /\ UNCHANGED dialog
    /\ UNCHANGED <<engine, task, temp, result, output, events, service>>

\* handle_cancel: the button, Escape and the window's close button.
CancelClicked ==
    /\ service = "open" /\ dialog.state \in {"running", "stuck"}
    /\ cancelled' = [cancelled EXCEPT ![dialog.job] = TRUE]
    /\ UNCHANGED <<workerVars, events, uiVars, faults>>

Any(s, kind) == \E i \in 1..Len(s) : s[i].kind = kind
IsLatest(s, i, kind) ==
    s[i].kind = kind /\ \A m \in (i + 1)..Len(s) : s[m].kind # kind
Latest(s, kind) == s[CHOOSE i \in 1..Len(s) : IsLatest(s, i, kind)]

\* drain_events_budgeted: of the progress only the last is kept, behind the names and before
\* the end.  handle_progress_event shows them in this order; a new file resets the bar.
Shown(d, s) ==
    [d EXCEPT
       !.file = IF Any(s, "FileName") THEN Latest(s, "FileName").file ELSE @,
       !.bar = IF Any(s, "FileProgress")
               THEN <<Latest(s, "FileProgress").file, Latest(s, "FileProgress").value>>
               ELSE IF Any(s, "FileName") THEN <<Latest(s, "FileName").file, 0>> ELSE @,
       !.total = IF Any(s, "TotalProgress") THEN Latest(s, "TotalProgress").value ELSE @,
       !.state = IF Any(s, "Finished") THEN "finished" ELSE @]

\* The poll timer; the message box of the result is modal and the window's timer does
\* nothing meanwhile.
PollEvents ==
    LET j == dialog.job
        n == IF Len(events[j]) < Budget THEN Len(events[j]) ELSE Budget
    IN  /\ service = "open" /\ dialog.state = "running" /\ n > 0
        /\ dialog' = Shown(dialog, SubSeq(events[j], 1, n))
        /\ events' = [events EXCEPT ![j] = SubSeq(@, n + 1, Len(@))]
        /\ UNCHANGED <<workerVars, cancelled, workers, service, faults>>

\* WM_PROGRESS_FINISH closes the window; when it cannot be posted the window stays.
CloseProgress ==
    /\ service = "open" /\ dialog.state = "finished"
    /\ \/ dialog' = NoDialog /\ cancelled' = [cancelled EXCEPT ![dialog.job] = TRUE]
          /\ UNCHANGED faults
       \/ Fault /\ dialog' = [dialog EXCEPT !.state = "stuck"] /\ UNCHANGED cancelled
    /\ UNCHANGED <<workerVars, events, workers, service>>

\* The application ends: the windows are gone and shutdown() has begun.
BeginShutdown ==
    /\ service = "open"
    /\ service' = "closing"
    /\ dialog' = NoDialog
    /\ cancelled' = [j \in Jobs |-> cancelled[j] \/ dialog.job = j]
    /\ UNCHANGED <<workerVars, events, workers, faults>>

\* One turn of the loop: all are cancelled, those that ended are joined.
ShutdownTurn ==
    /\ service = "closing"
    /\ cancelled' = [j \in Jobs |-> cancelled[j] \/ j \in workers]
    /\ workers' = workers \ Reaped
    /\ service' = IF workers' = {} THEN "joined" ELSE service
    /\ UNCHANGED <<workerVars, events, dialog, faults>>

\* The deadline: what still runs is detached.
ShutdownDeadline ==
    /\ service = "closing"
    /\ workers' = {}
    /\ service' = "detached"
    /\ UNCHANGED <<workerVars, cancelled, events, dialog, faults>>

WorkerStep(j) ==
    \/ Preflight(j) \/ NextFile(j) \/ StartBatch(j) \/ TranslateWindow(j)
    \/ LinesDrained(j) \/ LinesCancelled(j) \/ WriteLine(j) \/ Persist(j) \/ Exit(j)
    \/ \E k \in DOMAIN task[j] : StartLine(j, k)

Next ==
    \/ \E j \in Jobs : WorkerStep(j) \/ GetPool(j) \/ DropPool(j)
                          \/ \E k \in DOMAIN task[j] : EndLine(j, k)
    \/ \E j \in Jobs : StartTranslation(j)
    \/ CancelClicked \/ PollEvents \/ CloseProgress
    \/ BeginShutdown \/ ShutdownTurn \/ ShutdownDeadline

\* Some thread that can take a step does, or the window's timer comes; no engine is assumed
\* to answer, no pool to be had or to be dropped.  Jobs are finite, so a job is not held back
\* by the others for ever.
Progress ==
    (\E j \in Jobs : WorkerStep(j)) \/ PollEvents \/ CloseProgress \/ ShutdownTurn
Fairness == WF_vars(Progress)

Steps == Init /\ [][Next]_vars
Spec == Steps /\ Fairness

-----------------------------------------------------------------------------
(* Properties                                                              *)

Results == {"translated", "marked failed", "original"}

\* The variables stay in their types, and a job has a temporary file only while it
\* works on a file.
TypeOK ==
    /\ \A j \in Jobs :
         /\ worker[j].pc \in {"none", "preflight", "pool", "file", "read", "lines",
                              "window", "write", "drop", "finished", "exited"}
         /\ (temp[j] # NoFile) <=> worker[j].pc \in {"read", "lines", "window", "write"}
         /\ Len(task[j]) <= BatchLines
         /\ result[j] \in {"none", "ok", "cancelled", "error"}
    /\ workers \subseteq Jobs
    /\ dialog.state \in {"none", "running", "finished", "stuck"}

\* Whatever is cancelled, fails or crashes, an output path holds what it held before
\* or a complete file, with every line in its place: translated, marked as failed,
\* or kept if it is blank.  No line is marked as cancelled, and success means that
\* every output was written.
OutputsWhole ==
    /\ \A f \in Files : output[f] # Old =>
         /\ Len(output[f]) = FileLines[f]
         /\ \A k \in 1..FileLines[f] :
              /\ output[f][k] \in Results
              /\ (output[f][k] = "original") <=> (<<f, k>> \in Blank)
    /\ \A j \in Jobs : result[j] = "ok" => \A f \in Files : output[f] # Old

\* A window that reports the end has shown how far the job came: all lines when it
\* succeeded.
EndShowsTotal ==
    dialog.state = "finished" /\ result[dialog.job] = "ok" =>
        dialog.total = TotalLines(Len(FileLines))

\* A shutdown that detached nothing leaves no thread behind, and a job is forgotten
\* only when its thread has ended.
NoThreadForgotten ==
    \A j \in Jobs : worker[j].pc \notin {"none", "exited"} /\ j \notin workers =>
        service = "detached"

\* A cancelled job ends, although engines may never answer, unless it waits for the ezTrans
\* helpers of a pool that it is to get or that was replaced while it ran.
CancelledJobsEnd ==
    \A j \in Jobs :
        cancelled[j] /\ worker[j].pc # "none" ~> Exited(j) \/ worker[j].pc \in {"pool", "drop"}

\* The progress a window shows is that of the file it names.
ProgressOfShownFile == dialog.bar[1] = dialog.file
=============================================================================
