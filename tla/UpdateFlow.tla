----------------------------- MODULE UpdateFlow -----------------------------
(***************************************************************************)
(* Updating the program (update/worker.rs, app/update.rs, update/apply.rs): *)
(* the UI thread asks a worker thread for checks and for the download of a *)
(* release; its outcomes wait in a queue that window messages announce.    *)
(* The UI thread replaces the executable by the staged download and closes *)
(* the application, which starts again when it has shut down.              *)
(*                                                                         *)
(* A release is "available" or it is not; versions are in UpdateRules.     *)
(***************************************************************************)
EXTENDS Naturals, Sequences, SequencesExt

CONSTANTS
    MaxCommands,    \* bound: clicks of the user, and file translations started
    MaxLostPosts,   \* bound: PostMessageW calls that fail
    MaxFaults,      \* bound: steps of the system that fail
    Chunks          \* chunks of a download

ASSUME ChunksAssumption == Chunks \in Nat

VARIABLES
    worker,         \* [at, request, chunk] of the worker thread
    requests,       \* its channel
    results,        \* ResultSlot
    messages,       \* the window's messages; those deferred by a message box stay first
    ui,             \* where the UI thread is in a handler
    batch,          \* outcomes drained and not handled yet
    settings,       \* the settings dialog: [open, available, enabled, text]
    in_progress,    \* update_operation_in_progress
    pending,        \* pending_update is Some
    fileJob,        \* a file translation runs
    disk,           \* [exe, backup, staged]: the three files beside each other
    app,            \* "running", "leaving", "ended" or "restarted"
    restart,        \* RESTART_REQUESTED
    reported,       \* the user was told where the backup is
    commands, lostPosts, faults

workerVars == <<worker, requests, results>>
uiVars == <<ui, batch, settings, in_progress, pending>>
boundVars == <<commands, lostPosts, faults>>
vars == <<workerVars, messages, uiVars, fileJob, disk, app, restart, reported, boundVars>>

Idle == [at |-> "idle", request |-> "none", chunk |-> 0]
Closed == [open |-> FALSE, available |-> FALSE, enabled |-> TRUE, text |-> "none"]

\* maybe_start_auto_update_check asks for a check when it is due.
Init ==
    /\ worker = [Idle EXCEPT !.at = "starting"]
    /\ requests \in {<<"auto">>, << >>}
    /\ results = << >> /\ messages = << >>
    /\ ui = "idle" /\ batch = << >>
    /\ settings = Closed
    /\ in_progress = FALSE /\ pending = FALSE
    /\ fileJob = FALSE
    /\ disk = [exe |-> "old", backup |-> FALSE, staged |-> FALSE]
    /\ app = "running" /\ restart = FALSE /\ reported = FALSE
    /\ commands = 0 /\ lostPosts = 0 /\ faults = 0

Fault == faults < MaxFaults /\ faults' = faults + 1

\* PostMessageW; a failure is only logged.
Notify(message) ==
    \/ messages' = Append(messages, message) /\ UNCHANGED lostPosts
    \/ /\ lostPosts < MaxLostPosts /\ lostPosts' = lostPosts + 1
       /\ UNCHANGED messages

-----------------------------------------------------------------------------
(* The worker thread                                                       *)

StartWorker ==
    /\ worker.at = "starting"
    /\ \/ worker' = Idle /\ UNCHANGED faults
       \/ worker' = [Idle EXCEPT !.at = "dead"] /\ Fault
    /\ UNCHANGED <<requests, results, messages, uiVars, fileJob, disk, app, restart,
                   reported, commands, lostPosts>>

\* A request is refused when the receiver is gone; that is only logged.
Accepts == app = "running" /\ worker.at # "dead"
Request(r) == requests' = IF Accepts THEN Append(requests, r) ELSE requests

\* A download resets the progress; the worker ends when the channel is closed and empty.
ReceiveRequest ==
    /\ worker.at = "idle"
    /\ \/ /\ requests # << >>
          /\ worker' = [at |-> "serving", request |-> Head(requests), chunk |-> 0]
          /\ requests' = Tail(requests)
       \/ /\ requests = << >> /\ app # "running"
          /\ worker' = [Idle EXCEPT !.at = "exited"]
          /\ UNCHANGED requests
    /\ UNCHANGED <<results, messages, uiVars, fileJob, disk, app, restart, reported, boundVars>>

Push(is) ==
    /\ results' = Append(results, [of |-> worker.request, is |-> is])
    /\ worker' = [worker EXCEPT !.at = "notifying"]

FinishCheck ==
    /\ worker.at = "serving" /\ worker.request # "download"
    /\ \E is \in {"available", "up to date", "error"} : Push(is)
    /\ UNCHANGED <<requests, messages, uiVars, fileJob, disk, app, restart, reported, boundVars>>

\* A chunk is written to the file, which the first one creates, and announced unless
\* the last announcement was just before.
ReceiveChunk ==
    /\ worker.at = "serving" /\ worker.request = "download" /\ worker.chunk < Chunks
    /\ worker' = [worker EXCEPT !.chunk = @ + 1]
    /\ disk' = [disk EXCEPT !.staged = TRUE]
    /\ \/ Notify("progress")
       \/ UNCHANGED <<messages, lostPosts>>
    /\ UNCHANGED <<requests, results, uiVars, fileJob, app, restart, reported, commands, faults>>

\* Mutant: a failed download ends the request without an outcome.
FinishDownloadSilently ==
    /\ worker.at = "serving" /\ worker.request = "download"
    /\ \/ /\ worker.chunk = Chunks /\ Push("staged") /\ Notify("progress")
          /\ UNCHANGED <<disk, faults>>
       \/ /\ worker' = Idle /\ Fault /\ disk' = [disk EXCEPT !.staged = FALSE]
          /\ UNCHANGED <<results, messages, lostPosts>>
    /\ UNCHANGED <<requests, uiVars, fileJob, app, restart, reported, commands>>

\* The download fails, or its digest is wrong: the file is dropped with StagedUpdate.
\* The progress is announced once more before the outcome is pushed.
FinishDownload ==
    /\ worker.at = "serving" /\ worker.request = "download"
    /\ \/ worker.chunk = Chunks /\ Push("staged") /\ UNCHANGED <<disk, faults>>
       \/ Push("error") /\ Fault /\ disk' = [disk EXCEPT !.staged = FALSE]
    /\ Notify("progress")
    /\ UNCHANGED <<requests, uiVars, fileJob, app, restart, reported, commands>>

NotifyResult ==
    /\ worker.at = "notifying"
    /\ worker' = Idle
    /\ Notify("result")
    /\ UNCHANGED <<requests, results, uiVars, fileJob, disk, app, restart, reported,
                   commands, faults>>

Worker == StartWorker \/ ReceiveRequest \/ FinishCheck \/ ReceiveChunk \/ FinishDownload
            \/ NotifyResult

-----------------------------------------------------------------------------
(* The user: the settings dialog sends its requests as actions, which are  *)
(* messages too                                                            *)

Command == app = "running" /\ commands < MaxCommands /\ commands' = commands + 1
CommandUnchanged == <<workerVars, ui, batch, in_progress, pending, disk, app, restart,
                      reported, lostPosts, faults>>

OpenSettings ==
    /\ Command /\ ui = "idle" /\ ~settings.open
    /\ settings' = [Closed EXCEPT !.open = TRUE]
    /\ UNCHANGED <<CommandUnchanged, messages, fileJob>>

CloseSettings ==
    /\ app = "running" /\ settings.open
    /\ settings' = Closed
    /\ UNCHANGED <<CommandUnchanged, messages, fileJob, commands>>

\* One button: what it asks for depends on whether an update is on offer.
ClickUpdateButton ==
    /\ Command /\ settings.open /\ settings.enabled
    /\ messages' = Append(messages, IF settings.available THEN "apply" ELSE "check")
    /\ UNCHANGED <<CommandUnchanged, settings, fileJob>>

StartFileTranslation ==
    /\ Command /\ ~fileJob
    /\ fileJob' = TRUE
    /\ UNCHANGED <<CommandUnchanged, settings, messages>>

EndFileTranslation ==
    /\ fileJob /\ fileJob' = FALSE
    /\ UNCHANGED <<CommandUnchanged, settings, messages, commands>>

CloseWindow ==
    /\ app = "running" /\ Command
    /\ messages' = Append(messages, "close")
    /\ UNCHANGED <<CommandUnchanged, settings, fileJob>>

User == OpenSettings \/ CloseSettings \/ ClickUpdateButton \/ StartFileTranslation
          \/ EndFileTranslation \/ CloseWindow

-----------------------------------------------------------------------------
(* The UI thread's handlers                                                *)

Handles(message) ==
    /\ app = "running" /\ ui = "idle" /\ messages # << >> /\ Head(messages) = message
    /\ messages' = Tail(messages)

\* What a dialog that is closed shows is lost.  `available` is the label of the button and the
\* flag behind it: set_update_available writes the flag through with_state, which leaves it as
\* it was while a handler of the window has its state (a colour dialog); that is left out.
Shows(available, enabled, text) ==
    settings' = IF settings.open
                  THEN [settings EXCEPT !.available = available, !.enabled = enabled,
                                        !.text = text]
                  ELSE settings
ShowsText(text) == Shows(settings.available, settings.enabled, text)

HandlerUnchanged == <<worker, results, fileJob, app, boundVars>>

StartManualCheck ==
    /\ Handles("check")
    /\ IF in_progress
         THEN UNCHANGED <<in_progress, settings, requests>>
         ELSE in_progress' = TRUE /\ Shows(FALSE, FALSE, "checking") /\ Request("manual")
    /\ UNCHANGED <<HandlerUnchanged, ui, batch, pending, disk, restart, reported>>

\* The guards of start_update_apply, up to the message box.
StartUpdateApply ==
    /\ Handles("apply")
    /\ IF in_progress \/ ~pending THEN UNCHANGED <<settings, ui>>
       ELSE IF fileJob THEN ShowsText("file job") /\ UNCHANGED ui
       ELSE ui' = "confirm" /\ UNCHANGED settings
    /\ UNCHANGED <<HandlerUnchanged, requests, batch, in_progress, pending, disk, restart,
                   reported>>

\* Without the path of the executable the offer is gone and nothing is asked for.
Confirm ==
    /\ ui = "confirm" /\ ui' = "idle"
    /\ \/ UNCHANGED <<in_progress, pending, settings, requests, faults>>
       \/ /\ in_progress' = TRUE /\ pending' = FALSE
          /\ Shows(FALSE, FALSE, "downloading") /\ Request("download")
          /\ UNCHANGED faults
       \/ /\ Fault /\ pending' = FALSE /\ Shows(FALSE, TRUE, "error")
          /\ UNCHANGED <<in_progress, requests>>
    /\ UNCHANGED <<worker, results, fileJob, app, commands, lostPosts, messages, batch, disk,
                   restart, reported>>

HandleProgress ==
    /\ Handles("progress")
    /\ IF in_progress THEN ShowsText("downloading") ELSE UNCHANGED settings
    /\ UNCHANGED <<HandlerUnchanged, requests, ui, batch, in_progress, pending, disk,
                   restart, reported>>

\* Mutant: outcomes are taken newest first.
DrainedNewestFirst == Reverse(results)
Drained == results

HandleResult ==
    /\ Handles("result")
    /\ batch' = Drained /\ results' = << >>
    /\ ui' = IF results = << >> THEN "idle" ELSE "results"
    /\ UNCHANGED <<worker, requests, settings, in_progress, pending, fileJob, disk, app,
                   restart, reported, boundVars>>

Outcome(of) == ui = "results" /\ Head(batch).of = of /\ batch' = Tail(batch)
AfterOutcome == IF Len(batch) = 1 THEN "idle" ELSE "results"

\* Only a manual check touches what the user sees.
CheckSettled ==
    \E of \in {"auto", "manual"} :
        LET available == Head(batch).is = "available"
        IN  /\ Outcome(of) /\ ui' = AfterOutcome
            /\ pending' = available
            /\ IF of = "auto"
                 THEN UNCHANGED <<in_progress, settings>>
                 ELSE /\ in_progress' = FALSE
                      /\ Shows(settings.available \/ available, TRUE, Head(batch).is)
            /\ UNCHANGED <<HandlerUnchanged, messages, requests, disk, restart, reported>>

DownloadSettled ==
    /\ Outcome("download")
    /\ in_progress' = FALSE
    /\ IF Head(batch).is = "staged"
         THEN ui' = "apply" /\ Shows(settings.available, TRUE, settings.text)
         ELSE ui' = AfterOutcome /\ Shows(settings.available, TRUE, "error")
    /\ UNCHANGED <<HandlerUnchanged, messages, requests, pending, disk, restart, reported>>

\* The outcomes behind the one that was applied are handled next.
Resume == IF batch = << >> THEN "idle" ELSE "results"
ApplyUnchanged == <<workerVars, batch, in_progress, pending, fileJob, app, commands>>

\* replace_running_executable: the directory is not writable, or the executable cannot be
\* moved to the backup's name; the old backup is removed first.  The backup of an executable
\* that was moved already is the image that runs, which cannot be deleted or overwritten.
\* into_applied has already taken the staged file from StagedUpdate, which would have
\* deleted it.
ApplyFails ==
    /\ ui = "apply"
    /\ IF disk.exe = "old"
         THEN Fault /\ \E backup \in {disk.backup, FALSE} : disk' = [disk EXCEPT !.backup = backup]
         ELSE UNCHANGED <<disk, faults>>
    /\ ui' = Resume /\ ShowsText("error")
    /\ UNCHANGED <<ApplyUnchanged, messages, restart, reported, lostPosts>>

MoveToBackup ==
    /\ ui = "apply" /\ disk.exe = "old"
    /\ disk' = [disk EXCEPT !.exe = "none", !.backup = TRUE]
    /\ ui' = "place"
    /\ UNCHANGED <<ApplyUnchanged, messages, settings, restart, reported, lostPosts, faults>>

\* The new executable is in place; the flag is taken back when the close cannot be posted.
PlaceStaged ==
    /\ ui = "place" /\ ui' = Resume
    /\ disk' = [disk EXCEPT !.exe = "new", !.staged = FALSE]
    /\ ShowsText("restarting")
    /\ \/ restart' = TRUE /\ messages' = Append(messages, "close") /\ UNCHANGED lostPosts
       \/ /\ lostPosts < MaxLostPosts /\ lostPosts' = lostPosts + 1
          /\ restart' = FALSE /\ UNCHANGED messages
    /\ UNCHANGED <<ApplyUnchanged, reported, faults>>

Rollback ==
    \/ /\ disk' = [disk EXCEPT !.exe = "old", !.backup = FALSE]
       /\ ui' = Resume /\ ShowsText("error") /\ UNCHANGED reported
    \/ ui' = "report" /\ UNCHANGED <<disk, settings, reported>>

PlacingFails ==
    /\ ui = "place" /\ Fault /\ Rollback
    /\ UNCHANGED <<ApplyUnchanged, messages, restart, lostPosts>>

\* A message box names the backup.
ReportBackup ==
    /\ ui = "report" /\ ui' = Resume
    /\ reported' = TRUE /\ ShowsText("error")
    /\ UNCHANGED <<ApplyUnchanged, messages, disk, restart, lostPosts, faults>>

Apply == ApplyFails \/ MoveToBackup \/ PlaceStaged \/ PlacingFails \/ ReportBackup

\* WM_CLOSE destroys the window; the message loop ends and the application is dropped,
\* which closes the worker's channel.
HandleClose ==
    /\ Handles("close")
    /\ app' = "leaving" /\ settings' = Closed
    /\ UNCHANGED <<workerVars, ui, batch, in_progress, pending, fileJob, disk, restart,
                   reported, boundVars>>

\* Shutdown waits two seconds for the worker; then the process starts the program again
\* when that was asked for, and ends with every thread that is left.
EndProcess ==
    /\ app = "leaving"
    /\ app' = IF restart THEN "restarted" ELSE "ended"
    /\ worker' = [Idle EXCEPT !.at = "exited"]
    /\ restart' = FALSE /\ fileJob' = FALSE
    /\ UNCHANGED <<requests, results, messages, uiVars, disk, reported, boundVars>>

Ui == StartManualCheck \/ StartUpdateApply \/ Confirm \/ HandleProgress \/ HandleResult
        \/ CheckSettled \/ DownloadSettled \/ Apply \/ HandleClose \/ EndProcess

Next == Worker \/ User \/ Ui

\* The threads run and the user answers a message box.
Fairness == WF_vars(Worker) /\ WF_vars(Ui)

Spec == Init /\ [][Next]_vars /\ Fairness

-----------------------------------------------------------------------------
(* Properties                                                              *)

TypeOK ==
    /\ worker.at \in {"starting", "idle", "serving", "notifying", "dead", "exited"}
    /\ worker.request \in {"none", "auto", "manual", "download"} /\ worker.chunk \in 0..Chunks
    /\ ui \in {"idle", "confirm", "results", "apply", "place", "report"}
    /\ app \in {"running", "leaving", "ended", "restarted"}
    /\ {in_progress, pending, fileJob, restart, reported} \subseteq BOOLEAN
    /\ disk.exe \in {"old", "new", "none"} /\ {disk.backup, disk.staged} \subseteq BOOLEAN

\* What the settings window offers is there: a button that reads "update now" has an update
\* to apply, in whatever order automatic and manual checks were answered and the window was
\* closed and opened, and a disabled button has an operation whose end enables it again.
OffersAreBacked ==
    ui = "idle" =>
        /\ settings.available => pending
        /\ ~settings.enabled => in_progress

\* The program survives its update: wherever the process dies, a copy of it is at its place or
\* under the backup's name; when it ends, it is at its place, or the user was told where it is;
\* and it starts again only as the new version.
ExeSurvives ==
    /\ disk.exe # "none" \/ disk.backup
    /\ app \in {"ended", "restarted"} => disk.exe # "none" \/ reported
    /\ app = "restarted" => disk.exe = "new"

\* An update is offered only while it can be applied, and no failure of replacing the executable
\* leaves the user without it.
UpdateIsSafe == OffersAreBacked /\ ExeSurvives

\* An operation that the user began ends, unless the worker never started, a message was
\* lost or the application is closed first.
OperationsEnd ==
    in_progress ~> ~in_progress \/ worker.at = "dead" \/ lostPosts > 0 \/ app # "running"
=============================================================================
