------------------------------- MODULE MCApp -------------------------------
(***************************************************************************)
(* Parts of the application checked side by side: `part` names the one     *)
(* that runs.  They share no state; a part that does not run stays at one  *)
(* of its initial states.                                                  *)
(***************************************************************************)
EXTENDS UpdateFlow

CONSTANTS
    SettingsLooks, SettingsHotkeys, SettingsBatch, SettingsEdits, SettingsChanges

ASSUME SettingsAssumption == SettingsBatch \in Nat \ {0}

VARIABLES
    part,
    window, overlay, handler, deferred, drains, overtaken, quit, events,
    config, registered, attached, dialog, queue, posts, turn, lostActions, saves, saver, file,
    process, applied, edits,
    engine, runner, task, temp, stopped, result, output, notices, workers, service, progress,
    failed

overlayVars == <<window, overlay, handler, deferred, drains, overtaken, quit, events>>
settingsVars == <<config, registered, attached, dialog, queue, posts, turn, lostActions, saves,
                  saver, file, process, applied, edits>>
jobVars == <<engine, runner, task, temp, stopped, result, output, notices, workers, service,
             progress, failed>>
allVars == <<part, vars, overlayVars, settingsVars, jobVars>>

Overlay == INSTANCE OverlayWindow WITH Sizes <- 1..3, Dpis <- 1..2, BatchSize <- 2,
               DragMayReturn <- FALSE, DpiMayKeepSize <- FALSE, MaxDeferred <- 3,
               MaxEvents <- 4, MaxFaults <- 1, app <- overlay, ui <- handler

\* One message to the application cannot be posted.
Settings == INSTANCE SettingsFlow WITH Looks <- SettingsLooks, Hotkeys <- SettingsHotkeys,
                BatchSize <- SettingsBatch, MaxEdits <- SettingsEdits,
                MaxOutside <- SettingsChanges, MaxLostPosts <- 1,
                lostPosts <- lostActions, disk <- file, app <- process

\* A file of one line.
Files == INSTANCE FileTranslation WITH Jobs <- {1, 2}, Engines <- {"http", "eztrans"},
            FileEnds <- <<1>>, Blank <- {}, BatchLines <- 1, Permits <- 1,
            Interval <- 2, Budget <- 2, MaxFaults <- 1, worker <- runner, cancelled <- stopped,
            events <- notices, dialog <- progress, faults <- failed

UpdateRests == Init /\ requests = << >>

OverlayRests == Overlay!Init /\ window.size = 1 /\ window.dpi = 1
\* Bound: the settings of the start are one of each.
AnyOf(values) == CHOOSE v \in values : TRUE
SettingsStart ==
    Settings!Init /\ config.look = AnyOf(SettingsLooks) /\ config.hotkeys = AnyOf(SettingsHotkeys)
SettingsRest == SettingsStart /\ registered = config.hotkeys /\ saver.at = "failed"

\* An ezTrans job behind one of either engine.
FilesStart == Files!Init /\ engine[2] = "eztrans"
FilesRest == FilesStart /\ engine[1] = "http"

AppInit ==
    /\ part \in {"update", "overlay", "settings", "files"}
    /\ IF part = "update" THEN Init ELSE UpdateRests
    /\ IF part = "overlay" THEN Overlay!Init ELSE OverlayRests
    /\ IF part = "settings" THEN SettingsStart ELSE SettingsRest
    /\ IF part = "files" THEN FilesStart ELSE FilesRest

AppNext ==
    /\ UNCHANGED part
    /\ \/ part = "update" /\ Next
          /\ UNCHANGED <<overlayVars, settingsVars, jobVars>>
       \/ part = "overlay" /\ Overlay!Next
          /\ UNCHANGED <<vars, settingsVars, jobVars>>
       \/ part = "settings" /\ Settings!Next
          /\ UNCHANGED <<vars, overlayVars, jobVars>>
       \/ part = "files" /\ Files!Next
          /\ UNCHANGED <<vars, overlayVars, settingsVars>>

Runs(p, A) == part = p /\ A

AppSpec ==
    /\ AppInit /\ [][AppNext]_allVars
    /\ WF_vars(Runs("update", Worker)) /\ WF_vars(Runs("update", Ui))
    /\ WF_overlayVars(Runs("overlay", Overlay!System))
    /\ WF_settingsVars(Runs("settings", Settings!App))
    /\ WF_settingsVars(Runs("settings", Settings!Saver))
    /\ WF_jobVars(Runs("files", Files!Progress))

FrameSettles == [](part = "overlay") => Overlay!FrameSettles
ConfigAgrees == Settings!ConfigAgrees
LastConfigSaved == Settings!LastConfigSaved
CancelledJobsEnd == Files!CancelledJobsEnd
=============================================================================
