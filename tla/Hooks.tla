-------------------------------- MODULE Hooks --------------------------------
(***************************************************************************)
(* Both sides of the hooks: the worker that holds the session with a game  *)
(* (HookWorker) and, with variables of its own, the hook management window *)
(* with the worker reduced to the order of its requests (HookFind).        *)
(***************************************************************************)
EXTENDS HookWorker

CONSTANTS
    FindAddress, FindThread, FindSavedHook, FindSessions, FindSearches, FindInstalls, FindTexts,
    FindCloses, FindBoxes, FindCounted, FindCandidates, FindStreams, FindActsWhileBusy

VARIABLES
    asks, game, searches, found, hookSession, dialog, listed, pending, selected, auto, counts,
    history

findVars == <<asks, game, searches, found, hookSession, dialog, listed, pending, selected, auto,
              counts, history>>

HFind == INSTANCE HookFind WITH Address <- FindAddress, Thread <- FindThread,
             SavedHook <- FindSavedHook, MaxSessions <- FindSessions, MaxSearches <- FindSearches,
             MaxInstalls <- FindInstalls, MaxTexts <- FindTexts, MaxCloses <- FindCloses,
             MaxBoxes <- FindBoxes, MaxCounted <- FindCounted,
             MaxCandidates <- FindCandidates, MaxStreams <- FindStreams,
             ActsWhileBusy <- FindActsWhileBusy,
             requests <- asks, session <- game, events <- found, kept <- listed

\* No thread has the name that stands for none.
ASSUME NamedThreads == HFind!None \notin FindThread
=============================================================================
