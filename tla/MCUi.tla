-------------------------------- MODULE MCUi --------------------------------
(***************************************************************************)
(* Two instances of the translation flow, checked side by side: `part` is  *)
(* "capture" when the user's commands open and close what pauses the       *)
(* clipboard capture, and "texts" when texts of both sources meet slow     *)
(* engines.  Only the second is asked to make progress.                    *)
(***************************************************************************)
EXTENDS TranslationUi

VARIABLE part

Texts == INSTANCE TranslationUi WITH MaxTexts <- 3, MaxRequests <- 2, MaxCommands <- 1, MaxActions <- 1

UiInit ==
    \/ part = "capture" /\ Init
    \/ part = "texts" /\ Texts!Init

UiNext ==
    \/ part = "capture" /\ Next /\ UNCHANGED part
    \/ part = "texts" /\ Texts!Next /\ UNCHANGED part

InTexts(A) == part = "texts" /\ A

UiSpec ==
    /\ UiInit /\ [][UiNext]_<<vars, part>>
    /\ SF_vars(InTexts(Texts!MergeTimer))
    /\ WF_vars(InTexts(Texts!Overtakes))
    /\ WF_vars(InTexts(Texts!PumpAfterCompletion \/ Texts!DrainMerger \/ Texts!ResumeLast
                       \/ Texts!SettingsClosed \/ Texts!DialogClosed \/ Texts!ApplyDraft
                       \/ Texts!SyncMagnetic \/ Texts!SyncListener))

QueuedTextsMove == part = "texts" => Texts!QueuedSentencesMove
=============================================================================
