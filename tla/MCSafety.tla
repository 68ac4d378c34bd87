------------------------------ MODULE MCSafety ------------------------------
(***************************************************************************)
(* What is checked for safety only, side by side: the hook worker with two *)
(* attaches, the text merger and the hook management window; the jobs      *)
(* prepared from the configuration and the file it is kept in; the         *)
(* translation of files; the overlay that follows a window, the backlog    *)
(* and the translation window; and the rules for files, languages, answers *)
(* and releases, evaluated over their inputs. `part` names the one that    *)
(* runs; they share no state, and a property of a part is evaluated where  *)
(* it runs.                                                                *)
(***************************************************************************)
EXTENDS Hooks, Integers

VARIABLES
    part,
    now, printed, half, session, events, announced, lostTexts, merger, changes, timer, textApp, sentences,
    input,
    config, at, draft, draftAt, kept, freed, jobs, served, edits, lookups,
    file, aside, temp, bundle, held, proc, contents, starts, faults,
    engine, runner, task, output, stopped, result, outputs, messages, workers, service, progress,
    failed,
    preferences, magnetic, state, notice, follower, target, windowEvents, overlayPosts, moves,
    toggles, mishaps,
    model, clears, view, store, shown, ends, lost, waiting, dirty, saving, writers, written, logged,
    steps, tokens, lostResults,
    shownDialog, typed, answer, choice, one_go, delay, in_flight_id, last_submitted_source, requested,
    wanted, replies, posts, clicks, trouble

CONSTANTS
    s1, s2,
    TextSource, TextWindows, TextTime, TextPieces, TextBuffer, TextBatch, TextSessions,
    TextPostsLost, TextChanges, TextWaits,
    FileProcess, FileCommandLine, FileContents, FileStarts, FileFaults,
    MagnetTarget, MagnetPlaces, MagnetEvents, MagnetRequests, MagnetFaults,
    DialogText, DialogRoute, SlowRoutes, DialogSteps, DialogFaults,
    TransJobs, TransEngines, TransEnds, TransBlank, TransBatch, TransPermits, TransInterval,
    TransBudget, TransFaults,
    LogSizes, LogLineEnds, LogEntries, LogBytes, LogTexts, LogSteps, LogFaults,
    Dictionaries, DictionaryEnds, DeepLKeys, FreeDeepLKeys, Apis, EngineChoices, LanguageChoices,
    ProviderChoices, KeptJobs, Addresses, Edits, Lookups
NoSession == {}

\* A merge window is a number of milliseconds; the text threads of a game have names of their own.
ASSUME TextAssumption ==
    /\ TextWindows \subseteq Nat /\ TextTime \in Nat /\ TextBatch \in Nat
    /\ TextSource \cap {"none", "attached", "detached"} = {}

\* "none" stands for no window; coordinates are whole numbers, also left of the screen.
ASSUME WindowsAssumption == "none" \notin MagnetTarget /\ MagnetPlaces \subseteq Int

\* The lines of the files to translate add up, and a batch has at least one.
ASSUME FilesAssumption ==
    /\ TransEnds \in Seq(Nat) /\ TransBatch \in Nat \ {0} /\ TransBudget \in Nat
    /\ \A f \in 2..Len(TransEnds) : TransEnds[f - 1] <= TransEnds[f]

\* The backlog keeps at least one text.
ASSUME BacklogAssumption == LogEntries \in Nat \ {0}

\* The provider of the default configuration is one of those a user chooses from.
ASSUME PreparedAssumption == KeptJobs \in Nat /\ "openai" \in ProviderChoices

textVars == <<now, printed, half, session, events, announced, lostTexts, merger, changes, timer,
              textApp, sentences>>
jobVars == <<config, at, draft, draftAt, kept, freed, jobs, served, edits, lookups>>
fileVars == <<file, aside, temp, bundle, held, proc, contents, starts, faults>>
transVars == <<engine, runner, task, output, stopped, result, outputs, messages, workers, service,
               progress, failed>>
magnetVars == <<preferences, magnetic, state, notice, follower, target, windowEvents, overlayPosts,
                moves, toggles, mishaps>>
backlogVars == <<model, clears, view, store, shown, ends, lost, waiting, dirty, saving, writers,
                 written, logged, steps, tokens, lostResults>>
dialogVars == <<shownDialog, typed, answer, choice, one_go, delay, in_flight_id,
                last_submitted_source, requested, wanted, replies, posts, clicks, trouble>>
allVars == <<part, input, vars, textVars, findVars, jobVars, fileVars, transVars,
             magnetVars, backlogVars, dialogVars>>

HText == INSTANCE HookText WITH Source <- TextSource, Windows <- TextWindows,
             MaxTime <- TextTime, MaxPieces <- TextPieces, MaxBuffer <- TextBuffer,
             BatchSize <- TextBatch, MaxSessions <- TextSessions,
             MaxLostPosts <- TextPostsLost, MaxWindowChanges <- TextChanges,
             MaxWaits <- TextWaits, posted <- announced, lostPosts <- lostTexts, app <- textApp

Prepared == INSTANCE PreparedJobs WITH Dictionary <- Dictionaries, Ends <- DictionaryEnds,
                DeepLKey <- DeepLKeys, FreeKeys <- FreeDeepLKeys, CustomApis <- Apis,
                EnginesUsed <- EngineChoices, LanguagesUsed <- LanguageChoices,
                ProvidersUsed <- ProviderChoices, MaxJobs <- KeptJobs, MaxAddress <- Addresses,
                MaxEdits <- Edits, MaxRequests <- Lookups, requests <- lookups

\* Two dictionaries with the same ends, and one with ends of its own.
TwoAlike == [d \in Dictionaries |-> IF d = "d3" THEN 2 ELSE 1]
TwoApis == <<"a1", "a2">>

Trans == INSTANCE FileTranslation WITH Jobs <- TransJobs, Engines <- TransEngines,
             FileEnds <- TransEnds, Blank <- TransBlank, BatchLines <- TransBatch,
             Permits <- TransPermits, Interval <- TransInterval, Budget <- TransBudget,
             MaxFaults <- TransFaults, worker <- runner, temp <- output, cancelled <- stopped,
             output <- outputs, events <- messages, dialog <- progress, faults <- failed

\* A file of one batch, whose second line is blank, and a file of one line.
TwoFiles == <<2, 3>>
SecondLine == {<<1, 2>>}

\* An ezTrans job behind one of either engine.
TransStart == Trans!Init /\ \A j \in TransJobs : j > 1 => engine[j] = "eztrans"
TransRests == TransStart /\ engine[1] = "http"

File == INSTANCE ConfigFile WITH Process <- FileProcess, CommandLine <- FileCommandLine,
            MaxContents <- FileContents, MaxStarts <- FileStarts, MaxFaults <- FileFaults

Magnet == INSTANCE MagneticMode WITH Target <- MagnetTarget, Places <- MagnetPlaces,
              MaxEvents <- MagnetEvents, MaxRequests <- MagnetRequests, MaxFaults <- MagnetFaults,
              config <- preferences, overlay <- follower, events <- windowEvents,
              posts <- overlayPosts, requests <- toggles, faults <- mishaps

Log == INSTANCE Backlog WITH Sizes <- LogSizes, LineEnds <- LogLineEnds,
           MaxEntries <- LogEntries, MaxBytes <- LogBytes, MaxTexts <- LogTexts,
           MaxSteps <- LogSteps, MaxLostPosts <- LogFaults, window <- view, pending <- waiting,
           save <- saving, workers <- writers, results <- written, texts <- logged,
           lostPosts <- lostResults

SlowRoute(r) == r \in SlowRoutes
Dialog == INSTANCE TranslateDialog WITH Text <- DialogText, Route <- DialogRoute,
              Slow <- SlowRoute, MaxSteps <- DialogSteps, MaxFaults <- DialogFaults,
              open <- shownDialog, source <- typed, dest <- answer, route <- choice,
              timer <- delay, requests <- requested, answers <- replies, steps <- clicks,
              faults <- trouble

Rules == INSTANCE FileText WITH MaxBytes <- 4, MaxLines <- 4, LineBytes <- 3,
            WindowLines <- 3, WindowChars <- 5, BatchLines <- 2, BatchChars <- 4

Engine == INSTANCE EngineCalls WITH Call <- {1}, MaxKeys <- 2, MaxRetries <- 2,
              calls <- {}, counter <- 0

\* Responses that fail to be read, and the bodies of those that do not.
Responses ==
    [status : Engine!Statuses, size : {"small", "large", "huge"}, fault : Engine!Faults,
     wait : {0}, body : {Engine!SomeBody}]
    \cup [status : {200}, size : {"small"}, fault : {"none"}, wait : {0}, body : Engine!Bodies]
NoInput == [kind |-> "none"]

Ver(minor, pre) == [major |-> 0, minor |-> minor, patch |-> 0, pre |-> pre]
Update == INSTANCE UpdateRules WITH Interval <- 2,
              Tags <- {Ver(1, FALSE), Ver(2, FALSE), Ver(2, TRUE), Ver(3, FALSE)},
              Assets <- {"update", "checksum"}
Published == {r \in Update!Release : r.draft => ~r.prerelease /\ r.assets = {}}
ReleaseInputs ==
    [kind : {"releases"}, current : {Ver(1, FALSE), Ver(2, TRUE)},
     releases : {<<r>> : r \in Published} \cup (Published \X Published)]
CheckInputs ==
    [kind : {"check"}, last : 0..3, now : 0..3, later : 0..5, outcome : {"network", "other"}]
Pairs ==
    {pair \in [kind : {"pair"}, engine : Prepared!Engines, source : Prepared!Language,
               target : Prepared!Language] : Prepared!SupportsPair(pair.engine, pair.source, pair.target)}
AnswerInputs == [kind : {"answer"}, service : Engine!Services, response : Responses]

\* A part that does not run stays at an initial state.
SafetyInit ==
    /\ Init /\ HFind!Init /\ Prepared!Init
    /\ part \in {"worker", "text", "find", "prepared", "file", "jobs", "magnet",
                "backlog", "dialog", "rules"}
    /\ HText!Init /\ merger.window = 1
    /\ IF part = "file" THEN File!Init ELSE File!Init /\ file = File!Absent /\ bundle
    /\ IF part = "jobs" THEN TransStart ELSE TransRests
    /\ Magnet!Init /\ (part # "magnet" => ~preferences.magnetic_minimize)
    /\ Log!Init
    /\ Dialog!Init /\ (part # "dialog" => choice \notin SlowRoutes)
    /\ IF part = "rules"
       THEN Rules!Init \/ input \in AnswerInputs \cup Pairs \cup ReleaseInputs \cup CheckInputs
       ELSE input = NoInput

SafetyNext ==
    /\ UNCHANGED <<part, input>>
    /\ \/ part = "worker" /\ Next
          /\ UNCHANGED <<textVars, findVars, jobVars, fileVars, transVars, magnetVars,
                        backlogVars, dialogVars>>
       \/ part = "text" /\ HText!Next
          /\ UNCHANGED <<vars, findVars, jobVars, fileVars, transVars, magnetVars,
                        backlogVars, dialogVars>>
       \/ part = "find" /\ HFind!Next
          /\ UNCHANGED <<vars, textVars, jobVars, fileVars, transVars, magnetVars,
                        backlogVars, dialogVars>>
       \/ part = "prepared" /\ Prepared!Next
          /\ UNCHANGED <<vars, textVars, findVars, fileVars, transVars, magnetVars,
                        backlogVars, dialogVars>>
       \/ part = "file" /\ File!Next
          /\ UNCHANGED <<vars, textVars, findVars, jobVars, transVars, magnetVars,
                        backlogVars, dialogVars>>
       \/ part = "jobs" /\ Trans!Next
          /\ UNCHANGED <<vars, textVars, findVars, jobVars, fileVars, magnetVars,
                        backlogVars, dialogVars>>
       \/ part = "magnet" /\ Magnet!Next
          /\ UNCHANGED <<vars, textVars, findVars, jobVars, fileVars, transVars,
                        backlogVars, dialogVars>>
       \/ part = "backlog" /\ Log!Next
          /\ UNCHANGED <<vars, textVars, findVars, jobVars, fileVars, transVars,
                        magnetVars, dialogVars>>
       \/ part = "dialog" /\ Dialog!Next
          /\ UNCHANGED <<vars, textVars, findVars, jobVars, fileVars, transVars,
                        magnetVars, backlogVars>>

SafetySpec == SafetyInit /\ [][SafetyNext]_allVars

\* Hooked texts keep their order and are cut into sentences by the times of their receipt.
SentencesWhole ==
    part = "text" => HText!TextsInOrder /\ HText!SentencesFollowReceipt

\* The hook management window lists what its own search found, keeps choices and streams
\* with the game they are of, and never leaves a game that had a hook without one.
CandidatesOfThisSearch == part = "find" => HFind!CandidatesOfThisSearch
WindowFollowsSessions ==
    part = "find" =>
        HFind!SessionsStayApart /\ HFind!StreamsSurviveClosing /\ HFind!AlwaysHooked

\* A translated file is complete or absent, the progress window ends on its total, and no
\* worker's thread is left behind.
FilesFinishWhole ==
    part = "jobs" => Trans!OutputsWhole /\ Trans!EndShowsTotal /\ Trans!NoThreadForgotten

\* The overlay stays beside its target and comes back with it; a flag that holds back further
\* messages has the one that ends it on its way.
MagnetHolds ==
    part = "magnet" => Magnet!FollowsTarget /\ Magnet!ComesBack /\ Magnet!FlagsHavePosts

\* The window of the backlog holds and shows what was translated, in order and once, and a save
\* that is said to run ends.
BacklogComplete ==
    part = "backlog" => Log!ControlShowsCopy /\ Log!CopyHoldsModel /\ Log!SavesSettle

\* What the translation window waits for, and what it shows, is for its text and its selection.
DialogTranslates ==
    part = "dialog" =>
        Dialog!RequestFitsWindow /\ Dialog!AnswersHaveMessages /\ Dialog!TranslationFitsWindow

FileIsWhole == part = "file" => File!FileIsWhole
ReplacedOnlyWhenRead == File!ReplacedOnlyWhenRead

\* Reading, batching and writing a file keep each line's text, the names offered for outputs are
\* valid, and a job whose names are valid spares its inputs; what a service answered is taken for a
\* translation, an error or a reason to ask again as its answer says; and the update offered is the
\* highest released.
RulesHold ==
    part = "rules" =>
        /\ Rules!FilesKeepTheirText /\ Rules!LinesGetTheirOwn
        /\ Rules!DefaultsAreValid /\ Rules!OutputsKeptApart
        /\ input.kind = "answer" =>
            /\ Engine!AnswersAreWhole(input.service, input.response)
            /\ Engine!ThrottledIsRetried(input.service, input.response)
        /\ input.kind = "releases" => Update!OffersHighest(input.releases, input.current)
        /\ input.kind = "check" =>
            Update!ChecksOncePerInterval(input.last, input.now, input.outcome, input.later)

\* A job is used only with the configuration it was prepared from; a change of the LLM
\* provider and back finds what the user had given it; and from a pair of languages an
\* engine supports, every change of engine, source or target leads to one.
SettingsFit ==
    part \in {"prepared", "rules"} =>
        /\ Prepared!JobFitsConfig
        /\ Prepared!ProfilesKept
        /\ input.kind = "pair" =>
            /\ Prepared!HasCode(input.engine, input.source)
            /\ Prepared!HasCode(input.engine, input.target)
            /\ LET config0 == [Prepared!DefaultConfig EXCEPT !.engine = input.engine,
                                 !.source = input.source, !.target = input.target]
               IN \A changed \in
                    {Prepared!EngineChanged(config0, e) : e \in Prepared!Engines}
                    \cup {Prepared!SourceChanged(config0, l) : l \in Prepared!Language}
                    \cup {Prepared!TargetChanged(config0, l) : l \in Prepared!Language} :
                  Prepared!SupportsPair(changed.engine, changed.source, changed.target)
=============================================================================

