----------------------------- MODULE MCServices -----------------------------
(***************************************************************************)
(* Services checked side by side: the translation cache, the calls to the  *)
(* engines, the pool of helper processes, the host of the dialogs, and,    *)
(* for what they must do in the end, the hook worker and the text merger.  *)
(* `part` names the one that runs; they share no state, and a part that    *)
(* does not run stays at an initial state.                                 *)
(***************************************************************************)
EXTENDS TranslationCache, TLC

CONSTANTS
    k1, k2, k3, j1, j2, c1, c2,
    Callers, DeepLKeys, Retries,
    PoolJobs, PoolConfigs, PoolHelpers, PoolCalls, PoolLimit, PoolFaults, PoolHangs,
    HostDpis, HostMessages, HostFaults

\* A pool has a helper, and a batch to translate has a line.
ASSUME PoolAssumption ==
    PoolHelpers \in Nat \ {0} /\ PoolCalls \subseteq [PoolJobs -> Seq(Nat \ {0})]

VARIABLES
    calls, counter,
    part,
    requests, asked, worker, active, spawned, thread, stop, pipe, texts, queue, notified,
    posted, lostPosts, hookUi, batch, hook_session, merge_timer,
    clock, printed, half, session, events, announced, lostTexts, merger, changes, timer, textApp, sentences,
    config, call, job, poolOf, cancelled, completed, answers, slot, lock, pool, next, helper,
    dead, handed, work, gate, faults, hangs,
    main, dialogs, stack, dialogQueue, putAside, disabled, freed, closing, crossed, inputs, failures

MCKey == {k1, k2, k3}

hookVars == <<requests, asked, worker, active, spawned, thread, stop, pipe, texts, queue,
              notified, posted, lostPosts, hookUi, batch, hook_session, merge_timer>>
textVars == <<clock, printed, half, session, events, announced, lostTexts, merger, changes, timer,
              textApp, sentences>>
callVars == <<calls, counter>>
poolVars == <<config, call, job, poolOf, cancelled, completed, answers, slot, lock, pool, next,
              helper, dead, handed, work, gate, faults, hangs>>
dialogVars == <<main, dialogs, stack, dialogQueue, putAside, disabled, freed, closing, crossed,
                inputs, failures>>
allVars == <<part, vars, hookVars, textVars, callVars, poolVars, dialogVars>>

\* One session, whose end may outlast the worker's wait for it.
Hook == INSTANCE HookWorker WITH MaxSessions <- 1, MaxRequests <- 2, MaxTexts <- 1,
            MaxLostPosts <- 1, BatchSize <- 1, PipeCapacity <- 1, Frozen <- {},
            JoinMayTimeOut <- TRUE, ui <- hookUi

Text == INSTANCE HookText WITH Source <- {k1}, Windows <- {1, 2}, MaxTime <- 1,
            MaxPieces <- 2, MaxBuffer <- 1, BatchSize <- 1, MaxSessions <- 1,
            MaxLostPosts <- 1, MaxWindowChanges <- 1, MaxWaits <- 1,
            now <- clock, posted <- announced, lostPosts <- lostTexts, app <- textApp

TextRests == Text!Init /\ merger.window = 1

Engine == INSTANCE EngineCalls WITH Call <- Callers, MaxKeys <- DeepLKeys, MaxRetries <- Retries

\* Two jobs of one batch that share or replace a pool; a job alone with three batches.
NoCalls == [j \in PoolJobs |-> << >>]
MCCalls == {(j1 :> <<1>>) @@ (j2 :> <<1>>), (j1 :> <<2, 1, 1>>) @@ (j2 :> << >>), NoCalls}

Pool == INSTANCE EzTransPool WITH Jobs <- PoolJobs, Configs <- PoolConfigs, Helpers <- PoolHelpers,
            Calls <- PoolCalls, MaxPools <- PoolLimit, MaxFaults <- PoolFaults,
            MaxHangs <- PoolHangs, queue <- handed

\* Bounds: the first job has the first configuration, as has one without batches.
PoolStart ==
    /\ Pool!Init /\ call # NoCalls
    /\ \A j \in PoolJobs : j = j1 \/ call[j] = << >> => config[j] = c1
PoolRests == Pool!Init /\ call = NoCalls /\ config = [j \in PoolJobs |-> c1]

Host == INSTANCE DialogHost WITH Dpis <- HostDpis,
            MaxMessages <- HostMessages, MaxFaults <- HostFaults,
            window <- dialogs, queue <- dialogQueue, deferred <- putAside, messages <- inputs,
            faults <- failures

DialogsRest == Host!Init /\ dialogs["list"].dpi = 1

ServicesInit ==
    /\ part \in {"cache", "hook", "text", "calls", "pool", "dialogs"}
    /\ Init /\ Hook!Init /\ Text!Init /\ Engine!Init
    /\ IF part = "pool" THEN PoolStart ELSE PoolRests
    /\ IF part = "dialogs" THEN Host!Init ELSE DialogsRest
    /\ part # "cache" => writer = "none"
    /\ part # "text" => TextRests

ServicesNext ==
    /\ UNCHANGED part
    /\ \/ part = "cache" /\ Next
          /\ UNCHANGED <<hookVars, textVars, callVars, poolVars, dialogVars>>
       \/ part = "hook" /\ Hook!Next
          /\ UNCHANGED <<vars, textVars, callVars, poolVars, dialogVars>>
       \/ part = "text" /\ Text!Next
          /\ UNCHANGED <<vars, hookVars, callVars, poolVars, dialogVars>>
       \/ part = "calls" /\ Engine!Next
          /\ UNCHANGED <<vars, hookVars, textVars, poolVars, dialogVars>>
       \/ part = "pool" /\ Pool!Next
          /\ UNCHANGED <<vars, hookVars, textVars, callVars, dialogVars>>
       \/ part = "dialogs" /\ Host!Next
          /\ UNCHANGED <<vars, hookVars, textVars, callVars, poolVars>>

ServicesSpec ==
    /\ ServicesInit /\ [][ServicesNext]_allVars
    /\ WF_vars(part = "cache" /\ WriterThread)
    /\ Hook!Fairness
    /\ \A c \in Callers : WF_callVars(part = "calls" /\ Engine!Step(c))
    /\ WF_dialogVars(part = "dialogs" /\ Host!System)
    /\ WF_poolVars(part = "pool" /\ Pool!Progress)
    /\ WF_textVars(part = "text" /\ Text!Progress) /\ WF_textVars(part = "text" /\ Text!Pass)

HookSettles == Hook!WorkerReturns /\ Hook!EventsHandled
SentencesComeOut == Text!SentencesComeOut
EveryKeyAsked == Engine!EveryKeyAsked
CallsEnd == Engine!CallsEnd
\* Each line of a batch gets its own answer, from helpers of a pool that is not closed.
PoolServesCalls == Pool!LinesKeepTheirPlace /\ Pool!UsedPoolsLive
PoolsSettle == Pool!CallsReturn /\ Pool!PoolsClose

\* While the application runs no dialog's state is freed under its handler, none is left disabled,
\* and what was put aside is delivered; resolutions that crossed are excepted.
DialogsHold == Host!StateOutlivesHandlers /\ Host!ListUsable /\ Host!NothingStranded
ClosingEnds == Host!ClosingEnds
=============================================================================
