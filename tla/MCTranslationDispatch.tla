----------------------- MODULE MCTranslationDispatch -----------------------
(***************************************************************************)
(* TLC instances of TranslationDispatch with two windows, one of whose     *)
(* engine calls may hang.  `part` chooses between two sets of bounds:      *)
(* "fair" (those of the configuration), under fairness, and "contended",   *)
(* one HTTP permit, a store of one response and a local engine.            *)
(***************************************************************************)
EXTENDS TranslationDispatch

CONSTANTS t1, t2
VARIABLE part

MCTarget == {t1, t2}
MCHung == {t1}
NoLocalEngine == {}

Contended == INSTANCE TranslationDispatch WITH
                 LocalEngine <- {2}, MaxResponses <- 1, HttpPermits <- 1

DispatchInit ==
    \/ part = "fair" /\ Init
    \/ part = "contended" /\ Contended!Init

DispatchNext ==
    \/ part = "fair" /\ Next /\ UNCHANGED part
    \/ part = "contended" /\ Contended!Next /\ UNCHANGED part

fair == part = "fair"
dispatchVars == <<vars, part>>

\* TranslationDispatch!Fairness for the part whose requests are to settle.
DispatchFairness ==
    /\ WF_vars(fair /\ (PublishLatest \/ SendJob \/ RefuseJob))
    /\ WF_vars(fair /\ StartWorker) /\ WF_vars(fair /\ ReceiveJob)
    /\ \A id \in Ids :
          /\ SF_vars(fair /\ StartEngine(id))
          /\ WF_vars(fair /\ FinishEngine(id) /\ job[id].target \notin Hung)
          /\ WF_vars(fair /\ GiveUp(id))
          /\ WF_vars(fair /\ RouteResponse(id))
          /\ WF_vars(fair /\ (NotifyTarget(id) \/ FailNotify(id)))

DispatchSpec == DispatchInit /\ [][DispatchNext]_dispatchVars /\ DispatchFairness

(* A target whose engine calls hang does not hold up the others: with two  *)
(* permits, every request of a healthy target leaves the dispatcher (the   *)
(* tasks of superseded requests give their permits back).                  *)
HealthyTargetsLeave ==
    \A id \in Ids :
        fair /\ phase[id] = "queued" /\ job[id].target \notin Hung ~> phase[id] \in Settled
=============================================================================
