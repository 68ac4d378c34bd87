---------------------------- MODULE EzTransPool ----------------------------
(***************************************************************************)
(* The pool of ezTrans helper processes that file translation uses         *)
(* (translation/eztrans_process/) and the registry that keeps one pool.    *)
(*                                                                         *)
(* A job asks the registry for a pool of its configuration.  The registry  *)
(* keeps its lock while a new pool starts and while the one it replaces is *)
(* dropped.  A pool has one thread per helper process; the threads load    *)
(* their process one at a time behind a gate that the in-process engine    *)
(* shares.  A call hands its batches to the threads round robin and waits  *)
(* for the answers; a thread halves a batch that its helper cannot         *)
(* translate as a whole, and starts a helper that died once more.          *)
(***************************************************************************)
EXTENDS Integers, Sequences, FiniteSets, SequencesExt

CONSTANTS
    Jobs,           \* file jobs, each a thread that makes one call
    Configs,        \* configurations of the pool
    Helpers,        \* processes of a pool: 1..Helpers
    Calls,          \* what the jobs may ask: calls[j][b] is the lines of batch b of job j
    MaxPools,       \* bound: pools created
    MaxFaults,      \* bound: helpers that die or cannot be started
    MaxHangs        \* bound: helpers that never answer

Pools == 1..MaxPools
HelperIds == 1..Helpers
NoPool == 0
NoJob == "none"
Nobody == <<0, 1>>

VARIABLES
    config,     \* config[j]: the configuration the job was prepared with
    call,       \* call[j]: the lines of each batch of the job's call
    job,        \* job[j]: where the job's thread is
    poolOf,     \* poolOf[j]: the pool the job holds or starts
    cancelled,  \* cancelled[j]: the job's cancel token
    completed,  \* completed[j][b]: the lines of batch b, << >> before
    answers,    \* answers[j]: the response channel of the job's call
    slot,       \* the registry's pool
    lock,       \* the job that holds the registry's lock
    pool,       \* pool[p]: [config, state]
    next,       \* next[p]: next_worker, modulo the number of helpers
    helper,     \* helper[p][h]: where the thread of a helper is
    dead,       \* dead[p]: the helpers whose process has died
    queue,      \* queue[p][h]: commands sent to the thread
    work,       \* work[p][h]: what the thread is translating
    gate,       \* who loads the engine's data behind the gate
    faults, hangs

vars == <<config, call, job, poolOf, cancelled, completed, answers, slot, lock, pool, next,
          helper, dead, queue, work, gate, faults, hangs>>
jobVars == <<config, call, job, poolOf, cancelled, completed, answers>>
registryVars == <<slot, lock, pool, next>>
helperVars == <<helper, dead, queue, work, gate, faults, hangs>>

Shutdown == [job |-> NoJob, batch |-> 0]
NoWork == [job |-> NoJob, batch |-> 0, todo |-> << >>, done |-> << >>, mode |-> "batch"]

Lines(j, b) == [k \in 1..call[j][b] |-> 10 * b + k]
Empty(j) == [b \in 1..Len(call[j]) |-> << >>]

Init ==
    /\ config \in [Jobs -> Configs]
    /\ call \in Calls
    /\ job = [j \in Jobs |-> IF call[j] = << >> THEN "gone" ELSE "new"]
    /\ poolOf = [j \in Jobs |-> NoPool]
    /\ cancelled = [j \in Jobs |-> FALSE]
    /\ completed = [j \in Jobs |-> Empty(j)]
    /\ answers = [j \in Jobs |-> << >>]
    /\ slot = NoPool
    /\ lock = NoJob
    /\ pool = [p \in Pools |-> [config |-> CHOOSE c \in Configs : TRUE, state |-> "none"]]
    /\ next = [p \in Pools |-> 0]
    /\ helper = [p \in Pools |-> [h \in HelperIds |-> "none"]]
    /\ dead = [p \in Pools |-> {}]
    /\ queue = [p \in Pools |-> [h \in HelperIds |-> << >>]]
    /\ work = [p \in Pools |-> [h \in HelperIds |-> NoWork]]
    /\ gate = Nobody
    /\ faults = 0
    /\ hangs = 0

-----------------------------------------------------------------------------
(* The registry and the life of a pool                                     *)

\* The slot's pool was started with the configuration of the job.
Fits(j) == IF slot = NoPool THEN FALSE ELSE pool[slot].config = config[j]
HeldBy(p) == {j \in Jobs : poolOf[j] = p}
Ended(p) == \A h \in HelperIds : helper[p][h] \in {"none", "failed", "ended"}

SendShutdown(p) ==
    queue' = [queue EXCEPT ![p] = [h \in HelperIds |-> Append(@[h], Shutdown)]]

\* EzTransProcessPoolRegistry::get with a pool of this configuration in the slot.
GetPool(j) ==
    /\ job[j] = "new" /\ lock = NoJob
    /\ Fits(j)
    /\ poolOf' = [poolOf EXCEPT ![j] = slot]
    /\ job' = [job EXCEPT ![j] = "ready"]
    /\ UNCHANGED <<config, call, cancelled, completed, answers, registryVars, helperVars>>

\* get without one: the lock stays taken and a pool's threads are started.
StartPool(j) ==
    /\ job[j] = "new" /\ lock = NoJob
    /\ ~Fits(j)
    /\ \E p \in Pools :
         /\ pool[p].state = "none" /\ \A q \in 1..(p - 1) : pool[q].state # "none"
         /\ pool' = [pool EXCEPT ![p] = [config |-> config[j], state |-> "starting"]]
         /\ helper' = [helper EXCEPT ![p] = [h \in HelperIds |-> "gate"]]
         /\ poolOf' = [poolOf EXCEPT ![j] = p]
    /\ lock' = j
    /\ job' = [job EXCEPT ![j] = "starting"]
    /\ UNCHANGED <<config, call, cancelled, completed, answers, slot, next, dead, queue, work,
                   gate, faults, hangs>>

Reported(p) == \A h \in HelperIds : helper[p][h] \notin {"gate", "loading"}
Failed(p) == \E h \in HelperIds : helper[p][h] = "failed"

\* All helpers are ready: the pool takes the slot; the assignment drops the old
\* pool, and joins its threads, when no job holds it any more.
PoolReady(j) ==
    LET p == poolOf[j]
        drops == slot # NoPool /\ HeldBy(slot) = {}
    IN  /\ job[j] = "starting" /\ Reported(p) /\ ~Failed(p)
        /\ slot' = p
        /\ pool' = [q \in Pools |-> [pool[q] EXCEPT !.state =
                        IF q = p THEN "live" ELSE IF drops /\ q = slot THEN "closing" ELSE @]]
        /\ IF drops
           THEN /\ SendShutdown(slot)
                /\ job' = [job EXCEPT ![j] = "replacing"]
                /\ UNCHANGED lock
           ELSE /\ lock' = NoJob
                /\ job' = [job EXCEPT ![j] = "ready"]
                /\ UNCHANGED queue
        /\ UNCHANGED <<config, call, poolOf, cancelled, completed, answers, next,
                       helper, dead, work, gate, faults, hangs>>

\* A helper failed: the others are told to end and joined, and get fails.
PoolFails(j) ==
    LET p == poolOf[j]
    IN  /\ job[j] = "starting" /\ Reported(p) /\ Failed(p)
        /\ pool' = [pool EXCEPT ![p].state = "closing"]
        /\ SendShutdown(p)
        /\ job' = [job EXCEPT ![j] = "abandoning"]
        /\ UNCHANGED <<config, call, poolOf, cancelled, completed, answers, slot, lock, next,
                       helper, dead, work, gate, faults, hangs>>

\* The job ends and gives up its pool; whoever is last drops it and waits.
LeavePool(j) ==
    LET p == poolOf[j]
        drops == p # NoPool /\ p # slot /\ HeldBy(p) = {j}
    IN  /\ job[j] \in {"ok", "error"}
        /\ IF drops
           THEN /\ pool' = [pool EXCEPT ![p].state = "closing"]
                /\ SendShutdown(p)
                /\ job' = [job EXCEPT ![j] = "leaving"]
                /\ UNCHANGED poolOf
           ELSE /\ job' = [job EXCEPT ![j] = "gone"]
                /\ poolOf' = [poolOf EXCEPT ![j] = NoPool]
                /\ UNCHANGED <<pool, queue>>
        /\ completed' = [completed EXCEPT ![j] = Empty(j)]
        /\ answers' = [answers EXCEPT ![j] = << >>]
        /\ UNCHANGED <<config, call, cancelled, slot, lock, next,
                       helper, dead, work, gate, faults, hangs>>

\* The pool whose threads the job is joining.
Joins(j, p) ==
    /\ pool[p].state = "closing"
    /\ \/ job[j] \in {"abandoning", "leaving"} /\ poolOf[j] = p
       \/ job[j] = "replacing" /\ HeldBy(p) = {}

\* The last join: get returns, or the job's thread ends.
PoolClosed(j) ==
    /\ \E p \in Pools :
         /\ Joins(j, p) /\ Ended(p)
         /\ pool' = [pool EXCEPT ![p].state = "gone"]
         /\ poolOf' = [poolOf EXCEPT ![j] = IF @ = p THEN NoPool ELSE @]
    /\ job' = [job EXCEPT ![j] = CASE @ = "abandoning" -> "error"
                                   [] @ = "replacing" -> "ready"
                                   [] @ = "leaving" -> "gone"]
    /\ lock' = IF lock = j THEN NoJob ELSE lock
    /\ UNCHANGED <<config, call, cancelled, completed, answers, slot, next, helperVars>>

-----------------------------------------------------------------------------
(* translate_batches                                                       *)

\* Batch b goes to thread (start + b - 1) modulo the number of threads.
TargetOf(p, b) == ((next[p] + b - 1) % Helpers) + 1

\* The queues of the pool's threads once every batch of the call is sent.
Sent(j, p) ==
    LET sent[b \in 0..Len(call[j])] ==
            IF b = 0 THEN queue[p]
            ELSE [sent[b - 1] EXCEPT ![TargetOf(p, b)] = Append(@, [job |-> j, batch |-> b])]
    IN  sent[Len(call[j])]

TranslateBatches(j) ==
    LET p == poolOf[j]
    IN  /\ job[j] = "ready"
        /\ queue' = [queue EXCEPT ![p] = Sent(j, p)]
        /\ next' = [next EXCEPT ![p] = (@ + Len(call[j])) % Helpers]
        /\ job' = [job EXCEPT ![j] = "waiting"]
        /\ UNCHANGED <<config, call, poolOf, cancelled, completed, answers, slot, lock, pool,
                       helper, dead, work, gate, faults, hangs>>

\* One turn of the waiting loop: the cancel token is looked at before the channel.
Waits(j) == job[j] = "waiting"

(* Mutant: the token is looked at only when an answer is there. *)
ReturnCancelledOnAnswer(j) ==
    /\ Waits(j) /\ cancelled[j] /\ answers[j] # << >>
    /\ job' = [job EXCEPT ![j] = "error"]
    /\ UNCHANGED <<config, call, poolOf, cancelled, completed, answers, registryVars, helperVars>>

ReturnCancelled(j) ==
    /\ Waits(j) /\ cancelled[j]
    /\ job' = [job EXCEPT ![j] = "error"]
    /\ UNCHANGED <<config, call, poolOf, cancelled, completed, answers, registryVars, helperVars>>

AllCompleted(c) == \A b \in DOMAIN c : c[b] # << >>

ReceiveAnswer(j) ==
    /\ Waits(j) /\ ~cancelled[j] /\ answers[j] # << >>
    /\ LET a == Head(answers[j])
           now == [completed[j] EXCEPT ![a.batch] = a.lines]
       IN  IF a.lines = << >>
           THEN /\ job' = [job EXCEPT ![j] = "error"]
                /\ UNCHANGED completed
           ELSE /\ completed' = [completed EXCEPT ![j] = now]
                /\ job' = [job EXCEPT ![j] = IF AllCompleted(now) THEN "ok" ELSE @]
    /\ answers' = [answers EXCEPT ![j] = Tail(@)]
    /\ UNCHANGED <<config, call, poolOf, cancelled, registryVars, helperVars>>

\* The user cancels the job; before the call waits nobody looks at its token.
Cancel(j) ==
    /\ ~cancelled[j] /\ job[j] = "waiting"
    /\ cancelled' = [cancelled EXCEPT ![j] = TRUE]
    /\ UNCHANGED <<config, call, job, poolOf, completed, answers, registryVars, helperVars>>

-----------------------------------------------------------------------------
(* worker_loop: loading                                                    *)

Fault == faults < MaxFaults /\ faults' = faults + 1

EnterGate(p, h) ==
    /\ helper[p][h] = "gate" /\ gate = Nobody
    /\ gate' = <<p, h>>
    /\ helper' = [helper EXCEPT ![p][h] = "loading"]
    /\ UNCHANGED <<jobVars, registryVars, dead, queue, work, faults, hangs>>

\* WorkerClient::spawn succeeds, or the child it started is killed.
Load(p, h) ==
    /\ helper[p][h] = "loading"
    /\ \/ helper' = [helper EXCEPT ![p][h] = "idle"]
          /\ UNCHANGED faults
       \/ Fault /\ helper' = [helper EXCEPT ![p][h] = "failed"]
    /\ gate' = Nobody
    /\ UNCHANGED <<jobVars, registryVars, dead, queue, work, hangs>>

-----------------------------------------------------------------------------
(* worker_loop: commands                                                   *)

\* send on the response channel; nobody reads it once the call has returned.
Answer(j, b, lines) ==
    answers' = IF job[j] = "waiting"
               THEN [answers EXCEPT ![j] = Append(@, [batch |-> b, lines |-> lines])]
               ELSE answers

ReceiveShutdown(p, h) ==
    /\ helper[p][h] = "idle" /\ queue[p][h] # << >> /\ Head(queue[p][h]) = Shutdown
    /\ helper' = [helper EXCEPT ![p][h] = "ended"]
    /\ queue' = [queue EXCEPT ![p][h] = Tail(@)]
    /\ UNCHANGED <<jobVars, registryVars, dead, work, gate, faults, hangs>>

ReceiveTranslate(p, h) ==
    /\ helper[p][h] = "idle" /\ queue[p][h] # << >> /\ Head(queue[p][h]) # Shutdown
    /\ LET c == Head(queue[p][h])
       IN  IF cancelled[c.job]
           THEN /\ Answer(c.job, c.batch, << >>)
                /\ UNCHANGED <<helper, work>>
           ELSE /\ helper' = [helper EXCEPT ![p][h] = "busy"]
                /\ work' = [work EXCEPT ![p][h] =
                              [job |-> c.job, batch |-> c.batch, mode |-> "batch",
                               todo |-> <<Lines(c.job, c.batch)>>, done |-> << >>]]
                /\ UNCHANGED answers
    /\ queue' = [queue EXCEPT ![p][h] = Tail(@)]
    /\ UNCHANGED <<config, call, job, poolOf, cancelled, completed, registryVars, dead, gate, faults, hangs>>

\* The batch is done, or failed (lines = << >>): the answer is sent.
Finish(p, h, lines) ==
    /\ Answer(work[p][h].job, work[p][h].batch, lines)
    /\ helper' = [helper EXCEPT ![p][h] = "idle"]
    /\ work' = [work EXCEPT ![p][h] = NoWork]

\* The head of todo has its translation.
Translated(p, h, lines) ==
    LET w == work[p][h]
        rest == Tail(w.todo)
    IN  IF rest = << >>
        THEN Finish(p, h, w.done \o lines)
        ELSE /\ work' = [work EXCEPT ![p][h].todo = rest, ![p][h].done = @ \o lines,
                                     ![p][h].mode = "batch"]
             /\ UNCHANGED <<answers, helper>>

(* Mutant: the right half is translated first. *)
BisectRightFirst(p, h) ==
    LET s == Head(work[p][h].todo)
        mid == Len(s) \div 2
    IN  /\ work' = [work EXCEPT
              ![p][h].todo = <<SubSeq(s, mid + 1, Len(s)), SubSeq(s, 1, mid)>> \o Tail(@),
              ![p][h].mode = "batch"]
        /\ UNCHANGED <<answers, helper>>

\* translate_resilient calls itself on the two halves, left before right.
Bisect(p, h) ==
    LET w == work[p][h]
        s == Head(w.todo)
        mid == Len(s) \div 2
    IN  /\ work' = [work EXCEPT
              ![p][h].todo = <<SubSeq(s, 1, mid), SubSeq(s, mid + 1, Len(s))>> \o Tail(@),
              ![p][h].mode = "batch"]
        /\ UNCHANGED <<answers, helper>>

Alive(p, h) == helper[p][h] = "busy" /\ h \notin dead[p]
Segment(p, h) == Head(work[p][h].todo)
WholeBatch(p, h) == work[p][h].mode \in {"batch", "batch_again"}

\* The helper answered with as many lines as were sent, or, for a single line in
\* translated_single_boundary_fallback, with anything.
AnswersWell(p, h) ==
    /\ Alive(p, h)
    /\ Translated(p, h, Segment(p, h))
    /\ UNCHANGED <<dead, faults>>

\* The helper moved the boundaries of lines: halve, or ask for the line alone.
ChangesBoundaries(p, h) ==
    /\ Alive(p, h) /\ WholeBatch(p, h)
    /\ IF Len(Segment(p, h)) = 1
       THEN work' = [work EXCEPT ![p][h].mode = "single"] /\ UNCHANGED <<answers, helper>>
       ELSE Bisect(p, h)
    /\ UNCHANGED <<dead, faults>>

\* The engine reports an error: halve, or mark the one line as failed.
EngineFails(p, h) ==
    /\ Alive(p, h)
    /\ IF Len(Segment(p, h)) = 1
       THEN Translated(p, h, <<0 - Segment(p, h)[1]>>)
       ELSE Bisect(p, h)
    /\ UNCHANGED <<dead, faults>>

\* The pipe breaks, or the helper is found dead: start it once more for this segment.
TransportFails(p, h) ==
    /\ helper[p][h] = "busy"
    /\ IF h \in dead[p] THEN UNCHANGED <<dead, faults>>
       ELSE Fault /\ dead' = [dead EXCEPT ![p] = @ \cup {h}]
    /\ IF work[p][h].mode \in {"batch_again", "single_again"}
       THEN Finish(p, h, << >>)
       ELSE helper' = [helper EXCEPT ![p][h] = "respawning"] /\ UNCHANGED <<work, answers>>

RoundTrip(p, h) ==
    /\ AnswersWell(p, h) \/ ChangesBoundaries(p, h) \/ EngineFails(p, h) \/ TransportFails(p, h)
    /\ UNCHANGED <<config, call, job, poolOf, cancelled, completed, registryVars, queue, gate, hangs>>

\* The respawn closure of worker_loop: WorkerClient::spawn, not behind the gate.
Respawn(p, h) ==
    /\ helper[p][h] = "respawning"
    /\ \/ /\ helper' = [helper EXCEPT ![p][h] = "busy"]
          /\ work' = [work EXCEPT ![p][h].mode =
                        IF @ = "batch" THEN "batch_again" ELSE "single_again"]
          /\ dead' = [dead EXCEPT ![p] = @ \ {h}]
          /\ UNCHANGED <<answers, faults>>
       \/ Fault /\ Finish(p, h, << >>) /\ UNCHANGED dead
    /\ UNCHANGED <<config, call, job, poolOf, cancelled, completed, registryVars, queue, gate, hangs>>

\* A helper takes the request and never answers.
Hang(p, h) ==
    /\ Alive(p, h) /\ hangs < MaxHangs
    /\ helper' = [helper EXCEPT ![p][h] = "hung"]
    /\ hangs' = hangs + 1
    /\ UNCHANGED <<jobVars, registryVars, dead, queue, work, gate, faults>>

JobStep(j) ==
    \/ GetPool(j) \/ StartPool(j) \/ PoolReady(j) \/ PoolFails(j) \/ PoolClosed(j)
    \/ TranslateBatches(j) \/ ReturnCancelled(j) \/ ReceiveAnswer(j) \/ LeavePool(j)
HelperStep(p, h) ==
    \/ EnterGate(p, h) \/ Load(p, h) \/ ReceiveShutdown(p, h) \/ ReceiveTranslate(p, h)
    \/ RoundTrip(p, h) \/ Respawn(p, h)

Next ==
    \/ \E j \in Jobs : JobStep(j) \/ Cancel(j)
    \/ \E p \in Pools, h \in HelperIds : HelperStep(p, h) \/ Hang(p, h)

\* Some thread that can take a step does.  That is enough: calls and faults are bounded, so
\* no behaviour goes on without end, and what is left waiting waits for a hung helper.
Progress ==
    \/ \E j \in Jobs : JobStep(j)
    \/ \E p \in Pools, h \in HelperIds : HelperStep(p, h)
Fairness == WF_vars(Progress)

Spec == Init /\ [][Next]_vars /\ Fairness

-----------------------------------------------------------------------------
(* Properties                                                              *)

\* The places, the channels and the counters stay in their types.
TypeOK ==
    /\ job \in [Jobs -> {"new", "starting", "replacing", "abandoning", "ready", "waiting",
                         "ok", "error", "leaving", "gone"}]
    /\ poolOf \in [Jobs -> Pools \cup {NoPool}]
    /\ lock \in Jobs \cup {NoJob} /\ slot \in Pools \cup {NoPool}
    /\ next \in [Pools -> 0..(Helpers - 1)]
    /\ helper \in [Pools -> [HelperIds -> {"none", "gate", "loading", "failed", "idle", "busy",
                                          "respawning", "hung", "ended"}]]
    /\ gate \in {Nobody} \cup (Pools \X HelperIds)

\* A line keeps its place: whatever was halved, retried or marked as failed, the
\* batch a call returns has the translations of its own lines in their order.
LinesKeepTheirPlace ==
    \A j \in Jobs : \A b \in DOMAIN completed[j] :
        completed[j][b] # << >> =>
            /\ Len(completed[j][b]) = call[j][b]
            /\ \A k \in 1..call[j][b] :
                 completed[j][b][k] \in {Lines(j, b)[k], 0 - Lines(j, b)[k]}

\* A pool is joined only when nobody can send to it any more: the slot's pool and
\* the pool of a job that will call or waits are live.
UsedPoolsLive ==
    /\ slot # NoPool => pool[slot].state = "live"
    /\ \A j \in Jobs : job[j] \in {"ready", "waiting"} => pool[poolOf[j]].state = "live"

Hung(p) == \E h \in HelperIds : helper[p][h] = "hung"

\* A call returns when it is cancelled, even from helpers that hang, and without
\* being cancelled unless one of them hangs.
CallsReturn ==
    \A j \in Jobs :
        job[j] = "waiting" ~>
            job[j] # "waiting" \/ (~cancelled[j] /\ poolOf[j] # NoPool /\ Hung(poolOf[j]))

\* Dropping a pool ends, unless one of its helpers hangs.
PoolsClose ==
    \A p \in Pools : pool[p].state = "closing" ~> pool[p].state = "gone" \/ Hung(p)
=============================================================================
