---------------------------- MODULE PreparedJobs ----------------------------
(***************************************************************************)
(* Jobs prepared from the configuration and kept for the next request      *)
(* (translation/job).  A job is looked up by a stamp of the configuration  *)
(* that reads of the dictionary only where it lies in memory and its ends, *)
(* and then by a fingerprint that reads all of it.                         *)
(***************************************************************************)
EXTENDS TranslationSettings, FiniteSets

CONSTANTS
    MaxJobs,        \* PREPARED_JOB_CACHE_MAX
    Ends,           \* the length and the two ends of each dictionary
    MaxAddress,     \* bound: addresses a dictionary may be allocated at
    MaxEdits,       \* bound: changes of the draft
    MaxRequests     \* bound: requests for a job

VARIABLES
    config,     \* the application's translation configuration
    at,         \* the address of its dictionary
    draft,      \* the configuration the settings window edits
    draftAt,    \* the address of the draft's dictionary
    kept,       \* what the user last gave each LLM provider
    freed,      \* addresses that belonged to a dictionary of the application since dropped
    jobs,       \* PREPARED_JOB_CACHE, the newest first: [stamp, fingerprint, job]
    served,     \* the last request: the configuration, the job and how it was found
    edits, requests

vars == <<config, at, draft, draftAt, kept, freed, jobs, served, edits, requests>>

-----------------------------------------------------------------------------
(* with_engine_languages: the job for a configuration, or a refusal.       *)
NoJob == [engine |-> "none"]
Credentials(c) ==
    CASE c.engine = "eztrans" -> c.path # ""
      [] c.engine = "deepl" -> EffectiveKeys(c) # << >>
      [] c.engine = "papago" -> c.papago # ""
      [] c.engine = "llm" -> c.llm.key # ""
      [] c.engine = "mys" -> c.mys # ""
      [] OTHER -> TRUE
Backend(c) ==
    CASE c.engine = "eztrans" -> <<c.path, c.dict>>
      [] c.engine = "deepl" -> <<EffectiveKeys(c), c.roundRobin>>
      [] c.engine = "papago" -> <<c.papago>>
      [] c.engine = "llm" -> <<c.provider, c.llm.model, c.llm.key>>
      [] c.engine = "mys" -> <<c.mys>>
      [] c.engine = "custom" -> <<ActiveCustom(c)>>
      [] OTHER -> << >>
JobOf(c) ==
    IF Credentials(c) /\ SupportsPair(c.engine, c.source, c.target)
    THEN [engine |-> c.engine, source |-> c.source, target |-> c.target, backend |-> Backend(c)]
    ELSE NoJob

(* hash_config: what is hashed, with `dictionary` for the dictionary.      *)
Hashed(c, dictionary) ==
    <<c.engine, c.source, c.target,
      CASE c.engine = "eztrans" -> <<c.path, dictionary>>
        [] OTHER -> Backend(c)>>

Stamp(c, address) == Hashed(c, <<address, Ends[c.dict]>>)
Fingerprint(c) == Hashed(c, c.dict)

-----------------------------------------------------------------------------
(* The cache of translations knows a service by this name.                 *)
CacheEngineId(job) ==
    CASE job.engine = "llm" -> <<"llm", job.backend[2]>>
      [] job.engine = "eztrans" -> <<"eztrans", job.backend[2]>>
      [] OTHER -> <<job.engine>>

\* default_model; OpenRouter has none.
DefaultModel(provider) == IF provider = "openrouter" THEN "" ELSE <<"default of", provider>>
\* Who translates: the server asked, and of an LLM the model.
Service(job) ==
    CASE job.engine = "llm" ->
            <<job.backend[1], IF job.backend[2] = "" THEN DefaultModel(job.backend[1]) ELSE job.backend[2]>>
      [] job.engine = "custom" -> <<"custom", job.backend[1]>>
      [] OTHER -> <<job.engine>>

-----------------------------------------------------------------------------
Free == (1..MaxAddress) \ {at, draftAt}

TypeOK ==
    /\ at \in 1..MaxAddress /\ draftAt \in 1..MaxAddress /\ at # draftAt
    /\ Len(jobs) <= MaxJobs
    /\ edits \in 0..MaxEdits /\ requests \in 0..MaxRequests

Init ==
    /\ config = [DefaultConfig EXCEPT !.legacyKey = "old key"]
    /\ draft = config /\ at = 1 /\ draftAt = 2
    /\ kept = [p \in ProvidersUsed |-> DefaultProfile]
    /\ freed = {} /\ jobs = << >>
    /\ served = [how |-> "none", config |-> config, at |-> 0, job |-> NoJob]
    /\ edits = 0 /\ requests = 0

\* A change of the draft; a dictionary is committed as a list of its own.
Edit ==
    /\ edits < MaxEdits
    /\ draft' \in Changes(draft) \ {draft}
    /\ IF draft'.dict # draft.dict THEN draftAt' \in Free ELSE UNCHANGED draftAt
    /\ kept' = IF draft'.provider = draft.provider
               THEN [kept EXCEPT ![draft.provider] = draft'.llm] ELSE kept
    /\ edits' = edits + 1
    /\ UNCHANGED <<config, at, freed, jobs, served, requests>>

\* A preview or the apply button: the application takes a clone of the draft for its
\* configuration, and drops the one it had.
Apply ==
    /\ draft # config
    /\ config' = draft
    /\ at' \in Free
    /\ freed' = freed \cup {at}
    /\ UNCHANGED <<draft, draftAt, kept, jobs, served, edits, requests>>

\* The places of the kept jobs with this stamp, or with this fingerprint.
Matching(field, value) == {i \in DOMAIN jobs : jobs[i][field] = value}
FirstOf(places) == jobs[CHOOSE i \in places : \A k \in places : i <= k]

\* from_config_cached
Request ==
    /\ requests < MaxRequests
    /\ LET stamp == Stamp(config, at)
           fingerprint == Fingerprint(config)
           job == JobOf(config)
           stamped == Matching("stamp", stamp)
           same == Matching("fingerprint", fingerprint)
           Serve(how, j) == served' = [how |-> how, config |-> config, at |-> at, job |-> j]
       IN \/ stamped # {} /\ Serve("stamp", FirstOf(stamped).job) /\ UNCHANGED jobs
          \/ /\ stamped = {} /\ same # {}
             /\ Serve("fingerprint", FirstOf(same).job) /\ UNCHANGED jobs
          \/ /\ stamped = {} /\ same = {}
             /\ Serve("new", job)
             /\ jobs' = IF job = NoJob THEN jobs
                        ELSE LET all == <<[stamp |-> stamp, fingerprint |-> fingerprint, job |-> job]>> \o jobs
                             IN SubSeq(all, 1, IF Len(all) < MaxJobs THEN Len(all) ELSE MaxJobs)
    /\ requests' = requests + 1
    /\ UNCHANGED <<config, at, draft, draftAt, kept, freed, edits>>

Next == Edit \/ Apply \/ Request
Spec == Init /\ [][Next]_vars

-----------------------------------------------------------------------------
(* Properties                                                              *)

(* A request is served by the job its configuration asks for, whichever    *)
(* changes came before and whichever jobs were kept - except that the      *)
(* stamp of an EzTrans job tells two dictionaries apart only by where they *)
(* lie, so one at an address that was in use before may be taken for the   *)
(* earlier one.                                                            *)
JobFitsConfig ==
    \/ served.how = "none"
    \/ served.job = JobOf(served.config)
    \/ /\ served.how = "stamp" /\ served.config.engine = "eztrans" /\ served.at \in freed
       /\ [served.job EXCEPT !.backend[2] = served.config.dict] = JobOf(served.config)

(* What the user gave an LLM provider is there whenever that provider is   *)
(* the one in use, whatever was used in between.                           *)
ProfilesKept ==
    /\ draft.llm = kept[draft.provider]
    /\ \A p \in ProvidersUsed \ {draft.provider} :
          kept[p] = IF p \in DOMAIN draft.profiles THEN draft.profiles[p] ELSE DefaultProfile

(* "LLM results may differ with the model, so its name is part of the      *)
(* cache's key, and for the other engines the engine's name is enough":    *)
(* one change of the settings that changes who translates changes the key. *)
CacheKeyTellsServices ==
    LET job == JobOf(config)
    IN job # NoJob =>
         \A changed \in {JobOf(c) : c \in Changes(config)} \ {NoJob} :
            CacheEngineId(changed) = CacheEngineId(job) => Service(changed) = Service(job)
=============================================================================
