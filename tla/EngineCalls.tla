---------------------------- MODULE EngineCalls -----------------------------
(***************************************************************************)
(* One engine call of the dispatcher's tasks, from the request to the      *)
(* text or error it ends with: what is refused before anything is sent,    *)
(* how an HTTP response is read, what each service's answer means, the     *)
(* DeepL keys tried in turn, and the retries (translation/worker/          *)
(* translate.rs, http_common.rs and the service modules).                  *)
(***************************************************************************)
EXTENDS Naturals, FiniteSets, Sequences

CONSTANTS
    Call,           \* calls under way at the same time
    MaxKeys,        \* bound: DeepL keys in a job
    MaxRetries      \* MAX_RETRIES

Services == {"google", "deepl", "papago", "openai", "chat", "anthropic", "gemini", "custom",
             "custom_whole"}
Llm == {"openai", "chat", "anthropic", "gemini"}

(* Results: [kind |-> "ok", text] or [kind, code, wait], the variant of    *)
(* TranslationError, the HTTP-like code and the server's Retry-After.      *)
Ok(text) == [kind |-> "ok", text |-> text]
Failed(kind) == [kind |-> kind, code |-> 0, wait |-> 0]
ApiError(code) == [Failed("api") EXCEPT !.code = code]

\* TranslationError::is_retryable
Retryable(e) ==
    \/ e.kind \in {"network", "limited"}
    \/ e.kind = "api" /\ e.code \in {429, 500, 502, 503, 504, 529}

\* deepl_should_fallback: the key's quota is used up, or the key is refused.
FallsBack(e) == e.kind \in {"api", "limited"} /\ e.code \in {429, 456, 403}

-----------------------------------------------------------------------------
(* Reading a response.  size: the body fits the limit of error bodies, only *)
(* that of translations, or neither; fault: what else goes wrong.           *)
Statuses == {200, 400, 403, 429, 456, 500, 503}
Faults == {"none", "unsent", "broken", "not_utf8"}

TooLarge(r) == r.size = "huge" \/ (r.size = "large" /\ r.status # 200)

\* parse_retry_after_value: at most MAX_RETRY_AFTER (2 stands for 120 s).
RetryAfter(r) == IF r.wait > 2 THEN 2 ELSE r.wait

\* send and send_and_read_body; a whole body of a success is left to the service's parser.
ReadFails(r) == TooLarge(r) \/ r.fault # "none" \/ r.status # 200
ReadError(r) ==
    IF r.fault = "unsent" THEN Failed("network")
    ELSE IF TooLarge(r) THEN Failed("response_too_large")
    ELSE IF r.fault = "broken" THEN Failed("network")
    ELSE IF r.fault = "not_utf8" THEN Failed("parse")
    ELSE [kind |-> IF r.status = 429 THEN "limited" ELSE "api",
          code |-> r.status, wait |-> RetryAfter(r)]

(* The JSON bodies.  text: the field of the translation is missing, empty, *)
(* white space, or words; stop: the reason given for the end of the        *)
(* output; error: the error object, by where its code of 429 stands.       *)
Bodies == [json : BOOLEAN, text : {"missing", "empty", "blank", "words"},
           stop : {"none", "done", "cut", "other"}, refusal : BOOLEAN,
           error : {"none", "null", "plain", "number", "string", "type"}]

NoText == {"missing", "empty"}
ErrorCode(b, places) == IF b.error \in places THEN 429 ELSE 0

\* parse_response (Responses API)
OpenAiAnswer(b) ==
    IF ~b.json THEN Failed("parse")
    ELSE IF b.stop = "cut" THEN Failed("truncated")
    ELSE IF b.refusal THEN ApiError(0)
    ELSE IF b.error \notin {"none", "null"} THEN ApiError(ErrorCode(b, {"number", "string"}))
    ELSE IF b.text = "words" THEN Ok("words")
    ELSE Failed("parse")

\* parse_chat_completion (Grok, OpenRouter)
ChatAnswer(b) ==
    IF ~b.json THEN Failed("parse")
    ELSE IF b.text # "missing" /\ b.stop = "cut" THEN Failed("truncated")
    ELSE IF b.text = "words" THEN Ok("words")
    ELSE IF b.refusal THEN ApiError(0)
    ELSE IF b.error # "none" THEN ApiError(ErrorCode(b, {"string"}))
    ELSE IF b.stop \in {"cut", "other"} THEN ApiError(0)
    ELSE Failed("parse")

\* The two services that name why the output ended: white space counts as output, and is
\* trimmed away.
Trimmed(text) == IF text = "blank" THEN "empty" ELSE text
StoppedAnswer(b, places) ==
    IF ~b.json THEN Failed("parse")
    ELSE IF b.stop = "cut" THEN Failed("truncated")
    ELSE IF b.stop = "other" THEN ApiError(0)
    ELSE IF b.text \notin NoText THEN Ok(Trimmed(b.text))
    ELSE IF b.error # "none" THEN ApiError(ErrorCode(b, places))
    ELSE Failed("parse")

\* parse_messages_response, parse_generate_content_response
AnthropicAnswer(b) == StoppedAnswer(b, {"type"})
GeminiAnswer(b) == StoppedAnswer(b, {"number"})

\* parse_google_response: the pieces found are joined, and none at all is an error.
GoogleAnswer(b) == IF b.json /\ b.text \notin NoText THEN Ok(b.text) ELSE Failed("parse")

\* parse_deepl_response: the first translation, which may be empty.
DeepLAnswer(b) == IF b.json /\ b.text # "missing" THEN Ok(b.text) ELSE Failed("parse")

\* parse_papago_response
PapagoAnswer(b) ==
    IF ~b.json THEN Failed("parse")
    ELSE IF b.text # "missing" THEN Ok(b.text)
    ELSE IF b.error \notin {"none", "null"} THEN ApiError(ErrorCode(b, {"string"}))
    ELSE Failed("parse")

\* extract_translation: without a path the whole body is the translation.
CustomAnswer(b, path) ==
    IF ~path THEN Ok("body")
    ELSE IF b.json /\ b.text # "missing" THEN Ok(b.text)
    ELSE Failed("parse")

ServiceAnswer(service, b) ==
    CASE service = "google" -> GoogleAnswer(b)
      [] service = "deepl" -> DeepLAnswer(b)
      [] service = "papago" -> PapagoAnswer(b)
      [] service = "openai" -> OpenAiAnswer(b)
      [] service = "chat" -> ChatAnswer(b)
      [] service = "anthropic" -> AnthropicAnswer(b)
      [] service = "gemini" -> GeminiAnswer(b)
      [] service = "custom" -> CustomAnswer(b, TRUE)
      [] service = "custom_whole" -> CustomAnswer(b, FALSE)

Answer(service, r) == IF ReadFails(r) THEN ReadError(r) ELSE ServiceAnswer(service, r.body)

-----------------------------------------------------------------------------
(* What a service refuses before anything is sent.  The job was prepared    *)
(* from a configuration (PreparedJobs), so most of it is refused there.     *)

\* DeepL counts the bytes of the request, which a text within max_input_chars may exceed.
DeepLRefusals == {Failed("missing_key"), Failed("request_too_large")}
\* Only OpenRouter has no model of its own.
OpenAiRefusals == {Failed("missing_model"), Failed("missing_key")}
Refusals(service) ==
    {Failed("empty_text")} \cup
    (IF service = "deepl" THEN DeepLRefusals ELSE OpenAiRefusals)

-----------------------------------------------------------------------------
(* The calls.                                                              *)
VARIABLES
    calls,      \* calls[c]: [at, service, keys, attempt, start, offset, asked, result]
    counter     \* COUNTER: starts handed out to jobs that take their keys in turn

vars == <<calls, counter>>

Idle == [at |-> "idle", service |-> "none", keys |-> 0, inTurn |-> FALSE, attempt |-> 0,
         start |-> 0, offset |-> 0, asked |-> << >>, result |-> Failed("none")]

\* The results of a single request, by what the caller tells apart.
SomeBody == [json |-> TRUE, text |-> "words", stop |-> "done", refusal |-> FALSE, error |-> "none"]
SomeResponses == [status : {200, 400, 403, 429, 503}, size : {"small"}, fault : {"none", "unsent"},
                  wait : {0}, body : {SomeBody}]
Outcomes(service) == {Answer(service, r) : r \in SomeResponses} \cup Refusals(service)

TypeOK ==
    /\ \A c \in Call :
        /\ calls[c].at \in {"idle", "attempt", "ask", "wait", "done"}
        /\ calls[c].attempt \in 0..MaxRetries /\ calls[c].keys \in 0..MaxKeys
        /\ calls[c].at = "ask" => calls[c].offset < calls[c].keys
    /\ counter \in 0..(Cardinality(Call) * (MaxRetries + 1))

Init == calls = [c \in Call |-> Idle] /\ counter = 0

\* translate_async begins: an input past the engine's limit is refused at once.  A service
\* without several keys is a job with one.
Begin(c) ==
    /\ calls[c].at = "idle"
    /\ \E service \in {"deepl", "openai"}, keys \in 1..MaxKeys, inTurn, tooLong \in BOOLEAN :
        /\ service # "deepl" => keys = 1 /\ ~inTurn
        /\ calls' = [calls EXCEPT ![c] =
              IF tooLong THEN [Idle EXCEPT !.at = "done", !.result = Failed("input_too_long")]
              ELSE [Idle EXCEPT !.at = "attempt", !.service = service, !.keys = keys,
                                !.inTurn = inTurn]]
    /\ UNCHANGED counter

\* The key an attempt begins with: the first, or the next in turn (fetch_add).
FirstKey(c) == IF calls[c].inTurn THEN counter % calls[c].keys ELSE 0

\* translate_once, translate_deepl_multi_key
Attempt(c) ==
    /\ calls[c].at = "attempt"
    /\ calls' = [calls EXCEPT ![c].at = "ask", ![c].start = FirstKey(c), ![c].offset = 0,
                              ![c].asked = << >>]
    /\ counter' = IF calls[c].inTurn THEN counter + 1 ELSE counter

\* Mutant: the keys before the start are left out, the last is asked again.
KeyIndexCapped(k) == IF k.start + k.offset < k.keys THEN k.start + k.offset ELSE k.keys - 1
KeyIndex(k) == (k.start + k.offset) % k.keys

MoreKeys(k) == k.offset + 1 < k.keys

\* Mutant: the attempts are not counted.
AttemptedAgain(k, e) ==
    IF e.kind # "ok" /\ Retryable(e) THEN [k EXCEPT !.at = "wait", !.asked = << >>]
    ELSE [k EXCEPT !.at = "done", !.result = e]

\* The attempt is over: the call ends, or sleeps before the next attempt.
Attempted(k, e) ==
    IF e.kind # "ok" /\ Retryable(e) /\ k.attempt < MaxRetries
    THEN [k EXCEPT !.at = "wait", !.attempt = @ + 1, !.asked = << >>]
    ELSE [k EXCEPT !.at = "done", !.result = e]

\* One request with one key; a key that is refused or used up hands over to the next.
Ask(c) ==
    /\ calls[c].at = "ask"
    /\ \E e \in Outcomes(calls[c].service) :
        LET k == [calls[c] EXCEPT !.asked = Append(@, KeyIndex(calls[c]))]
        IN calls' = [calls EXCEPT ![c] =
              IF k.service = "deepl" /\ e.kind # "ok" /\ FallsBack(e) /\ MoreKeys(k)
              THEN [k EXCEPT !.offset = @ + 1]
              ELSE Attempted(k, e)]
    /\ UNCHANGED counter

\* tokio::time::sleep(delay): the server's Retry-After or a back-off, which is finite.
Sleep(c) ==
    /\ calls[c].at = "wait"
    /\ calls' = [calls EXCEPT ![c].at = "attempt"]
    /\ UNCHANGED counter

Step(c) == Attempt(c) \/ Ask(c) \/ Sleep(c)
Next == \E c \in Call : Begin(c) \/ Step(c)

\* An HTTP request ends within its time limit, and a sleep is finite.
Fairness == \A c \in Call : WF_vars(Step(c))
Spec == Init /\ [][Next]_vars /\ Fairness

-----------------------------------------------------------------------------
(* Properties                                                              *)

(* A job's keys back each other up: a call that ends because a key was     *)
(* refused or used up has asked every key in its last attempt, each once,  *)
(* wherever that attempt began and whatever other calls took from the      *)
(* counter meanwhile.                                                      *)
EveryKeyAsked ==
    \A c \in Call :
        LET k == calls[c]
        IN k.at = "done" /\ k.service = "deepl" /\ k.result.kind # "ok" /\ FallsBack(k.result) =>
               /\ Len(k.asked) = k.keys
               /\ {k.asked[i] : i \in 1..Len(k.asked)} = 0..(k.keys - 1)

(* A call ends, also when every attempt fails with an error that is        *)
(* retried.                                                                *)
CallsEnd == \A c \in Call : calls[c].at = "attempt" ~> calls[c].at = "done"

(* Output cut at the token limit is never taken for the translation, and   *)
(* no text of an error response, or of one read in part, is.               *)
AnswersAreWhole(service, r) ==
    Answer(service, r).kind = "ok" =>
        /\ r.status = 200 /\ r.fault = "none"
        /\ service # "custom_whole" => r.body.json /\ r.body.text # "missing"
        /\ service \in Llm => r.body.stop # "cut"

(* A service that asks the client to slow down is asked again, unless its  *)
(* answer could not be read.                                               *)
ThrottledIsRetried(service, r) ==
    r.status = 429 /\ r.fault = "none" /\ r.size = "small" => Retryable(Answer(service, r))
=============================================================================
