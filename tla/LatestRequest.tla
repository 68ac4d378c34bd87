--------------------------- MODULE LatestRequest ---------------------------
(***************************************************************************)
(* What a consumer of the translation dispatcher may rely on, without any  *)
(* of its threads, channels or locks: for each target (a window) only the  *)
(* newest request can be answered, at most once, and the consumer reads    *)
(* the answers of a target in the order of its requests.  A response may   *)
(* be lost; a response that nobody asked for any more never appears.       *)
(*                                                                         *)
(* TranslationDispatch is shown to implement this module.                  *)
(***************************************************************************)
EXTENDS Naturals

CONSTANTS
    Target,       \* the consumers of responses (window handles)
    MaxRequests   \* bound on the number of requests of a behaviour

VARIABLES
    issued,       \* number of request ids handed out so far
    wanted,       \* wanted[t]: the request target t waits for, 0 if none
    answered,     \* ids a response was produced for
    answers,      \* answers[t]: ids whose response waits to be read by t
    read          \* read[t]: the response t read last, 0 before the first

vars == <<issued, wanted, answered, answers, read>>

Ids == 1..MaxRequests

TypeOK ==
    /\ issued \in 0..MaxRequests
    /\ wanted \in [Target -> 0..MaxRequests]
    /\ answered \in SUBSET Ids
    /\ answers \in [Target -> SUBSET Ids]
    /\ read \in [Target -> 0..MaxRequests]

Init ==
    /\ issued = 0
    /\ wanted = [t \in Target |-> 0]
    /\ answered = {}
    /\ answers = [t \in Target |-> {}]
    /\ read = [t \in Target |-> 0]

(* A new request replaces whatever the target waited for. *)
Request(t) ==
    /\ issued < MaxRequests
    /\ issued' = issued + 1
    /\ wanted' = [wanted EXCEPT ![t] = issued + 1]
    /\ UNCHANGED <<answered, answers, read>>

(* The newest request cannot be handed to the worker: it is withdrawn. *)
Refuse(t) ==
    /\ wanted[t] = issued
    /\ issued \notin answered
    /\ wanted' = [wanted EXCEPT ![t] = 0]
    /\ UNCHANGED <<issued, answered, answers, read>>

(* Cancelling forgets the request and every response not read yet. *)
Cancel(t) ==
    /\ wanted' = [wanted EXCEPT ![t] = 0]
    /\ answers' = [answers EXCEPT ![t] = {}]
    /\ UNCHANGED <<issued, answered, read>>

(* The wanted request is answered, once.  A bounded store may push out some *)
(* other response to make room.                                             *)
Answer(t) ==
    /\ wanted[t] # 0
    /\ wanted[t] \notin answered
    /\ answered' = answered \union {wanted[t]}
    /\ \E lost \in SUBSET Ids :
          answers' = [u \in Target |->
                        (answers[u] \union (IF u = t THEN {wanted[t]} ELSE {}))
                          \ lost]
    /\ UNCHANGED <<issued, wanted, read>>

(* A response whose notification failed is withdrawn. *)
Lose(t) ==
    /\ \E id \in answers[t] : answers' = [answers EXCEPT ![t] = @ \ {id}]
    /\ UNCHANGED <<issued, wanted, answered, read>>

(* The consumer reads its oldest response, which is newer than all it read *)
(* before.                                                                *)
Take(t) ==
    /\ \E id \in answers[t] :
          /\ \A other \in answers[t] : id <= other
          /\ id > read[t]
          /\ answers' = [answers EXCEPT ![t] = @ \ {id}]
          /\ read' = [read EXCEPT ![t] = id]
    /\ UNCHANGED <<issued, wanted, answered>>

Next ==
    \E t \in Target :
        \/ Request(t) \/ Refuse(t) \/ Cancel(t)
        \/ Answer(t) \/ Lose(t) \/ Take(t)

Spec == Init /\ [][Next]_vars
=============================================================================
